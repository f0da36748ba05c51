---- MODULE TestLifecycleProofs ----
(***************************************************************************)
(* Test.execute() called by any number of threads and interrupted by any   *)
(* number of SIGINTs: one executor runs at a time, the handler aborts the  *)
(* executor that runs, and executions it cannot interrupt leave the Test   *)
(* ready for the next one.                                                 *)
(***************************************************************************)
EXTENDS TestLifecycle, FiniteSetTheorems, TLAPS

\* Where a caller has an executor of its own.
Active == {"register", "start", "unlock", "try", "wait", "wait2", "finalize", "callbacks",
           "del", "close", "clear"}

LEMMA LabelFacts ==
  /\ \A l \in PcLabels : AfterInterrupt(l) \in {"idle", "wait2", "finalize", "del"}
  /\ \A l \in PcLabels \ Active : AfterInterrupt(l) = "idle"
BY DEF PcLabels, Active, AfterInterrupt

\* The types; that runs are counted within their bound is CountInv's.
TypeInv ==
  /\ callers \in CallerSets
  /\ pc \in [Callers -> PcLabels] /\ mine \in [Callers -> Nat] /\ calls \in 0..MaxExecutes
  /\ lock \in Callers \cup {"none", Handler}
  /\ executor \in Nat /\ registered \in BOOLEAN /\ runs \in Nat
  /\ state \in [Runs -> {"new", "running", "finished", "broken"}]
  /\ aborted \in [Runs -> BOOLEAN] /\ out \in [Runs -> 0..Callbacks]
  /\ hpc \in {"none", "instances", "lock", "read", "abort", "unlock", "raise"}
  /\ handledOnce \in BOOLEAN /\ sigints \in 0..MaxSigints

LEMMA CallerFacts ==
  /\ callers \in CallerSets => callers \subseteq Callers
  /\ Handler \notin Callers /\ "none" \notin Callers /\ Handler # "none"
BY ConstantsAssumption DEF Callers, Handler

LEMMA TypeInvInit == Init => TypeInv
<1> SUFFICES ASSUME Init PROVE TypeInv
  OBVIOUS
<1>1. registered \in BOOLEAN /\ handledOnce \in BOOLEAN /\ aborted \in [Runs -> BOOLEAN]
  BY DEF Init
<1>2. /\ pc \in [Callers -> PcLabels] /\ mine \in [Callers -> Nat] /\ calls \in 0..MaxExecutes
      /\ state \in [Runs -> {"new", "running", "finished", "broken"}]
      /\ out \in [Runs -> 0..Callbacks] /\ sigints \in 0..MaxSigints
      /\ executor \in Nat /\ runs \in Nat
  BY ConstantsAssumption DEF Init, PcLabels
<1>3. QED
  BY <1>1, <1>2 DEF Init, TypeInv

LEMMA TypeInvStep == TypeInv /\ [Next]_vars => TypeInv'
<1> SUFFICES ASSUME TypeInv, [Next]_vars PROVE TypeInv'
  OBVIOUS
<1> USE ConstantsAssumption, CallerFacts, LabelFacts
    DEF TypeInv, At, Goto, PcLabels, callerVars, testVars, handlerVars
<1>1. UNCHANGED callers
  BY DEF Next, vars
<1>2. CASE \E c \in Callers : Execute(c)
  BY <1>1, <1>2 DEF Execute
<1>3. CASE \E c \in Callers : AcquireLock(c)
  BY <1>1, <1>3 DEF AcquireLock
<1>4. CASE \E c \in Callers : CheckNotRunning(c)
  BY <1>1, <1>4 DEF CheckNotRunning
<1>5. CASE \E c \in Callers : CreateExecutor(c)
  BY <1>1, <1>5 DEF CreateExecutor
<1>6. CASE \E c \in Callers : RegisterInstance(c)
  BY <1>1, <1>6 DEF RegisterInstance
<1>7. CASE \E c \in Callers : StartExecutor(c)
  BY <1>1, <1>7 DEF StartExecutor
<1>8. CASE \E c \in Callers : ReleaseLock(c)
  BY <1>1, <1>8 DEF ReleaseLock
<1>9. CASE \E c \in Callers : EnterTry(c)
  BY <1>1, <1>9 DEF EnterTry
<1>10. CASE \E c \in Callers : WaitReturns(c)
  BY <1>1, <1>10 DEF WaitReturns
<1>11. CASE \E c \in Callers : Finalize(c)
  BY <1>1, <1>11 DEF Finalize
<1>12. CASE \E c \in Callers : OutputCallback(c)
  BY <1>1, <1>12 DEF OutputCallback
<1>13. CASE \E c \in Callers : DelInstance(c)
  BY <1>1, <1>13 DEF DelInstance
<1>14. CASE \E c \in Callers : CloseExecutor(c)
  BY <1>1, <1>14 DEF CloseExecutor
<1>15. CASE \E c \in Callers : ClearExecutor(c)
  BY <1>1, <1>15 DEF ClearExecutor
<1>16. CASE \E r \in Runs : ExecutorEnds(r)
  BY <1>1, <1>16 DEF ExecutorEnds
<1>17. CASE Sigint
  BY <1>1, <1>17 DEF Sigint
<1>18. CASE ReadInstances
  BY <1>1, <1>18 DEF ReadInstances, InterruptMain
<1>19. CASE HandlerLock
  BY <1>1, <1>19 DEF HandlerLock
<1>20. CASE HandlerReadExecutor
  BY <1>1, <1>20 DEF HandlerReadExecutor
<1>21. CASE HandlerAbort
  <2>1. aborted' \in [Runs -> BOOLEAN]
    BY <1>1, <1>21 DEF HandlerAbort
  <2>2. QED
    BY <1>1, <1>21, <2>1 DEF HandlerAbort, InterruptMain
<1>22. CASE HandlerUnlock
  BY <1>1, <1>22 DEF HandlerUnlock
<1>23. CASE HandlerRaise
  BY <1>1, <1>23 DEF HandlerRaise, InterruptMain
<1>24. CASE UNCHANGED vars
  BY <1>1, <1>24 DEF vars
<1>25. QED
  BY <1>2, <1>3, <1>4, <1>5, <1>6, <1>7, <1>8, <1>9, <1>10, <1>11, <1>12, <1>13, <1>14,
     <1>15, <1>16, <1>17, <1>18, <1>19, <1>20, <1>21, <1>22, <1>23, <1>24 DEF Next,
     CallerStep, HandlerStep, Done

---------------------------------------------------------------------------
(* Every executor was created by a call of execute() of its own.           *)

Pending == {c \in Callers : pc[c] \in {"lock", "check", "create"}}

CountInv == runs + Cardinality(Pending) <= calls

LEMMA CardinalityFacts ==
  \A S \in SUBSET Callers :
    /\ Cardinality(S) \in Nat
    /\ \A c \in S : Cardinality(S \ {c}) = Cardinality(S) - 1
    /\ \A c \in Callers \ S : Cardinality(S \cup {c}) = Cardinality(S) + 1
<1> SUFFICES ASSUME NEW S \in SUBSET Callers
             PROVE  /\ Cardinality(S) \in Nat
                    /\ \A c \in S : Cardinality(S \ {c}) = Cardinality(S) - 1
                    /\ \A c \in Callers \ S : Cardinality(S \cup {c}) = Cardinality(S) + 1
  OBVIOUS
<1>1. IsFiniteSet(S)
  BY ConstantsAssumption, FS_Subset
<1>2. QED
  BY <1>1, FS_CardinalityType, FS_RemoveElement, FS_AddElement

LEMMA CountInvStep == TypeInv /\ CountInv /\ [Next]_vars => CountInv'
<1> SUFFICES ASSUME TypeInv, CountInv, [Next]_vars PROVE CountInv'
  OBVIOUS
<1> USE ConstantsAssumption DEF TypeInv, CountInv
<1>1. Pending \in SUBSET Callers
  BY DEF Pending
<1>2. ASSUME UNCHANGED <<runs, calls>>, Pending' = Pending PROVE CountInv'
  BY <1>2
<1>3. ASSUME UNCHANGED <<runs, calls>>, NEW c \in Callers, Pending' = Pending \ {c}
      PROVE  CountInv'
  <2>1. CASE c \in Pending
    BY <2>1, <1>1, <1>3, CardinalityFacts
  <2>2. CASE c \notin Pending
    <3>1. Pending \ {c} = Pending
      BY <2>2
    <3>2. QED
      BY <3>1, <1>2, <1>3
  <2>3. QED
    BY <2>1, <2>2
<1>4. ASSUME NEW c \in Callers, CreateExecutor(c) PROVE CountInv'
  <2>1. Pending' = Pending \ {c} /\ c \in Pending /\ runs' = runs + 1 /\ calls' = calls
    BY <1>4 DEF CreateExecutor, At, Goto, Pending
  <2>2. QED
    BY <2>1, <1>1, CardinalityFacts
<1>5. ASSUME NEW c \in Callers, Execute(c) PROVE CountInv'
  <2>1. /\ Pending' = Pending \cup {c} /\ c \in Callers \ Pending
        /\ runs' = runs /\ calls' = calls + 1
    BY <1>5 DEF Execute, At, Goto, Pending, testVars
  <2>2. QED
    BY <2>1, <1>1, CardinalityFacts
<1>6. ASSUME NEW c \in Callers, CheckNotRunning(c) PROVE CountInv'
  <2>1. UNCHANGED <<runs, calls>> /\ (Pending' = Pending \/ Pending' = Pending \ {c})
    BY <1>6 DEF CheckNotRunning, At, Goto, Pending, testVars
  <2>2. QED
    BY <2>1, <1>2, <1>3
<1>7. ASSUME UNCHANGED <<runs, calls>>, UNCHANGED pc \/ \E l : InterruptMain(l)
      PROVE  CountInv'
  <2>1. CASE UNCHANGED pc \/ Main \notin callers
    <3>1. Pending' = Pending
      BY <2>1, <1>7 DEF Pending, InterruptMain
    <3>2. QED
      BY <3>1, <1>7, <1>2
  <2>2. CASE Main \in callers /\ \E l : InterruptMain(l)
    <3>1. Main \in Callers /\ pc' = [pc EXCEPT ![Main] = AfterInterrupt(pc[Main])]
      BY <2>2, CallerFacts DEF InterruptMain
    <3>2. AfterInterrupt(pc[Main]) \notin {"lock", "check", "create"}
      BY <3>1, LabelFacts
    <3>3. Pending' = Pending \ {Main}
      BY <3>1, <3>2 DEF Pending
    <3>4. QED
      BY <3>1, <3>3, <1>3, <1>7
  <2>3. QED
    BY <2>1, <2>2, <1>7
<1>8. ASSUME NEW c \in Callers, NEW l,
             pc[c] # "idle" /\ pc[c] # "create" /\ pc[c] # "check", l # "check" => pc[c] # "lock",
             l \notin {"lock", "create"}, l = "check" => pc[c] = "lock",
             Goto(c, l), UNCHANGED <<runs, calls>>
      PROVE  CountInv'
  <2>1. Pending' = Pending
    BY <1>8 DEF Goto, Pending
  <2>2. QED
    BY <2>1, <1>8, <1>2
<1>9. ASSUME NEW c \in Callers, CallerStep(c) PROVE CountInv'
  <2>1. CASE AcquireLock(c)
    BY <2>1, <1>8 DEF AcquireLock, At, testVars
  <2>2. CASE RegisterInstance(c)
    BY <2>2, <1>8 DEF RegisterInstance, At
  <2>3. CASE StartExecutor(c)
    BY <2>3, <1>8 DEF StartExecutor, At, testVars
  <2>4. CASE ReleaseLock(c)
    BY <2>4, <1>8 DEF ReleaseLock, At, testVars
  <2>5. CASE EnterTry(c)
    BY <2>5, <1>8 DEF EnterTry, At, testVars
  <2>6. CASE WaitReturns(c)
    BY <2>6, <1>8 DEF WaitReturns, At, testVars
  <2>7. CASE Finalize(c)
    BY <2>7, <1>8 DEF Finalize, At, testVars
  <2>8. CASE OutputCallback(c)
    BY <2>8, <1>7, <1>8 DEF OutputCallback, At
  <2>9. CASE DelInstance(c)
    BY <2>9, <1>8 DEF DelInstance, At
  <2>10. CASE CloseExecutor(c)
    BY <2>10, <1>8 DEF CloseExecutor, At, testVars
  <2>11. CASE ClearExecutor(c)
    BY <2>11, <1>8 DEF ClearExecutor, At
  <2>12. QED
    BY <1>9, <1>4, <1>6, <2>1, <2>2, <2>3, <2>4, <2>5, <2>6, <2>7, <2>8, <2>9, <2>10,
       <2>11 DEF CallerStep
<1>10. CASE (\E r \in Runs : ExecutorEnds(r)) \/ Sigint \/ HandlerStep \/ UNCHANGED vars
  BY <1>10, <1>7
     DEF ExecutorEnds, Sigint, HandlerStep, ReadInstances, HandlerLock, HandlerReadExecutor,
         HandlerAbort, HandlerUnlock, HandlerRaise, callerVars, testVars, vars
<1>11. QED
  BY <1>5, <1>9, <1>10 DEF Next, Done

---------------------------------------------------------------------------
(* Test._lock is held exactly by the caller that is in its guarded part, or *)
(* by the handler in its own.                                              *)

LockInv ==
  /\ \A c \in Callers : pc[c] \in Locked <=> lock = c
  /\ lock = Handler <=> hpc \in {"read", "abort", "unlock"}

LEMMA LockInvStep == TypeInv /\ LockInv /\ [Next]_vars => LockInv'
<1> SUFFICES ASSUME TypeInv, LockInv, [Next]_vars PROVE LockInv'
  OBVIOUS
<1> USE CallerFacts, LabelFacts
    DEF TypeInv, LockInv, At, Goto, Locked, callerVars, handlerVars
<1>1. CASE \E c \in Callers : Execute(c)
  BY <1>1 DEF Execute
<1>2. CASE \E c \in Callers : AcquireLock(c)
  BY <1>2 DEF AcquireLock
<1>3. CASE \E c \in Callers : CheckNotRunning(c)
  BY <1>3 DEF CheckNotRunning
<1>4. CASE \E c \in Callers : CreateExecutor(c)
  BY <1>4 DEF CreateExecutor
<1>5. CASE \E c \in Callers : RegisterInstance(c)
  BY <1>5 DEF RegisterInstance
<1>6. CASE \E c \in Callers : StartExecutor(c)
  BY <1>6 DEF StartExecutor
<1>7. CASE \E c \in Callers : ReleaseLock(c)
  BY <1>7 DEF ReleaseLock
<1>8. CASE \E c \in Callers : EnterTry(c)
  BY <1>8 DEF EnterTry
<1>9. CASE \E c \in Callers : WaitReturns(c)
  BY <1>9 DEF WaitReturns
<1>10. CASE \E c \in Callers : Finalize(c)
  BY <1>10 DEF Finalize
<1>11. CASE \E c \in Callers : OutputCallback(c)
  BY <1>11 DEF OutputCallback
<1>12. CASE \E c \in Callers : DelInstance(c)
  BY <1>12 DEF DelInstance
<1>13. CASE \E c \in Callers : CloseExecutor(c)
  BY <1>13 DEF CloseExecutor
<1>14. CASE \E c \in Callers : ClearExecutor(c)
  BY <1>14 DEF ClearExecutor
<1>15. CASE \E r \in Runs : ExecutorEnds(r)
  BY <1>15 DEF ExecutorEnds
<1>16. CASE Sigint
  BY <1>16 DEF Sigint
<1>17. CASE ReadInstances
  BY <1>17 DEF ReadInstances, InterruptMain
<1>18. CASE HandlerLock
  BY <1>18 DEF HandlerLock
<1>19. CASE HandlerReadExecutor
  BY <1>19 DEF HandlerReadExecutor
<1>20. CASE HandlerAbort
  BY <1>20 DEF HandlerAbort, InterruptMain
<1>21. CASE HandlerUnlock
  BY <1>21 DEF HandlerUnlock
<1>22. CASE HandlerRaise
  BY <1>22 DEF HandlerRaise, InterruptMain
<1>23. CASE UNCHANGED vars
  BY <1>23 DEF vars
<1>24. QED
  BY <1>1, <1>2, <1>3, <1>4, <1>5, <1>6, <1>7, <1>8, <1>9, <1>10, <1>11, <1>12, <1>13,
     <1>14, <1>15, <1>16, <1>17, <1>18, <1>19, <1>20, <1>21, <1>22, <1>23 DEF Next,
     CallerStep, HandlerStep, Done

(* Test._executor is the executor of the one caller that has one, and no   *)
(* other executor runs.                                                    *)

OwnerInv ==
  /\ \A c \in Callers : pc[c] = "create" => executor = 0
  /\ \A c \in Callers : pc[c] \in Active => executor # 0 /\ mine[c] = executor
  /\ \A c, d \in Callers : pc[c] \in Active /\ pc[d] \in Active => c = d

RunInv ==
  /\ executor <= runs /\ runs <= MaxExecutes
  /\ \A c \in Callers : mine[c] <= runs
  /\ \A r \in Runs : r > runs => state[r] = "new"
  /\ \A r \in Runs : state[r] = "running" => r = executor
  /\ \A c \in Callers : pc[c] = "clear" => state[mine[c]] = "finished"

LEMMA OwnerInvStep ==
  TypeInv /\ LockInv /\ OwnerInv /\ [Next]_vars => OwnerInv'
<1> SUFFICES ASSUME TypeInv, LockInv, OwnerInv, [Next]_vars PROVE OwnerInv'
  OBVIOUS
<1> USE CallerFacts, LabelFacts
    DEF TypeInv, OwnerInv, At, Goto, Active, callerVars, testVars
<1>1. CASE \E c \in Callers : Execute(c)
  BY <1>1 DEF Execute
<1>2. CASE \E c \in Callers : AcquireLock(c)
  BY <1>2 DEF AcquireLock
<1>3. CASE \E c \in Callers : CheckNotRunning(c)
  BY <1>3 DEF CheckNotRunning, LockInv, Locked
<1>4. CASE \E c \in Callers : CreateExecutor(c)
  BY <1>4 DEF CreateExecutor, LockInv, Locked
<1>5. CASE \E c \in Callers : RegisterInstance(c)
  BY <1>5 DEF RegisterInstance
<1>6. CASE \E c \in Callers : StartExecutor(c)
  BY <1>6 DEF StartExecutor
<1>7. CASE \E c \in Callers : ReleaseLock(c)
  BY <1>7 DEF ReleaseLock
<1>8. CASE \E c \in Callers : EnterTry(c)
  BY <1>8 DEF EnterTry
<1>9. CASE \E c \in Callers : WaitReturns(c)
  BY <1>9 DEF WaitReturns
<1>10. CASE \E c \in Callers : Finalize(c)
  BY <1>10 DEF Finalize
<1>11. CASE \E c \in Callers : OutputCallback(c)
  BY <1>11 DEF OutputCallback
<1>12. CASE \E c \in Callers : DelInstance(c)
  BY <1>12 DEF DelInstance
<1>13. CASE \E c \in Callers : CloseExecutor(c)
  BY <1>13 DEF CloseExecutor
<1>14. CASE \E c \in Callers : ClearExecutor(c)
  BY <1>14 DEF ClearExecutor
<1>15. CASE \E r \in Runs : ExecutorEnds(r)
  BY <1>15 DEF ExecutorEnds
<1>16. CASE Sigint
  BY <1>16 DEF Sigint
<1>17. CASE ReadInstances
  BY <1>17 DEF ReadInstances, InterruptMain
<1>18. CASE HandlerLock
  BY <1>18 DEF HandlerLock
<1>19. CASE HandlerReadExecutor
  BY <1>19 DEF HandlerReadExecutor
<1>20. CASE HandlerAbort
  BY <1>20 DEF HandlerAbort, InterruptMain
<1>21. CASE HandlerUnlock
  BY <1>21 DEF HandlerUnlock
<1>22. CASE HandlerRaise
  BY <1>22 DEF HandlerRaise, InterruptMain
<1>23. CASE UNCHANGED vars
  BY <1>23 DEF vars
<1>24. QED
  BY <1>1, <1>2, <1>3, <1>4, <1>5, <1>6, <1>7, <1>8, <1>9, <1>10, <1>11, <1>12, <1>13,
     <1>14, <1>15, <1>16, <1>17, <1>18, <1>19, <1>20, <1>21, <1>22, <1>23 DEF Next,
     CallerStep, HandlerStep, Done

LEMMA RunInvStep ==
  TypeInv /\ LockInv /\ OwnerInv /\ RunInv /\ CountInv /\ CountInv' /\ TypeInv' /\ [Next]_vars
    => RunInv'
<1> SUFFICES ASSUME TypeInv, LockInv, OwnerInv, RunInv, CountInv, CountInv', TypeInv', [Next]_vars
             PROVE  RunInv'
  OBVIOUS
<1>1. runs' <= MaxExecutes
  <2>1. Cardinality(Pending') \in Nat
    BY CardinalityFacts DEF Pending
  <2>2. QED
    BY <2>1, ConstantsAssumption DEF CountInv, TypeInv
<1> USE CallerFacts, LabelFacts
    DEF TypeInv, OwnerInv, RunInv, At, Goto, Active, Runs, callerVars, testVars
<1>2. CASE \E c \in Callers : Execute(c)
  BY <1>1, <1>2 DEF Execute
<1>3. CASE \E c \in Callers : AcquireLock(c)
  BY <1>1, <1>3 DEF AcquireLock
<1>4. CASE \E c \in Callers : CheckNotRunning(c)
  BY <1>1, <1>4 DEF CheckNotRunning
<1>5. CASE \E c \in Callers : CreateExecutor(c)
  BY <1>1, <1>5 DEF CreateExecutor
<1>6. CASE \E c \in Callers : RegisterInstance(c)
  BY <1>1, <1>6 DEF RegisterInstance
<1>7. CASE \E c \in Callers : StartExecutor(c)
  BY <1>1, <1>7 DEF StartExecutor
<1>8. CASE \E c \in Callers : ReleaseLock(c)
  BY <1>1, <1>8 DEF ReleaseLock
<1>9. CASE \E c \in Callers : EnterTry(c)
  BY <1>1, <1>9 DEF EnterTry
<1>10. CASE \E c \in Callers : WaitReturns(c)
  BY <1>1, <1>10 DEF WaitReturns
<1>11. CASE \E c \in Callers : Finalize(c)
  BY <1>1, <1>11 DEF Finalize
<1>12. CASE \E c \in Callers : OutputCallback(c)
  BY <1>1, <1>12 DEF OutputCallback
<1>13. CASE \E c \in Callers : DelInstance(c)
  BY <1>1, <1>13 DEF DelInstance
<1>14. CASE \E c \in Callers : CloseExecutor(c)
  BY <1>1, <1>14 DEF CloseExecutor
<1>15. CASE \E c \in Callers : ClearExecutor(c)
  BY <1>1, <1>15 DEF ClearExecutor
<1>16. CASE \E r \in Runs : ExecutorEnds(r)
  BY <1>1, <1>16 DEF ExecutorEnds
<1>17. CASE Sigint
  BY <1>1, <1>17 DEF Sigint
<1>18. CASE ReadInstances
  BY <1>1, <1>18 DEF ReadInstances, InterruptMain
<1>19. CASE HandlerLock
  BY <1>1, <1>19 DEF HandlerLock
<1>20. CASE HandlerReadExecutor
  BY <1>1, <1>20 DEF HandlerReadExecutor
<1>21. CASE HandlerAbort
  BY <1>1, <1>21 DEF HandlerAbort, InterruptMain
<1>22. CASE HandlerUnlock
  BY <1>1, <1>22 DEF HandlerUnlock
<1>23. CASE HandlerRaise
  BY <1>1, <1>23 DEF HandlerRaise, InterruptMain
<1>24. CASE UNCHANGED vars
  BY <1>1, <1>24 DEF vars
<1>25. QED
  BY <1>2, <1>3, <1>4, <1>5, <1>6, <1>7, <1>8, <1>9, <1>10, <1>11, <1>12, <1>13, <1>14,
     <1>15, <1>16, <1>17, <1>18, <1>19, <1>20, <1>21, <1>22, <1>23, <1>24 DEF Next,
     CallerStep, HandlerStep, Done

ExecutorInv == TypeInv /\ CountInv /\ LockInv /\ OwnerInv /\ RunInv

LEMMA ExecutorInvInit == Init => ExecutorInv
<1> SUFFICES ASSUME Init PROVE ExecutorInv
  OBVIOUS
<1>1. TypeInv
  BY TypeInvInit
<1>2. CountInv
  <2>1. Pending = {}
    BY DEF Init, Pending
  <2>2. QED
    BY <2>1, FS_EmptySet DEF Init, CountInv
<1>3. LockInv
  BY CallerFacts DEF Init, LockInv, Locked
<1>4. OwnerInv /\ RunInv
  BY ConstantsAssumption DEF Init, OwnerInv, RunInv, Active, Runs
<1>5. QED
  BY <1>1, <1>2, <1>3, <1>4 DEF ExecutorInv

LEMMA ExecutorInvHolds == Spec => []ExecutorInv
<1>1. ExecutorInv /\ [Next]_vars => ExecutorInv'
  BY TypeInvStep, CountInvStep, LockInvStep, OwnerInvStep, RunInvStep DEF ExecutorInv
<1>2. QED
  BY <1>1, ExecutorInvInit, PTL DEF Spec

(* TestLifecycle.TypeOK: among others, execute() never creates more        *)
(* executors than it was called.                                           *)
THEOREM TypeCorrect == Spec => []TypeOK
<1>1. ExecutorInv => TypeOK
  <2> SUFFICES ASSUME ExecutorInv PROVE TypeOK
    OBVIOUS
  <2>1. mine \in [Callers -> 0..MaxExecutes]
    BY ConstantsAssumption DEF ExecutorInv, TypeInv, RunInv
  <2>2. executor \in 0..MaxExecutes /\ runs \in 0..MaxExecutes
    BY ConstantsAssumption DEF ExecutorInv, TypeInv, RunInv
  <2>3. QED
    BY <2>1, <2>2 DEF ExecutorInv, TypeInv, TypeOK
<1>2. QED
  BY ExecutorInvHolds, <1>1, PTL

(* Test.execute() takes Test._lock for its sanity check and keeps it until *)
(* the executor runs, so at most one executor runs at a time, although     *)
(* _executor is cleared without the lock and SIGINTs cut calls short.      *)
THEOREM OneExecutorRuns == Spec => []OneExecutor
<1>1. ExecutorInv => OneExecutor
  <2> SUFFICES ASSUME ExecutorInv PROVE OneExecutor
    OBVIOUS
  <2>1. {r \in Runs : state[r] = "running"} \in SUBSET {executor}
    BY DEF ExecutorInv, RunInv
  <2>2. Cardinality({executor}) = 1 /\ IsFiniteSet({executor})
    BY FS_Singleton
  <2>3. QED
    BY <2>1, <2>2, FS_Subset DEF OneExecutor
<1>2. QED
  BY ExecutorInvHolds, <1>1, PTL

---------------------------------------------------------------------------
(* The handler.                                                            *)

LEMMA SigintAbortsStep ==
  ExecutorInv /\ ExecutorInv' /\ SigintAborts /\ [Next]_vars => SigintAborts'
<1> SUFFICES ASSUME ExecutorInv, ExecutorInv', SigintAborts, [Next]_vars PROVE SigintAborts'
  OBVIOUS
<1> USE CallerFacts
    DEF ExecutorInv, TypeInv, LockInv, RunInv, Runs, SigintAborts, At, Goto, Locked,
        callerVars, testVars, handlerVars
<1>1. CASE \E c \in Callers : Execute(c)
  BY <1>1 DEF Execute
<1>2. CASE \E c \in Callers : AcquireLock(c)
  BY <1>2 DEF AcquireLock
<1>3. CASE \E c \in Callers : CheckNotRunning(c)
  BY <1>3 DEF CheckNotRunning
<1>4. CASE \E c \in Callers : CreateExecutor(c)
  BY <1>4 DEF CreateExecutor
<1>5. CASE \E c \in Callers : RegisterInstance(c)
  BY <1>5 DEF RegisterInstance
<1>6. CASE \E c \in Callers : StartExecutor(c)
  BY <1>6 DEF StartExecutor
<1>7. CASE \E c \in Callers : ReleaseLock(c)
  BY <1>7 DEF ReleaseLock
<1>8. CASE \E c \in Callers : EnterTry(c)
  BY <1>8 DEF EnterTry
<1>9. CASE \E c \in Callers : WaitReturns(c)
  BY <1>9 DEF WaitReturns
<1>10. CASE \E c \in Callers : Finalize(c)
  BY <1>10 DEF Finalize
<1>11. CASE \E c \in Callers : OutputCallback(c)
  BY <1>11 DEF OutputCallback
<1>12. CASE \E c \in Callers : DelInstance(c)
  BY <1>12 DEF DelInstance
<1>13. CASE \E c \in Callers : CloseExecutor(c)
  BY <1>13 DEF CloseExecutor
<1>14. CASE \E c \in Callers : ClearExecutor(c)
  BY <1>14 DEF ClearExecutor
<1>15. CASE \E r \in Runs : ExecutorEnds(r)
  BY <1>15 DEF ExecutorEnds
<1>16. CASE Sigint
  BY <1>16 DEF Sigint
<1>17. CASE ReadInstances
  BY <1>17 DEF ReadInstances, InterruptMain
<1>18. CASE HandlerLock
  BY <1>18 DEF HandlerLock
<1>19. CASE HandlerReadExecutor
  BY <1>19 DEF HandlerReadExecutor
<1>20. CASE HandlerAbort
  <2>1. CASE executor = 0
    BY <1>20, <2>1 DEF HandlerAbort
  <2>2. CASE executor # 0
    <3>1. executor \in Runs /\ executor' = executor
      BY <1>20, <2>2, ConstantsAssumption DEF HandlerAbort
    <3>2. aborted' = [aborted EXCEPT ![executor] = TRUE]
      BY <1>20, <2>2 DEF HandlerAbort
    <3>3. aborted'[executor']
      BY <3>1, <3>2, Zenon DEF TypeInv
    <3>4. QED
      BY <3>3
  <2>3. QED
    BY <2>1, <2>2
<1>21. CASE HandlerUnlock
  BY <1>21 DEF HandlerUnlock
<1>22. CASE HandlerRaise
  BY <1>22 DEF HandlerRaise, InterruptMain
<1>23. CASE UNCHANGED vars
  BY <1>23 DEF vars
<1>24. QED
  BY <1>1, <1>2, <1>3, <1>4, <1>5, <1>6, <1>7, <1>8, <1>9, <1>10, <1>11, <1>12, <1>13,
     <1>14, <1>15, <1>16, <1>17, <1>18, <1>19, <1>20, <1>21, <1>22, <1>23 DEF Next,
     CallerStep, HandlerStep, Done

(* Test.abort_from_sig_int holds Test._lock from the read of _executor to  *)
(* the end of abort(), so the executor that runs when it lets go is the    *)
(* one that it has aborted.                                                *)
THEOREM SigintAbortsRunning == Spec => []SigintAborts
<1>1. Init => SigintAborts
  BY DEF Init, SigintAborts
<1>2. QED
  BY <1>1, ExecutorInvHolds, SigintAbortsStep, PTL DEF Spec

---------------------------------------------------------------------------
(* Executions that no KeyboardInterrupt cuts short.                        *)

CompleteInv ==
  Apart =>
    /\ executor # 0 => \E c \in Callers : pc[c] \in Active
    /\ registered =>
         \E c \in Callers : pc[c] \in Active \ {"register", "close", "clear"}
    /\ \A c \in Callers : pc[c] \in {"finalize", "callbacks", "del", "close", "clear"}
                            => state[mine[c]] = "finished"
    /\ \A c \in Callers : pc[c] \in {"del", "close", "clear"} => out[mine[c]] = Callbacks
    /\ \A r \in Runs : state[r] = "finished" => r = executor \/ out[r] = Callbacks

LEMMA CompleteInvStep ==
  ExecutorInv /\ ExecutorInv' /\ CompleteInv /\ [Next]_vars => CompleteInv'
<1> SUFFICES ASSUME ExecutorInv, ExecutorInv', CompleteInv, [Next]_vars, Apart
             PROVE  CompleteInv'
  BY DEF Apart, CompleteInv, Next, vars
<1> USE CallerFacts, ConstantsAssumption
    DEF ExecutorInv, TypeInv, OwnerInv, RunInv, Runs, CompleteInv, Apart, At, Goto, Active,
        callerVars, testVars, handlerVars
<1>1. CASE \E c \in Callers : Execute(c)
  BY <1>1 DEF Execute
<1>2. CASE \E c \in Callers : AcquireLock(c)
  BY <1>2 DEF AcquireLock
<1>3. CASE \E c \in Callers : CheckNotRunning(c)
  BY <1>3 DEF CheckNotRunning
<1>4. CASE \E c \in Callers : CreateExecutor(c)
  BY <1>4 DEF CreateExecutor
<1>5. CASE \E c \in Callers : RegisterInstance(c)
  BY <1>5 DEF RegisterInstance
<1>6. CASE \E c \in Callers : StartExecutor(c)
  BY <1>6 DEF StartExecutor
<1>7. CASE \E c \in Callers : ReleaseLock(c)
  BY <1>7 DEF ReleaseLock
<1>8. CASE \E c \in Callers : EnterTry(c)
  BY <1>8 DEF EnterTry
<1>9. CASE \E c \in Callers : WaitReturns(c)
  BY <1>9 DEF WaitReturns
<1>10. CASE \E c \in Callers : Finalize(c)
  BY <1>10 DEF Finalize
<1>11. CASE \E c \in Callers : OutputCallback(c)
  BY <1>11 DEF OutputCallback
<1>12. CASE \E c \in Callers : DelInstance(c)
  BY <1>12 DEF DelInstance
<1>13. CASE \E c \in Callers : CloseExecutor(c)
  BY <1>13 DEF CloseExecutor
<1>14. CASE \E c \in Callers : ClearExecutor(c)
  BY <1>14 DEF ClearExecutor
<1>15. CASE \E r \in Runs : ExecutorEnds(r)
  BY <1>15 DEF ExecutorEnds
<1>16. CASE Sigint
  BY <1>16 DEF Sigint
<1>17. CASE ReadInstances
  BY <1>17 DEF ReadInstances, InterruptMain
<1>18. CASE HandlerLock
  BY <1>18 DEF HandlerLock
<1>19. CASE HandlerReadExecutor
  BY <1>19 DEF HandlerReadExecutor
<1>20. CASE HandlerAbort
  BY <1>20 DEF HandlerAbort, InterruptMain
<1>21. CASE HandlerUnlock
  BY <1>21 DEF HandlerUnlock
<1>22. CASE HandlerRaise
  BY <1>22 DEF HandlerRaise, InterruptMain
<1>23. CASE UNCHANGED vars
  BY <1>23 DEF vars
<1>24. QED
  BY <1>1, <1>2, <1>3, <1>4, <1>5, <1>6, <1>7, <1>8, <1>9, <1>10, <1>11, <1>12, <1>13,
     <1>14, <1>15, <1>16, <1>17, <1>18, <1>19, <1>20, <1>21, <1>22, <1>23 DEF Next,
     CallerStep, HandlerStep, Done

(* When the main thread does not execute the test itself, execute() leaves *)
(* a Test without executor, out of TEST_INSTANCES, and every run that has  *)
(* finished has gone to every output callback, whatever the callers and    *)
(* the SIGINTs in between.                                                 *)
THEOREM RunsAreComplete == Spec => []RunsComplete
<1>1. Init => CompleteInv
  BY DEF Init, CompleteInv
<1>2. ExecutorInv /\ CompleteInv => RunsComplete
  BY DEF ExecutorInv, TypeInv, RunInv, Runs, CompleteInv, RunsComplete, AllIdle, Reusable,
         OutputComplete, Active
<1>3. QED
  BY <1>1, <1>2, ExecutorInvHolds, CompleteInvStep, PTL DEF Spec
====

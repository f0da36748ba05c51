------------------------ MODULE PhaseExecutorProofs ------------------------
(***************************************************************************)
(* Machine-checked proofs of the safety properties of PhaseExecutor, for   *)
(* every group, every repeat limit, every choice of phase options and any  *)
(* number of aborts.                                                       *)
(***************************************************************************)
EXTENDS PhaseExecutor, TLAPS, SequenceTheorems

USE DEF execVars, walkVars, testVars, sharedVars, flagVars, threadVars, abortVars

(* The control points inside one phase, from the while loop of execute_phase to
   its return into _execute_phase. *)
InPhase == {"repeat", "once", "spawn", "join", "outcome", "alive", "kset", "kprobe",
            "kraise", "clear", "record", "again", "finish"}

(* The control points of stop() that hold a captured phase thread. *)
HasTarget == {"alive", "kset", "kprobe", "kraise", "wait"}

(* Where the walk can be at each control point. *)
SlotOK ==
    /\ pc \in {"init", "startplugs", "plugs", "group"} => slot = 0
    /\ entered => slot > Setup
    /\ pc \in InPhase => slot \in Slots
    /\ pc = "next" => slot \in 1..Last
    /\ pc = "acquire" => slot = Setup + Main + 1 /\ Teardown > 0

TargetOK == apc \in HasTarget => target \in Threads

TypeInv == TypeOK /\ SlotOK /\ TargetOK

-----------------------------------------------------------------------------
(* Facts about the constant sets, so that their definitions can stay hidden. *)

LEMMA OutcomeFacts ==
    /\ "EXC" \in Outcomes /\ "TIMEOUT" \in Outcomes /\ "KILLED" \in Outcomes
    /\ "SKIP" \in Outcomes /\ "STOP" \in Outcomes
    /\ BodyResults \subseteq Outcomes
    /\ "NONE" \notin Outcomes
BY ConstantsAssumption DEF Outcomes, PhaseResults

LEMMA ThreadFacts ==
    /\ NoThread \notin Threads
    /\ \A s \in Slots, a \in 1..RepeatLimit : <<s, a>> \in Threads
    /\ \A t \in Threads : t = <<t[1], t[2]>> /\ t[1] \in Slots /\ t[2] \in 1..RepeatLimit
BY ConstantsAssumption DEF Threads, NoThread, Slots, Last

(* The step from one slot to the next stays inside the group. *)
LEMMA AfterSlotFacts ==
    ASSUME TypeInv, NEW b, AfterSlot(b)
    PROVE  /\ slot' \in 0..(Last + 1)
           /\ pc' \in {"diagnose", "acquire", "release", "next"}
           /\ entered' \in BOOLEAN
           /\ SlotOK'
<1> USE ConstantsAssumption DEF TypeInv, TypeOK, SlotOK, AfterSlot, Goto
<1>1. slot' \in 0..(Last + 1) /\ pc' \in {"diagnose", "acquire", "release", "next"}
  BY DEF Slots, Last, SetupSlots, MainSlots, TeardownSlots
<1>2. entered' \in BOOLEAN
  OBVIOUS
<1>3. SlotOK'
  BY <1>1, <1>2 DEF Slots, Last, SetupSlots, MainSlots, TeardownSlots, InPhase
<1>4. QED
  BY <1>1, <1>2, <1>3

-----------------------------------------------------------------------------
LEMMA TypeInvInit == Init => TypeInv
<1> SUFFICES ASSUME Init PROVE TypeInv
  OBVIOUS
<1> USE ConstantsAssumption DEF Init
<1>1. slot \in 0..(Last + 1) /\ attempt \in 1..RepeatLimit /\ aborts \in 0..MaxAborts
  BY DEF Last
<1>2. tstate \in [Threads -> ThreadStates] /\ result \in [Threads -> Outcomes \cup {"NONE"}]
  BY DEF ThreadStates
<1>3. killers \in [Threads -> SUBSET {"timeout", "abort"}] /\ pending \in [Threads -> BOOLEAN]
  OBVIOUS
<1>4. TypeOK
  BY <1>1, <1>2, <1>3, EmptySeq DEF TypeOK, PcLabels, ApcLabels
<1>5. SlotOK /\ TargetOK
  BY DEF SlotOK, TargetOK, HasTarget, InPhase
<1>6. QED
  BY <1>4, <1>5 DEF TypeInv

LEMMA TypeInvStep == TypeInv /\ [Next]_vars => TypeInv'
<1> SUFFICES ASSUME TypeInv, [Next]_vars PROVE TypeInv'
  OBVIOUS
<1> USE ConstantsAssumption, OutcomeFacts, ThreadFacts
    DEF TypeInv, TypeOK, SlotOK, TargetOK, HasTarget, InPhase, Goto, PcLabels, ApcLabels,
        This
<1>1. CASE PublishPhaseExec
  BY <1>1 DEF PublishPhaseExec
<1>2. CASE InitializePlugs
  <2>1. /\ lastOutcome' \in Outcomes \cup {"NONE"}
        /\ pc' \in {"group", "repeat", "teardown"} /\ slot = 0
    BY <1>2 DEF InitializePlugs
  <2>2. TypeOK'
    BY <1>2, <2>1 DEF InitializePlugs
  <2>3. SlotOK' /\ TargetOK'
    BY <1>2, <2>1 DEF InitializePlugs, Slots, Last
  <2>4. QED
    BY <2>2, <2>3
<1>3. CASE EnterGroup
  <2>1. entered' \in BOOLEAN /\ slot' \in {slot, 1} /\ pc' \in {"diagnose", "acquire", "next"}
    BY <1>3 DEF EnterGroup
  <2>2. TypeOK'
    BY <1>3, <2>1 DEF EnterGroup, Last
  <2>3. SlotOK'
    <3>1. CASE abort
      BY <1>3, <3>1 DEF EnterGroup
    <3>2. CASE ~abort
      <4>1. slot' = 1 /\ entered' = (Setup = 0)
        BY <1>3, <3>2 DEF EnterGroup
      <4>2. entered' => Setup = 0
        BY <4>1, Zenon
      <4>3. entered' => slot' > Setup
        BY <4>1, <4>2
      <4>4. /\ pc' = "next" => Setup + Main > 0
            /\ pc' = "acquire" => Setup + Main = 0 /\ Teardown > 0
        BY <1>3, <3>2 DEF EnterGroup, Last
      <4>5. QED
        BY <2>1, <4>1, <4>3, <4>4 DEF Last
    <3>3. QED
      BY <3>1, <3>2
  <2>4. TargetOK'
    BY <1>3 DEF EnterGroup
  <2>5. QED
    BY <2>2, <2>3, <2>4
<1>4. CASE AbortableNode
  <2>1. CASE abort
    <3>1. AfterSlot(TRUE)
      BY <1>4, <2>1 DEF AbortableNode
    <3>2. /\ slot' \in 0..(Last + 1) /\ pc' \in {"diagnose", "acquire", "release", "next"}
          /\ entered' \in BOOLEAN /\ SlotOK'
      BY <3>1, AfterSlotFacts
    <3>3. TypeOK' /\ TargetOK'
      BY <1>4, <3>2 DEF AbortableNode
    <3>4. QED
      BY <3>2, <3>3
  <2>2. CASE ~abort
    <3>1. /\ pc = "next" /\ pc' = "repeat" /\ attempt' = 1
          /\ UNCHANGED <<slot, entered, outcome, attempted, testVars, sharedVars, flagVars,
                         threadVars, abortVars>>
      BY <1>4, <2>2 DEF AbortableNode
    <3>2. TypeOK' /\ TargetOK'
      BY <3>1
    <3>3. SlotOK'
      BY <3>1 DEF Slots
    <3>4. QED
      BY <3>2, <3>3
  <2>3. QED
    BY <2>1, <2>2
<1>5. CASE AcquireTeardownLock
  BY <1>5 DEF AcquireTeardownLock, Last
<1>6. CASE TeardownNode
  <2>1. pc' \in {"release", "repeat"} /\ slot \in Slots
    BY <1>6 DEF TeardownNode, Slots
  <2>2. TypeOK'
    BY <1>6, <2>1 DEF TeardownNode
  <2>3. SlotOK' /\ TargetOK'
    BY <1>6, <2>1 DEF TeardownNode
  <2>4. QED
    BY <2>2, <2>3
<1>7. CASE ReleaseTeardownLock
  BY <1>7 DEF ReleaseTeardownLock
<1>8. CASE RepeatLoop
  BY <1>8 DEF RepeatLoop
<1>9. CASE RunIfDeclines
  <2>1. outcome' \in Outcomes \cup {"NONE"} /\ attempted' \subseteq Slots
    BY <1>9 DEF RunIfDeclines
  <2>2. TypeOK'
    BY <1>9, <2>1 DEF RunIfDeclines
  <2>3. SlotOK' /\ TargetOK'
    BY <1>9 DEF RunIfDeclines
  <2>4. QED
    BY <2>2, <2>3
<1>10. CASE EnterPhaseContext
  BY <1>10 DEF EnterPhaseContext
<1>11. CASE SpawnPhaseThread
  <2>1. slot \in Slots /\ This \in Threads
    BY <1>11 DEF SpawnPhaseThread
  <2>2. tstate' \in [Threads -> ThreadStates]
    BY <1>11, <2>1 DEF SpawnPhaseThread, ThreadStates
  <2>3. outcome' \in Outcomes \cup {"NONE"} /\ curThread' \in Threads \cup {NoThread}
    BY <1>11, <2>1 DEF SpawnPhaseThread
  <2>4. late' \subseteq Slots
    BY <1>11, <2>1 DEF SpawnPhaseThread
  <2>5. pc' \in {"record", "join"}
    BY <1>11 DEF SpawnPhaseThread
  <2>6. TypeOK'
    BY <1>11, <2>2, <2>3, <2>4, <2>5 DEF SpawnPhaseThread
  <2>7. SlotOK' /\ TargetOK'
    BY <1>11, <2>1, <2>5 DEF SpawnPhaseThread
  <2>8. QED
    BY <2>6, <2>7
<1>12. CASE JoinEnds
  BY <1>12 DEF JoinEnds
<1>13. CASE ReadOutcome
  BY <1>13 DEF ReadOutcome
<1>14. CASE CheckAlive
  BY <1>14 DEF CheckAlive
<1>15. CASE TimeoutSetKilled
  BY <1>15 DEF TimeoutSetKilled, SetKilled
<1>16. CASE TimeoutProbe
  BY <1>16 DEF TimeoutProbe
<1>17. CASE TimeoutRaise
  BY <1>17 DEF TimeoutRaise, AsyncRaise
<1>18. CASE ClearCurrentThread
  BY <1>18 DEF ClearCurrentThread
<1>19. CASE RecordPhase
  <2>1. slot \in Slots
    BY <1>19 DEF RecordPhase
  <2>2. PICK f \in Finalized(outcome) :
          /\ outcome' = f.result
          /\ phases' = Append(phases, [slot |-> slot, attempt |-> attempt,
                                       outcome |-> f.outcome])
          /\ diagFailed' = (diagFailed \/ f.diag)
    BY <1>19 DEF RecordPhase
  <2>3. /\ f.result \in {outcome, "EXC", "STOP"}
        /\ f.outcome \in {"PASS", "FAIL", "SKIP", "ERROR"}
        /\ f.diag \in BOOLEAN
    BY <2>2 DEF Finalized
  <2>4. [slot |-> slot, attempt |-> attempt, outcome |-> f.outcome] \in PhaseRecords
    BY <2>1, <2>3 DEF PhaseRecords
  <2>5. phases' \in Seq(PhaseRecords)
    BY <2>2, <2>4
  <2>6. diagFailed' \in BOOLEAN
    BY <2>2, <2>3
  <2>7. TypeOK'
    BY <1>19, <2>2, <2>3, <2>5, <2>6 DEF RecordPhase
  <2>8. SlotOK' /\ TargetOK'
    BY <1>19, <2>1 DEF RecordPhase
  <2>9. QED
    BY <2>7, <2>8
<1>20. CASE ShouldRepeat
  <2>1. slot \in Slots
    BY <1>20 DEF ShouldRepeat
  <2>2. phases' \in Seq(PhaseRecords)
    <3>1. CASE phases' = phases
      BY <3>1
    <3>2. CASE phases' # phases
      <4>1. /\ phases # <<>>
            /\ phases' = [phases EXCEPT ![Len(phases)] = [@ EXCEPT !.outcome = "SKIP"]]
        BY <1>20, <3>2 DEF ShouldRepeat
      <4>2. Len(phases) \in 1..Len(phases)
        BY <4>1, EmptySeq
      <4>3. phases[Len(phases)] \in PhaseRecords
        BY <4>2, ElementOfSeq
      <4>4. [phases[Len(phases)] EXCEPT !.outcome = "SKIP"] \in PhaseRecords
        BY <4>3 DEF PhaseRecords
      <4>5. QED
        BY <4>1, <4>2, <4>4, ExceptSeq
    <3>3. QED
      BY <3>1, <3>2
  <2>3. /\ attempt' \in 1..RepeatLimit /\ teardownLock' \in {"none", "exec", "abort"}
        /\ pc' \in {"teardown", "repeat", "finish"}
    BY <1>20 DEF ShouldRepeat, Crash, IsLastRepeat
  <2>4. TypeOK'
    BY <1>20, <2>2, <2>3 DEF ShouldRepeat
  <2>5. SlotOK' /\ TargetOK'
    BY <1>20, <2>1, <2>3 DEF ShouldRepeat
  <2>6. QED
    BY <2>4, <2>5
<1>21. CASE FinishTestStart
  BY <1>21 DEF FinishTestStart
<1>22. CASE FinishPhase
  <2> DEFINE final == IF StopOnFirstFailure /\ LastFailed THEN "STOP" ELSE outcome
  <2>1. /\ outcome' \in Outcomes \cup {"NONE"} /\ lastOutcome' \in Outcomes \cup {"NONE"}
        /\ teardownLock' \in {"none", "exec", "abort"}
    BY <1>22 DEF FinishPhase, Crash, KeepOutcome
  <2>2. \/ pc' = "teardown" /\ UNCHANGED <<slot, entered>>
        \/ AfterSlot(IsTerminal(final))
    BY <1>22 DEF FinishPhase, Crash
  <2>3. /\ slot' \in 0..(Last + 1) /\ entered' \in BOOLEAN
        /\ pc' \in {"teardown", "diagnose", "acquire", "release", "next"} /\ SlotOK'
    <3>1. CASE pc' = "teardown" /\ UNCHANGED <<slot, entered>>
      BY <3>1
    <3>2. CASE AfterSlot(IsTerminal(final))
      BY <3>2, AfterSlotFacts
    <3>3. QED
      BY <2>2, <3>1, <3>2
  <2>4. TypeOK' /\ TargetOK'
    BY <1>22, <2>1, <2>3 DEF FinishPhase
  <2>5. QED
    BY <2>3, <2>4
<1>23. CASE ExecuteTestDiagnosers
  <2>1. lastOutcome' \in Outcomes \cup {"NONE"}
    BY <1>23 DEF ExecuteTestDiagnosers
  <2>2. diagFailed' \in BOOLEAN
    BY <1>23 DEF ExecuteTestDiagnosers
  <2>3. TypeOK'
    BY <1>23, <2>1, <2>2 DEF ExecuteTestDiagnosers
  <2>4. SlotOK' /\ TargetOK'
    BY <1>23 DEF ExecuteTestDiagnosers
  <2>5. QED
    BY <2>3, <2>4
<1>24. CASE TearDownPlugs
  BY <1>24 DEF TearDownPlugs
<1>25. CASE FinalizeTest
  <2>1. pc' \in {"done", "hung"}
    BY <1>25 DEF FinalizeTest
  <2>2. testOutcome' \in {"NONE", "PASS", "FAIL", "ERROR", "TIMEOUT", "ABORTED"}
    BY <1>25 DEF FinalizeTest, TerminalOutcomes, NormalOutcome
  <2>3. TypeOK'
    BY <1>25, <2>1, <2>2 DEF FinalizeTest
  <2>4. SlotOK' /\ TargetOK'
    BY <1>25, <2>1 DEF FinalizeTest
  <2>5. QED
    BY <2>3, <2>4
<1>26. CASE Abort
  BY <1>26 DEF Abort
<1>27. CASE ReadPhaseExec
  BY <1>27 DEF ReadPhaseExec
<1>28. CASE TryTeardownLock
  BY <1>28 DEF TryTeardownLock
<1>29. CASE StopSetStopping
  BY <1>29 DEF StopSetStopping
<1>30. CASE StopReadThread
  BY <1>30 DEF StopReadThread
<1>31. CASE StopCheckAlive
  BY <1>31 DEF StopCheckAlive
<1>32. CASE StopSetKilled
  BY <1>32 DEF StopSetKilled, SetKilled
<1>33. CASE StopProbe
  BY <1>33 DEF StopProbe
<1>34. CASE StopRaise
  BY <1>34 DEF StopRaise, AsyncRaise
<1>35. CASE StopRunningPhase
  BY <1>35 DEF StopRunningPhase
<1>36. CASE ResetStop
  <2>1. stopping' \in BOOLEAN /\ apc' \in {"idle", "release"}
    BY <1>36 DEF ResetStop
  <2>2. TypeOK'
    BY <1>36, <2>1 DEF ResetStop
  <2>3. SlotOK' /\ TargetOK'
    BY <1>36, <2>1 DEF ResetStop
  <2>4. QED
    BY <2>2, <2>3
<1>37. CASE AbortReleaseLock
  BY <1>37 DEF AbortReleaseLock
<1>38. CASE \E t \in Threads : Begin(t)
  BY <1>38 DEF Begin, ThreadStates
<1>39. CASE \E t \in Threads : Call(t)
  BY <1>39 DEF Call, ThreadStates
<1>40. CASE \E t \in Threads : ThreadException(t)
  BY <1>40 DEF ThreadException, ThreadStates
<1>41. CASE \E t \in Threads : End(t)
  BY <1>41 DEF End, ThreadStates
<1>42. CASE \E t \in Threads : Return(t)
  BY <1>42 DEF Return, ThreadStates
<1>43. CASE \E t \in Threads : Raise(t)
  BY <1>43 DEF Raise, ThreadStates
<1>44. CASE \E t \in Threads : SysExit(t)
  BY <1>44 DEF SysExit, ThreadStates
<1>45. CASE \E t \in Threads : Terminate(t)
  BY <1>45 DEF Terminate, ThreadStates
<1>46. CASE UNCHANGED vars
  BY <1>46 DEF vars
<1>47. QED
  BY <1>1, <1>2, <1>3, <1>4, <1>5, <1>6, <1>7, <1>8, <1>9, <1>10, <1>11, <1>12, <1>13,
     <1>14, <1>15, <1>16, <1>17, <1>18, <1>19, <1>20, <1>21, <1>22, <1>23, <1>24, <1>25,
     <1>26, <1>27, <1>28, <1>29, <1>30, <1>31, <1>32, <1>33, <1>34, <1>35, <1>36, <1>37,
     <1>38, <1>39, <1>40, <1>41, <1>42, <1>43, <1>44, <1>45, <1>46
     DEF Next, ExecutorStep, AbortStep, ThreadStep, ThreadFramework, Finished

(* Every variable keeps its type, whatever the phases and the aborts do. *)
THEOREM TypeCorrect == Spec => []TypeOK
<1>1. TypeInv => TypeOK
  BY DEF TypeInv
<1>2. QED
  BY TypeInvInit, TypeInvStep, <1>1, PTL DEF Spec


-----------------------------------------------------------------------------
(* Who holds which lock, and what that says about the other thread. *)

(* _execute_teardown_sequence is inside its with-statement. *)
InTeardown ==
    pc = "release" \/ (pc \in InPhase \cup {"next"} /\ slot \in TeardownSlots)

(* A thread is published in _current_phase_thread. *)
Joining == {"join", "outcome", "alive", "kset", "kprobe", "kraise", "clear"}

(* The teardown lock and the stop flag follow the two control points; an abort
   that does not force can only have captured a thread of an abortable phase,
   because the executor cannot hold the lock at that time. *)
LockInv ==
    /\ teardownLock = "exec" <=> InTeardown
    /\ teardownLock = "abort" <=>
          apc \in HasTarget \cup {"stop", "target", "reset", "release"} /\ ~force
    /\ stopping <=> apc \in HasTarget \cup {"target", "reset"}
    /\ force => fullAbort
    /\ apc \in {"try", "release"} => ~force

CurrentInv == curThread = IF pc \in Joining THEN This ELSE NoThread

KillInv ==
    /\ apc \in HasTarget /\ target[1] \in TeardownSlots => force
    /\ TeardownProtected

LEMMA LockInvInit == Init => LockInv /\ CurrentInv /\ KillInv
BY ConstantsAssumption DEF Init, LockInv, CurrentInv, KillInv, TeardownProtected, HasTarget,
   InTeardown, InPhase, Joining

LEMMA LockInvStep == TypeInv /\ LockInv /\ [Next]_vars => LockInv'
<1> SUFFICES ASSUME TypeInv, LockInv, [Next]_vars PROVE LockInv'
  OBVIOUS
<1> USE ConstantsAssumption
    DEF LockInv, TypeInv, TypeOK, SlotOK, HasTarget, InTeardown, InPhase, Goto
<1>1. CASE PublishPhaseExec
  BY <1>1 DEF PublishPhaseExec
<1>2. CASE InitializePlugs
  BY <1>2 DEF InitializePlugs, Slots, Last, SetupSlots, MainSlots, TeardownSlots,
    AbortableSlots
<1>3. CASE EnterGroup
  BY <1>3 DEF EnterGroup, Slots, Last, SetupSlots, MainSlots, TeardownSlots,
    AbortableSlots
<1>4. CASE AbortableNode
  BY <1>4 DEF AbortableNode, AfterSlot, Slots, Last, SetupSlots, MainSlots,
    TeardownSlots, AbortableSlots
<1>5. CASE AcquireTeardownLock
  BY <1>5 DEF AcquireTeardownLock, Slots, Last, SetupSlots, MainSlots, TeardownSlots,
    AbortableSlots
<1>6. CASE TeardownNode
  BY <1>6 DEF TeardownNode, Slots, Last, SetupSlots, MainSlots, TeardownSlots,
    AbortableSlots
<1>7. CASE ReleaseTeardownLock
  <2>1. pc = "release" /\ teardownLock' = "none" /\ pc' = "diagnose"
    BY <1>7 DEF ReleaseTeardownLock
  <2>2. UNCHANGED <<slot, stopping, force, fullAbort, apc>>
    BY <1>7 DEF ReleaseTeardownLock
  <2>3. InTeardown
    BY <2>1 DEF InTeardown
  <2>4. teardownLock = "exec"
    BY <2>3 DEF LockInv
  <2>5. QED
    BY <2>1, <2>2, <2>4
<1>8. CASE RepeatLoop
  BY <1>8 DEF RepeatLoop
<1>9. CASE RunIfDeclines
  BY <1>9 DEF RunIfDeclines
<1>10. CASE EnterPhaseContext
  BY <1>10 DEF EnterPhaseContext
<1>11. CASE SpawnPhaseThread
  BY <1>11 DEF SpawnPhaseThread
<1>12. CASE JoinEnds
  BY <1>12 DEF JoinEnds
<1>13. CASE ReadOutcome
  BY <1>13 DEF ReadOutcome
<1>14. CASE CheckAlive
  BY <1>14 DEF CheckAlive
<1>15. CASE TimeoutSetKilled
  BY <1>15 DEF TimeoutSetKilled, SetKilled
<1>16. CASE TimeoutProbe
  BY <1>16 DEF TimeoutProbe
<1>17. CASE TimeoutRaise
  BY <1>17 DEF TimeoutRaise, AsyncRaise
<1>18. CASE ClearCurrentThread
  BY <1>18 DEF ClearCurrentThread
<1>19. CASE RecordPhase
  BY <1>19 DEF RecordPhase
<1>20. CASE ShouldRepeat
  BY <1>20 DEF ShouldRepeat, Crash
<1>21. CASE FinishTestStart
  BY <1>21 DEF FinishTestStart, Slots, Last, SetupSlots, MainSlots, TeardownSlots,
    AbortableSlots
<1>22. CASE FinishPhase
  <2> DEFINE final == IF StopOnFirstFailure /\ LastFailed THEN "STOP" ELSE outcome
  <2>1. UNCHANGED <<stopping, force, fullAbort, apc>> /\ pc = "finish" /\ slot \in Slots
    BY <1>22 DEF FinishPhase
  <2>2. CASE Crash /\ UNCHANGED slot
    BY <2>1, <2>2 DEF Crash
  <2>3. CASE UNCHANGED teardownLock /\ AfterSlot(IsTerminal(final))
    <3>1. teardownLock = "exec" <=> slot \in TeardownSlots
      BY <2>1
    <3>2. ASSUME NEW b, AfterSlot(b) PROVE slot \in TeardownSlots <=> InTeardown'
      <4>1. CASE slot \in TeardownSlots
        BY <2>1, <3>2, <4>1 DEF AfterSlot, Slots, Last, SetupSlots, MainSlots, TeardownSlots
      <4>2. CASE slot \notin TeardownSlots
        BY <2>1, <3>2, <4>2 DEF AfterSlot, Slots, Last, SetupSlots, MainSlots, TeardownSlots
      <4>3. QED
        BY <4>1, <4>2
    <3>3. QED
      BY <2>1, <2>3, <3>1, <3>2
  <2>4. QED
    BY <1>22, <2>2, <2>3 DEF FinishPhase
<1>23. CASE ExecuteTestDiagnosers
  BY <1>23 DEF ExecuteTestDiagnosers
<1>24. CASE TearDownPlugs
  BY <1>24 DEF TearDownPlugs
<1>25. CASE FinalizeTest
  BY <1>25 DEF FinalizeTest
<1>26. CASE Abort
  BY <1>26 DEF Abort
<1>27. CASE ReadPhaseExec
  BY <1>27 DEF ReadPhaseExec
<1>28. CASE TryTeardownLock
  BY <1>28 DEF TryTeardownLock
<1>29. CASE StopSetStopping
  BY <1>29 DEF StopSetStopping
<1>30. CASE StopReadThread
  BY <1>30 DEF StopReadThread
<1>31. CASE StopCheckAlive
  BY <1>31 DEF StopCheckAlive
<1>32. CASE StopSetKilled
  BY <1>32 DEF StopSetKilled, SetKilled
<1>33. CASE StopProbe
  BY <1>33 DEF StopProbe
<1>34. CASE StopRaise
  BY <1>34 DEF StopRaise, AsyncRaise
<1>35. CASE StopRunningPhase
  BY <1>35 DEF StopRunningPhase
<1>36. CASE ResetStop
  BY <1>36 DEF ResetStop
<1>37. CASE AbortReleaseLock
  BY <1>37 DEF AbortReleaseLock
<1>38. CASE \E t \in Threads : Begin(t)
  BY <1>38 DEF Begin
<1>39. CASE \E t \in Threads : Call(t)
  BY <1>39 DEF Call
<1>40. CASE \E t \in Threads : ThreadException(t)
  BY <1>40 DEF ThreadException
<1>41. CASE \E t \in Threads : End(t)
  BY <1>41 DEF End
<1>42. CASE \E t \in Threads : Return(t)
  BY <1>42 DEF Return
<1>43. CASE \E t \in Threads : Raise(t)
  BY <1>43 DEF Raise
<1>44. CASE \E t \in Threads : SysExit(t)
  BY <1>44 DEF SysExit
<1>45. CASE \E t \in Threads : Terminate(t)
  BY <1>45 DEF Terminate
<1>46. CASE UNCHANGED vars
  BY <1>46 DEF vars
<1>47. QED
  BY <1>1, <1>2, <1>3, <1>4, <1>5, <1>6, <1>7, <1>8, <1>9, <1>10, <1>11, <1>12, <1>13,
     <1>14, <1>15, <1>16, <1>17, <1>18, <1>19, <1>20, <1>21, <1>22, <1>23, <1>24, <1>25,
     <1>26, <1>27, <1>28, <1>29, <1>30, <1>31, <1>32, <1>33, <1>34, <1>35, <1>36, <1>37,
     <1>38, <1>39, <1>40, <1>41, <1>42, <1>43, <1>44, <1>45, <1>46
     DEF Next, ExecutorStep, AbortStep, ThreadStep, ThreadFramework, Finished

LEMMA CurrentInvStep == TypeInv /\ CurrentInv /\ [Next]_vars => CurrentInv'
<1> SUFFICES ASSUME TypeInv, CurrentInv, [Next]_vars PROVE CurrentInv'
  OBVIOUS
<1> USE DEF CurrentInv, Joining, This, Goto
<1>1. CASE PublishPhaseExec
  BY <1>1 DEF PublishPhaseExec
<1>2. CASE InitializePlugs
  BY <1>2 DEF InitializePlugs, Slots, Last, SetupSlots, MainSlots, TeardownSlots,
    AbortableSlots
<1>3. CASE EnterGroup
  BY <1>3 DEF EnterGroup, Slots, Last, SetupSlots, MainSlots, TeardownSlots,
    AbortableSlots
<1>4. CASE AbortableNode
  BY <1>4 DEF AbortableNode, AfterSlot, Slots, Last, SetupSlots, MainSlots,
    TeardownSlots, AbortableSlots
<1>5. CASE AcquireTeardownLock
  BY <1>5 DEF AcquireTeardownLock, Slots, Last, SetupSlots, MainSlots, TeardownSlots,
    AbortableSlots
<1>6. CASE TeardownNode
  BY <1>6 DEF TeardownNode, Slots, Last, SetupSlots, MainSlots, TeardownSlots,
    AbortableSlots
<1>7. CASE ReleaseTeardownLock
  BY <1>7 DEF ReleaseTeardownLock
<1>8. CASE RepeatLoop
  BY <1>8 DEF RepeatLoop
<1>9. CASE RunIfDeclines
  BY <1>9 DEF RunIfDeclines
<1>10. CASE EnterPhaseContext
  BY <1>10 DEF EnterPhaseContext
<1>11. CASE SpawnPhaseThread
  BY <1>11 DEF SpawnPhaseThread
<1>12. CASE JoinEnds
  BY <1>12 DEF JoinEnds
<1>13. CASE ReadOutcome
  BY <1>13 DEF ReadOutcome
<1>14. CASE CheckAlive
  BY <1>14 DEF CheckAlive
<1>15. CASE TimeoutSetKilled
  BY <1>15 DEF TimeoutSetKilled, SetKilled
<1>16. CASE TimeoutProbe
  BY <1>16 DEF TimeoutProbe
<1>17. CASE TimeoutRaise
  BY <1>17 DEF TimeoutRaise, AsyncRaise
<1>18. CASE ClearCurrentThread
  BY <1>18 DEF ClearCurrentThread
<1>19. CASE RecordPhase
  BY <1>19 DEF RecordPhase
<1>20. CASE ShouldRepeat
  BY <1>20 DEF ShouldRepeat, Crash
<1>21. CASE FinishTestStart
  BY <1>21 DEF FinishTestStart, Slots, Last, SetupSlots, MainSlots, TeardownSlots,
    AbortableSlots
<1>22. CASE FinishPhase
  BY <1>22 DEF FinishPhase, AfterSlot, Crash, Slots, Last, SetupSlots, MainSlots,
    TeardownSlots, AbortableSlots
<1>23. CASE ExecuteTestDiagnosers
  BY <1>23 DEF ExecuteTestDiagnosers
<1>24. CASE TearDownPlugs
  BY <1>24 DEF TearDownPlugs
<1>25. CASE FinalizeTest
  BY <1>25 DEF FinalizeTest
<1>26. CASE Abort
  BY <1>26 DEF Abort
<1>27. CASE ReadPhaseExec
  BY <1>27 DEF ReadPhaseExec
<1>28. CASE TryTeardownLock
  BY <1>28 DEF TryTeardownLock
<1>29. CASE StopSetStopping
  BY <1>29 DEF StopSetStopping
<1>30. CASE StopReadThread
  BY <1>30 DEF StopReadThread
<1>31. CASE StopCheckAlive
  BY <1>31 DEF StopCheckAlive
<1>32. CASE StopSetKilled
  BY <1>32 DEF StopSetKilled, SetKilled
<1>33. CASE StopProbe
  BY <1>33 DEF StopProbe
<1>34. CASE StopRaise
  BY <1>34 DEF StopRaise, AsyncRaise
<1>35. CASE StopRunningPhase
  BY <1>35 DEF StopRunningPhase
<1>36. CASE ResetStop
  BY <1>36 DEF ResetStop
<1>37. CASE AbortReleaseLock
  BY <1>37 DEF AbortReleaseLock
<1>38. CASE \E t \in Threads : Begin(t)
  BY <1>38 DEF Begin
<1>39. CASE \E t \in Threads : Call(t)
  BY <1>39 DEF Call
<1>40. CASE \E t \in Threads : ThreadException(t)
  BY <1>40 DEF ThreadException
<1>41. CASE \E t \in Threads : End(t)
  BY <1>41 DEF End
<1>42. CASE \E t \in Threads : Return(t)
  BY <1>42 DEF Return
<1>43. CASE \E t \in Threads : Raise(t)
  BY <1>43 DEF Raise
<1>44. CASE \E t \in Threads : SysExit(t)
  BY <1>44 DEF SysExit
<1>45. CASE \E t \in Threads : Terminate(t)
  BY <1>45 DEF Terminate
<1>46. CASE UNCHANGED vars
  BY <1>46 DEF vars
<1>47. QED
  BY <1>1, <1>2, <1>3, <1>4, <1>5, <1>6, <1>7, <1>8, <1>9, <1>10, <1>11, <1>12, <1>13,
     <1>14, <1>15, <1>16, <1>17, <1>18, <1>19, <1>20, <1>21, <1>22, <1>23, <1>24, <1>25,
     <1>26, <1>27, <1>28, <1>29, <1>30, <1>31, <1>32, <1>33, <1>34, <1>35, <1>36, <1>37,
     <1>38, <1>39, <1>40, <1>41, <1>42, <1>43, <1>44, <1>45, <1>46
     DEF Next, ExecutorStep, AbortStep, ThreadStep, ThreadFramework, Finished

LEMMA KillInvStep ==
    TypeInv /\ LockInv /\ CurrentInv /\ KillInv /\ [Next]_vars => KillInv'
<1> SUFFICES ASSUME TypeInv, LockInv, CurrentInv, KillInv, [Next]_vars PROVE KillInv'
  OBVIOUS
<1> USE DEF KillInv, TeardownProtected, HasTarget
<1>1. CASE PublishPhaseExec
  BY <1>1 DEF PublishPhaseExec
<1>2. CASE InitializePlugs
  BY <1>2 DEF InitializePlugs, Slots, Last, SetupSlots, MainSlots, TeardownSlots,
    AbortableSlots
<1>3. CASE EnterGroup
  BY <1>3 DEF EnterGroup, Slots, Last, SetupSlots, MainSlots, TeardownSlots,
    AbortableSlots
<1>4. CASE AbortableNode
  BY <1>4 DEF AbortableNode, AfterSlot, Slots, Last, SetupSlots, MainSlots,
    TeardownSlots, AbortableSlots
<1>5. CASE AcquireTeardownLock
  BY <1>5 DEF AcquireTeardownLock, Slots, Last, SetupSlots, MainSlots, TeardownSlots,
    AbortableSlots
<1>6. CASE TeardownNode
  BY <1>6 DEF TeardownNode, Slots, Last, SetupSlots, MainSlots, TeardownSlots,
    AbortableSlots
<1>7. CASE ReleaseTeardownLock
  BY <1>7 DEF ReleaseTeardownLock
<1>8. CASE RepeatLoop
  BY <1>8 DEF RepeatLoop
<1>9. CASE RunIfDeclines
  BY <1>9 DEF RunIfDeclines
<1>10. CASE EnterPhaseContext
  BY <1>10 DEF EnterPhaseContext
<1>11. CASE SpawnPhaseThread
  BY <1>11 DEF SpawnPhaseThread
<1>12. CASE JoinEnds
  BY <1>12 DEF JoinEnds
<1>13. CASE ReadOutcome
  BY <1>13 DEF ReadOutcome
<1>14. CASE CheckAlive
  BY <1>14 DEF CheckAlive
<1>15. CASE TimeoutSetKilled
  BY <1>15 DEF TimeoutSetKilled, SetKilled
<1>16. CASE TimeoutProbe
  BY <1>16 DEF TimeoutProbe
<1>17. CASE TimeoutRaise
  BY <1>17 DEF TimeoutRaise, AsyncRaise
<1>18. CASE ClearCurrentThread
  BY <1>18 DEF ClearCurrentThread
<1>19. CASE RecordPhase
  BY <1>19 DEF RecordPhase
<1>20. CASE ShouldRepeat
  BY <1>20 DEF ShouldRepeat, Crash
<1>21. CASE FinishTestStart
  BY <1>21 DEF FinishTestStart, Slots, Last, SetupSlots, MainSlots, TeardownSlots,
    AbortableSlots
<1>22. CASE FinishPhase
  BY <1>22 DEF FinishPhase, AfterSlot, Crash, Slots, Last, SetupSlots, MainSlots,
    TeardownSlots, AbortableSlots
<1>23. CASE ExecuteTestDiagnosers
  BY <1>23 DEF ExecuteTestDiagnosers
<1>24. CASE TearDownPlugs
  BY <1>24 DEF TearDownPlugs
<1>25. CASE FinalizeTest
  BY <1>25 DEF FinalizeTest
<1>26. CASE Abort
  BY <1>26 DEF Abort
<1>27. CASE ReadPhaseExec
  BY <1>27 DEF ReadPhaseExec
<1>28. CASE TryTeardownLock
  BY <1>28 DEF TryTeardownLock
<1>29. CASE StopSetStopping
  BY <1>29 DEF StopSetStopping
<1>30. CASE StopReadThread
  <2>1. target' = curThread /\ apc = "target" /\ UNCHANGED <<force, fullAbort, killers>>
    BY <1>30 DEF StopReadThread
  <2>2. ASSUME apc' \in HasTarget, target'[1] \in TeardownSlots PROVE force
    <3>1. curThread # NoThread
      BY <1>30, <2>2 DEF StopReadThread
    <3>2. pc \in Joining /\ slot \in TeardownSlots
      BY <2>1, <2>2, <3>1 DEF CurrentInv, This
    <3>3. teardownLock = "exec"
      BY <3>2 DEF LockInv, InTeardown, Joining, InPhase
    <3>4. QED
      BY <2>1, <3>3 DEF LockInv
  <2>3. QED
    BY <2>1, <2>2
<1>31. CASE StopCheckAlive
  BY <1>31 DEF StopCheckAlive
<1>32. CASE StopSetKilled
  <2>1. target \in Threads /\ killers \in [Threads -> SUBSET {"timeout", "abort"}]
    BY <1>32 DEF StopSetKilled, TypeInv, TypeOK, TargetOK
  <2>2. target[1] \in TeardownSlots => fullAbort
    BY <1>32 DEF StopSetKilled, LockInv
  <2>3. \A t \in Threads : t # target => killers'[t] = killers[t]
    BY <1>32, <2>1 DEF StopSetKilled, SetKilled
  <2>4. QED
    BY <1>32, <2>2, <2>3 DEF StopSetKilled
<1>33. CASE StopProbe
  BY <1>33 DEF StopProbe
<1>34. CASE StopRaise
  BY <1>34 DEF StopRaise, AsyncRaise
<1>35. CASE StopRunningPhase
  BY <1>35 DEF StopRunningPhase
<1>36. CASE ResetStop
  BY <1>36 DEF ResetStop
<1>37. CASE AbortReleaseLock
  BY <1>37 DEF AbortReleaseLock
<1>38. CASE \E t \in Threads : Begin(t)
  BY <1>38 DEF Begin
<1>39. CASE \E t \in Threads : Call(t)
  BY <1>39 DEF Call
<1>40. CASE \E t \in Threads : ThreadException(t)
  BY <1>40 DEF ThreadException
<1>41. CASE \E t \in Threads : End(t)
  BY <1>41 DEF End
<1>42. CASE \E t \in Threads : Return(t)
  BY <1>42 DEF Return
<1>43. CASE \E t \in Threads : Raise(t)
  BY <1>43 DEF Raise
<1>44. CASE \E t \in Threads : SysExit(t)
  BY <1>44 DEF SysExit
<1>45. CASE \E t \in Threads : Terminate(t)
  BY <1>45 DEF Terminate
<1>46. CASE UNCHANGED vars
  BY <1>46 DEF vars
<1>47. QED
  BY <1>1, <1>2, <1>3, <1>4, <1>5, <1>6, <1>7, <1>8, <1>9, <1>10, <1>11, <1>12, <1>13,
     <1>14, <1>15, <1>16, <1>17, <1>18, <1>19, <1>20, <1>21, <1>22, <1>23, <1>24, <1>25,
     <1>26, <1>27, <1>28, <1>29, <1>30, <1>31, <1>32, <1>33, <1>34, <1>35, <1>36, <1>37,
     <1>38, <1>39, <1>40, <1>41, <1>42, <1>43, <1>44, <1>45, <1>46
     DEF Next, ExecutorStep, AbortStep, ThreadStep, ThreadFramework, Finished


LockInvariant == TypeInv /\ LockInv /\ CurrentInv /\ KillInv

LEMMA LockInvariantHolds == Spec => []LockInvariant
<1>1. Init => LockInvariant
  BY TypeInvInit, LockInvInit DEF LockInvariant
<1>2. LockInvariant /\ [Next]_vars => LockInvariant'
  BY TypeInvStep, LockInvStep, CurrentInvStep, KillInvStep DEF LockInvariant
<1>3. QED
  BY <1>1, <1>2, PTL DEF Spec

(* A first Ctrl-C never kills a teardown phase, however it interleaves with the
   executor (_stop_phase_executor's acquire(False), test_executor.py:305-307). *)
THEOREM TeardownIsProtected == Spec => []TeardownProtected
<1>1. LockInvariant => TeardownProtected
  BY DEF LockInvariant, KillInv
<1>2. QED
  BY LockInvariantHolds, <1>1, PTL

(* While the executor holds the teardown lock, only a forced abort can have set
   _stopping: reset_stop has undone every other one before the lock was free. *)
THEOREM TeardownIsNotCancelled == Spec => []TeardownNotCancelled
<1>1. LockInvariant => TeardownNotCancelled
  BY DEF LockInvariant, LockInv, TeardownNotCancelled
<1>2. QED
  BY LockInvariantHolds, <1>1, PTL

-----------------------------------------------------------------------------
(* One phase thread at a time, and its TestApi is its own. *)

(* Thread names are fresh when they are started: the threads used so far come
   before the executor's place in the walk. *)
FreshInv ==
    /\ pc \in {"init", "startplugs"} => attempt = 1 /\ \A t \in Threads : tstate[t] = "new"
    /\ pc \in {"plugs", "group"} => \A t \in Threads : tstate[t] # "new" => t[1] = 0
    /\ pc \in {"next", "acquire"} => \A t \in Threads : tstate[t] # "new" => t[1] < slot
    /\ pc \in {"repeat", "once", "spawn"} =>
          \A t \in Threads : tstate[t] # "new" =>
              t[1] < slot \/ (t[1] = slot /\ t[2] < attempt)
    /\ pc \in InPhase \ {"repeat", "once", "spawn"} =>
          \A t \in Threads : tstate[t] # "new" =>
              t[1] < slot \/ (t[1] = slot /\ t[2] <= attempt)

(* The executor moves on to a later slot. *)
LEMMA AfterSlotForward ==
    ASSUME TypeInv, NEW b, AfterSlot(b)
    PROVE  /\ pc' \in {"diagnose", "acquire", "release", "next"}
           /\ pc' \in {"acquire", "next"} => slot' > slot
BY ConstantsAssumption
   DEF TypeInv, TypeOK, AfterSlot, Goto, Slots, Last, SetupSlots, MainSlots, TeardownSlots

(* stop() captures a thread only after _stopping is set, and from then on the
   executor does not get to the start of another phase; so the running phase is
   its own when it gets there. *)
RunningInv ==
    /\ apc \in HasTarget => pc \notin {"once", "spawn"}
    /\ pc = "spawn" => running = This

(* A stored outcome means that the phase function is over. *)
ResultInv == \A t \in Threads : result[t] # "NONE" => tstate[t] \in {"leaving", "dead"}

(* Executing and nobody has killed it. *)
Undisturbed(t) == Executing(t) /\ killers[t] = {}

(* Such a thread is the current one and the executor is waiting for it; while
   stop() holds a captured thread, it can only be that one. *)
ApiInv ==
    /\ \A t \in Threads : Undisturbed(t) =>
          curThread = t /\ running = t /\ pc \in {"join", "outcome", "alive", "kset"}
    /\ apc \in HasTarget =>
          \A t \in Threads : Undisturbed(t) => t = target /\ apc \in {"alive", "kset"}

LEMMA ApiInvInit == Init => FreshInv /\ RunningInv /\ ResultInv /\ ApiInv
BY DEF Init, FreshInv, RunningInv, ResultInv, ApiInv, Undisturbed, Executing, HasTarget, InPhase

LEMMA FreshInvStep == TypeInv /\ FreshInv /\ [Next]_vars => FreshInv'
<1> SUFFICES ASSUME TypeInv, FreshInv, [Next]_vars PROVE FreshInv'
  OBVIOUS
<1> USE ConstantsAssumption, ThreadFacts
    DEF TypeInv, TypeOK, SlotOK, FreshInv, InPhase, Goto
<1>1. CASE PublishPhaseExec
  BY <1>1 DEF PublishPhaseExec
<1>2. CASE InitializePlugs
  BY <1>2 DEF InitializePlugs, Slots, Last, SetupSlots, MainSlots, TeardownSlots,
    AbortableSlots
<1>3. CASE EnterGroup
  <2>1. UNCHANGED tstate /\ pc = "group" /\ pc' \in {"diagnose", "acquire", "next"}
    BY <1>3 DEF EnterGroup
  <2>2. pc' \in {"next", "acquire"} => slot' = 1
    BY <1>3 DEF EnterGroup
  <2>3. \A t \in Threads : tstate[t] # "new" => t[1] = 0
    BY <2>1
  <2>4. QED
    BY <2>1, <2>2, <2>3
<1>4. CASE AbortableNode
  <2>1. UNCHANGED tstate /\ pc = "next"
    BY <1>4 DEF AbortableNode
  <2>2. \A t \in Threads : tstate[t] # "new" => t[1] < slot /\ t[1] \in Int
    BY <2>1, ThreadFacts DEF Slots
  <2>3. CASE abort
    <3>1. AfterSlot(TRUE)
      BY <1>4, <2>3 DEF AbortableNode
    <3>2. /\ pc' \in {"diagnose", "acquire", "release", "next"}
          /\ pc' \in {"acquire", "next"} => slot' > slot
          /\ slot' \in 0..(Last + 1)
      BY <3>1, AfterSlotForward, AfterSlotFacts
    <3>3. slot \in Int /\ slot' \in Int
      BY <3>2 DEF Last
    <3>4. pc' \in {"acquire", "next"} => \A t \in Threads : tstate'[t] # "new" => t[1] < slot'
      BY <2>1, <2>2, <3>2, <3>3
    <3>5. QED
      BY <3>2, <3>4
  <2>4. CASE ~abort
    BY <1>4, <2>1, <2>2, <2>4 DEF AbortableNode
  <2>5. QED
    BY <2>3, <2>4
<1>5. CASE AcquireTeardownLock
  BY <1>5 DEF AcquireTeardownLock, Slots, Last, SetupSlots, MainSlots, TeardownSlots,
    AbortableSlots
<1>6. CASE TeardownNode
  BY <1>6 DEF TeardownNode, Slots, Last, SetupSlots, MainSlots, TeardownSlots,
    AbortableSlots
<1>7. CASE ReleaseTeardownLock
  BY <1>7 DEF ReleaseTeardownLock
<1>8. CASE RepeatLoop
  BY <1>8 DEF RepeatLoop
<1>9. CASE RunIfDeclines
  BY <1>9 DEF RunIfDeclines
<1>10. CASE EnterPhaseContext
  BY <1>10 DEF EnterPhaseContext
<1>11. CASE SpawnPhaseThread
  <2>1. slot \in Slots /\ This \in Threads /\ pc' \in {"record", "join"} /\ UNCHANGED <<slot, attempt>>
    BY <1>11 DEF SpawnPhaseThread, This
  <2>2. \A t \in Threads : t # This => tstate'[t] = tstate[t]
    BY <1>11, <2>1 DEF SpawnPhaseThread
  <2>3. ASSUME NEW t \in Threads, tstate'[t] # "new"
        PROVE  t[1] < slot \/ (t[1] = slot /\ t[2] <= attempt)
    <3>1. CASE t = This
      BY <3>1 DEF This
    <3>2. CASE t # This
      <4>1. t[1] < slot \/ (t[1] = slot /\ t[2] < attempt)
        BY <1>11, <2>2, <2>3, <3>2 DEF SpawnPhaseThread
      <4>2. QED
        BY <4>1
    <3>3. QED
      BY <3>1, <3>2
  <2>4. QED
    BY <2>1, <2>3
<1>12. CASE JoinEnds
  BY <1>12 DEF JoinEnds
<1>13. CASE ReadOutcome
  BY <1>13 DEF ReadOutcome
<1>14. CASE CheckAlive
  BY <1>14 DEF CheckAlive
<1>15. CASE TimeoutSetKilled
  BY <1>15 DEF TimeoutSetKilled, SetKilled
<1>16. CASE TimeoutProbe
  BY <1>16 DEF TimeoutProbe
<1>17. CASE TimeoutRaise
  BY <1>17 DEF TimeoutRaise, AsyncRaise
<1>18. CASE ClearCurrentThread
  BY <1>18 DEF ClearCurrentThread
<1>19. CASE RecordPhase
  BY <1>19 DEF RecordPhase
<1>20. CASE ShouldRepeat
  BY <1>20 DEF ShouldRepeat, Crash
<1>21. CASE FinishTestStart
  <2>1. UNCHANGED tstate /\ pc = "finish" /\ slot = 0 /\ pc' \in {"teardown", "plugs"}
    BY <1>21 DEF FinishTestStart
  <2>2. ASSUME NEW t \in Threads, tstate[t] # "new" PROVE t[1] = 0
    BY <2>1, <2>2 DEF Slots, Last
  <2>3. QED
    BY <2>1, <2>2
<1>22. CASE FinishPhase
  <2> DEFINE final == IF StopOnFirstFailure /\ LastFailed THEN "STOP" ELSE outcome
  <2>1. UNCHANGED tstate /\ pc = "finish"
    BY <1>22 DEF FinishPhase
  <2>2. \A t \in Threads : tstate[t] # "new" => t[1] <= slot /\ t[1] \in Int
    BY <2>1, ThreadFacts DEF Slots
  <2>3. CASE pc' = "teardown"
    BY <2>3
  <2>4. CASE AfterSlot(IsTerminal(final))
    <3>1. /\ pc' \in {"diagnose", "acquire", "release", "next"}
          /\ pc' \in {"acquire", "next"} => slot' > slot
          /\ slot' \in 0..(Last + 1)
      BY <2>4, AfterSlotForward, AfterSlotFacts
    <3>2. slot \in Int /\ slot' \in Int
      BY <3>1 DEF Last
    <3>3. pc' \in {"acquire", "next"} => \A t \in Threads : tstate'[t] # "new" => t[1] < slot'
      BY <2>1, <2>2, <3>1, <3>2
    <3>4. QED
      BY <3>1, <3>3
  <2>5. QED
    BY <1>22, <2>3, <2>4 DEF FinishPhase, Crash
<1>23. CASE ExecuteTestDiagnosers
  BY <1>23 DEF ExecuteTestDiagnosers
<1>24. CASE TearDownPlugs
  BY <1>24 DEF TearDownPlugs
<1>25. CASE FinalizeTest
  BY <1>25 DEF FinalizeTest
<1>26. CASE Abort
  BY <1>26 DEF Abort
<1>27. CASE ReadPhaseExec
  BY <1>27 DEF ReadPhaseExec
<1>28. CASE TryTeardownLock
  BY <1>28 DEF TryTeardownLock
<1>29. CASE StopSetStopping
  BY <1>29 DEF StopSetStopping
<1>30. CASE StopReadThread
  BY <1>30 DEF StopReadThread
<1>31. CASE StopCheckAlive
  BY <1>31 DEF StopCheckAlive
<1>32. CASE StopSetKilled
  BY <1>32 DEF StopSetKilled, SetKilled
<1>33. CASE StopProbe
  BY <1>33 DEF StopProbe
<1>34. CASE StopRaise
  BY <1>34 DEF StopRaise, AsyncRaise
<1>35. CASE StopRunningPhase
  BY <1>35 DEF StopRunningPhase
<1>36. CASE ResetStop
  BY <1>36 DEF ResetStop
<1>37. CASE AbortReleaseLock
  BY <1>37 DEF AbortReleaseLock
<1>38. CASE \E t \in Threads : Begin(t)
  BY <1>38 DEF Begin
<1>39. CASE \E t \in Threads : Call(t)
  BY <1>39 DEF Call
<1>40. CASE \E t \in Threads : ThreadException(t)
  BY <1>40 DEF ThreadException
<1>41. CASE \E t \in Threads : End(t)
  BY <1>41 DEF End
<1>42. CASE \E t \in Threads : Return(t)
  BY <1>42 DEF Return
<1>43. CASE \E t \in Threads : Raise(t)
  BY <1>43 DEF Raise
<1>44. CASE \E t \in Threads : SysExit(t)
  BY <1>44 DEF SysExit
<1>45. CASE \E t \in Threads : Terminate(t)
  BY <1>45 DEF Terminate
<1>46. CASE UNCHANGED vars
  BY <1>46 DEF vars
<1>47. QED
  BY <1>1, <1>2, <1>3, <1>4, <1>5, <1>6, <1>7, <1>8, <1>9, <1>10, <1>11, <1>12, <1>13,
     <1>14, <1>15, <1>16, <1>17, <1>18, <1>19, <1>20, <1>21, <1>22, <1>23, <1>24, <1>25,
     <1>26, <1>27, <1>28, <1>29, <1>30, <1>31, <1>32, <1>33, <1>34, <1>35, <1>36, <1>37,
     <1>38, <1>39, <1>40, <1>41, <1>42, <1>43, <1>44, <1>45, <1>46
     DEF Next, ExecutorStep, AbortStep, ThreadStep, ThreadFramework, Finished

LEMMA RunningInvStep == LockInvariant /\ RunningInv /\ [Next]_vars => RunningInv'
<1> SUFFICES ASSUME LockInvariant, RunningInv, [Next]_vars PROVE RunningInv'
  OBVIOUS
<1> USE DEF LockInvariant, LockInv, CurrentInv, Joining, RunningInv, HasTarget, This, Goto
<1>1. CASE PublishPhaseExec
  BY <1>1 DEF PublishPhaseExec
<1>2. CASE InitializePlugs
  BY <1>2 DEF InitializePlugs, Slots, Last, SetupSlots, MainSlots, TeardownSlots,
    AbortableSlots
<1>3. CASE EnterGroup
  BY <1>3 DEF EnterGroup, Slots, Last, SetupSlots, MainSlots, TeardownSlots,
    AbortableSlots
<1>4. CASE AbortableNode
  BY <1>4 DEF AbortableNode, AfterSlot, Slots, Last, SetupSlots, MainSlots,
    TeardownSlots, AbortableSlots
<1>5. CASE AcquireTeardownLock
  BY <1>5 DEF AcquireTeardownLock, Slots, Last, SetupSlots, MainSlots, TeardownSlots,
    AbortableSlots
<1>6. CASE TeardownNode
  BY <1>6 DEF TeardownNode, Slots, Last, SetupSlots, MainSlots, TeardownSlots,
    AbortableSlots
<1>7. CASE ReleaseTeardownLock
  BY <1>7 DEF ReleaseTeardownLock
<1>8. CASE RepeatLoop
  BY <1>8 DEF RepeatLoop
<1>9. CASE RunIfDeclines
  BY <1>9 DEF RunIfDeclines
<1>10. CASE EnterPhaseContext
  BY <1>10 DEF EnterPhaseContext
<1>11. CASE SpawnPhaseThread
  BY <1>11 DEF SpawnPhaseThread
<1>12. CASE JoinEnds
  BY <1>12 DEF JoinEnds
<1>13. CASE ReadOutcome
  BY <1>13 DEF ReadOutcome
<1>14. CASE CheckAlive
  BY <1>14 DEF CheckAlive
<1>15. CASE TimeoutSetKilled
  BY <1>15 DEF TimeoutSetKilled, SetKilled
<1>16. CASE TimeoutProbe
  BY <1>16 DEF TimeoutProbe
<1>17. CASE TimeoutRaise
  BY <1>17 DEF TimeoutRaise, AsyncRaise
<1>18. CASE ClearCurrentThread
  BY <1>18 DEF ClearCurrentThread
<1>19. CASE RecordPhase
  BY <1>19 DEF RecordPhase
<1>20. CASE ShouldRepeat
  BY <1>20 DEF ShouldRepeat, Crash
<1>21. CASE FinishTestStart
  BY <1>21 DEF FinishTestStart, Slots, Last, SetupSlots, MainSlots, TeardownSlots,
    AbortableSlots
<1>22. CASE FinishPhase
  BY <1>22 DEF FinishPhase, AfterSlot, Crash, Slots, Last, SetupSlots, MainSlots,
    TeardownSlots, AbortableSlots
<1>23. CASE ExecuteTestDiagnosers
  BY <1>23 DEF ExecuteTestDiagnosers
<1>24. CASE TearDownPlugs
  BY <1>24 DEF TearDownPlugs
<1>25. CASE FinalizeTest
  BY <1>25 DEF FinalizeTest
<1>26. CASE Abort
  BY <1>26 DEF Abort
<1>27. CASE ReadPhaseExec
  BY <1>27 DEF ReadPhaseExec
<1>28. CASE TryTeardownLock
  BY <1>28 DEF TryTeardownLock
<1>29. CASE StopSetStopping
  BY <1>29 DEF StopSetStopping
<1>30. CASE StopReadThread
  BY <1>30 DEF StopReadThread
<1>31. CASE StopCheckAlive
  BY <1>31 DEF StopCheckAlive
<1>32. CASE StopSetKilled
  BY <1>32 DEF StopSetKilled, SetKilled
<1>33. CASE StopProbe
  BY <1>33 DEF StopProbe
<1>34. CASE StopRaise
  BY <1>34 DEF StopRaise, AsyncRaise
<1>35. CASE StopRunningPhase
  BY <1>35 DEF StopRunningPhase
<1>36. CASE ResetStop
  BY <1>36 DEF ResetStop
<1>37. CASE AbortReleaseLock
  BY <1>37 DEF AbortReleaseLock
<1>38. CASE \E t \in Threads : Begin(t)
  BY <1>38 DEF Begin
<1>39. CASE \E t \in Threads : Call(t)
  BY <1>39 DEF Call
<1>40. CASE \E t \in Threads : ThreadException(t)
  BY <1>40 DEF ThreadException
<1>41. CASE \E t \in Threads : End(t)
  BY <1>41 DEF End
<1>42. CASE \E t \in Threads : Return(t)
  BY <1>42 DEF Return
<1>43. CASE \E t \in Threads : Raise(t)
  BY <1>43 DEF Raise
<1>44. CASE \E t \in Threads : SysExit(t)
  BY <1>44 DEF SysExit
<1>45. CASE \E t \in Threads : Terminate(t)
  BY <1>45 DEF Terminate
<1>46. CASE UNCHANGED vars
  BY <1>46 DEF vars
<1>47. QED
  BY <1>1, <1>2, <1>3, <1>4, <1>5, <1>6, <1>7, <1>8, <1>9, <1>10, <1>11, <1>12, <1>13,
     <1>14, <1>15, <1>16, <1>17, <1>18, <1>19, <1>20, <1>21, <1>22, <1>23, <1>24, <1>25,
     <1>26, <1>27, <1>28, <1>29, <1>30, <1>31, <1>32, <1>33, <1>34, <1>35, <1>36, <1>37,
     <1>38, <1>39, <1>40, <1>41, <1>42, <1>43, <1>44, <1>45, <1>46
     DEF Next, ExecutorStep, AbortStep, ThreadStep, ThreadFramework, Finished

LEMMA ResultInvStep ==
    TypeInv /\ FreshInv /\ ResultInv /\ [Next]_vars => ResultInv'
<1> SUFFICES ASSUME TypeInv, FreshInv, ResultInv, [Next]_vars PROVE ResultInv'
  OBVIOUS
<1> USE DEF TypeInv, TypeOK, ResultInv
<1>1. CASE PublishPhaseExec
  BY <1>1 DEF PublishPhaseExec
<1>2. CASE InitializePlugs
  BY <1>2 DEF InitializePlugs, Slots, Last, SetupSlots, MainSlots, TeardownSlots,
    AbortableSlots
<1>3. CASE EnterGroup
  BY <1>3 DEF EnterGroup, Slots, Last, SetupSlots, MainSlots, TeardownSlots,
    AbortableSlots
<1>4. CASE AbortableNode
  BY <1>4 DEF AbortableNode, AfterSlot, Slots, Last, SetupSlots, MainSlots,
    TeardownSlots, AbortableSlots
<1>5. CASE AcquireTeardownLock
  BY <1>5 DEF AcquireTeardownLock, Slots, Last, SetupSlots, MainSlots, TeardownSlots,
    AbortableSlots
<1>6. CASE TeardownNode
  BY <1>6 DEF TeardownNode, Slots, Last, SetupSlots, MainSlots, TeardownSlots,
    AbortableSlots
<1>7. CASE ReleaseTeardownLock
  BY <1>7 DEF ReleaseTeardownLock
<1>8. CASE RepeatLoop
  BY <1>8 DEF RepeatLoop
<1>9. CASE RunIfDeclines
  BY <1>9 DEF RunIfDeclines
<1>10. CASE EnterPhaseContext
  BY <1>10 DEF EnterPhaseContext
<1>11. CASE SpawnPhaseThread
  <2>1. This \in Threads /\ UNCHANGED result
    BY <1>11, ThreadFacts DEF SpawnPhaseThread, This, SlotOK, InPhase
  <2>2. tstate[This] = "new"
    BY <1>11, <2>1 DEF SpawnPhaseThread, FreshInv, This
  <2>3. result[This] = "NONE"
    BY <2>1, <2>2
  <2>4. \A t \in Threads : t # This => tstate'[t] = tstate[t]
    BY <1>11, <2>1 DEF SpawnPhaseThread
  <2>5. QED
    BY <2>1, <2>3, <2>4
<1>12. CASE JoinEnds
  BY <1>12 DEF JoinEnds
<1>13. CASE ReadOutcome
  BY <1>13 DEF ReadOutcome
<1>14. CASE CheckAlive
  BY <1>14 DEF CheckAlive
<1>15. CASE TimeoutSetKilled
  BY <1>15 DEF TimeoutSetKilled, SetKilled
<1>16. CASE TimeoutProbe
  BY <1>16 DEF TimeoutProbe
<1>17. CASE TimeoutRaise
  BY <1>17 DEF TimeoutRaise, AsyncRaise
<1>18. CASE ClearCurrentThread
  BY <1>18 DEF ClearCurrentThread
<1>19. CASE RecordPhase
  BY <1>19 DEF RecordPhase
<1>20. CASE ShouldRepeat
  BY <1>20 DEF ShouldRepeat, Crash
<1>21. CASE FinishTestStart
  BY <1>21 DEF FinishTestStart, Slots, Last, SetupSlots, MainSlots, TeardownSlots,
    AbortableSlots
<1>22. CASE FinishPhase
  BY <1>22 DEF FinishPhase, AfterSlot, Crash, Slots, Last, SetupSlots, MainSlots,
    TeardownSlots, AbortableSlots
<1>23. CASE ExecuteTestDiagnosers
  BY <1>23 DEF ExecuteTestDiagnosers
<1>24. CASE TearDownPlugs
  BY <1>24 DEF TearDownPlugs
<1>25. CASE FinalizeTest
  BY <1>25 DEF FinalizeTest
<1>26. CASE Abort
  BY <1>26 DEF Abort
<1>27. CASE ReadPhaseExec
  BY <1>27 DEF ReadPhaseExec
<1>28. CASE TryTeardownLock
  BY <1>28 DEF TryTeardownLock
<1>29. CASE StopSetStopping
  BY <1>29 DEF StopSetStopping
<1>30. CASE StopReadThread
  BY <1>30 DEF StopReadThread
<1>31. CASE StopCheckAlive
  BY <1>31 DEF StopCheckAlive
<1>32. CASE StopSetKilled
  BY <1>32 DEF StopSetKilled, SetKilled
<1>33. CASE StopProbe
  BY <1>33 DEF StopProbe
<1>34. CASE StopRaise
  BY <1>34 DEF StopRaise, AsyncRaise
<1>35. CASE StopRunningPhase
  BY <1>35 DEF StopRunningPhase
<1>36. CASE ResetStop
  BY <1>36 DEF ResetStop
<1>37. CASE AbortReleaseLock
  BY <1>37 DEF AbortReleaseLock
<1>38. CASE \E t \in Threads : Begin(t)
  BY <1>38 DEF Begin
<1>39. CASE \E t \in Threads : Call(t)
  BY <1>39 DEF Call
<1>40. CASE \E t \in Threads : ThreadException(t)
  BY <1>40 DEF ThreadException
<1>41. CASE \E t \in Threads : End(t)
  BY <1>41 DEF End
<1>42. CASE \E t \in Threads : Return(t)
  BY <1>42 DEF Return
<1>43. CASE \E t \in Threads : Raise(t)
  BY <1>43 DEF Raise
<1>44. CASE \E t \in Threads : SysExit(t)
  BY <1>44 DEF SysExit
<1>45. CASE \E t \in Threads : Terminate(t)
  BY <1>45 DEF Terminate
<1>46. CASE UNCHANGED vars
  BY <1>46 DEF vars
<1>47. QED
  BY <1>1, <1>2, <1>3, <1>4, <1>5, <1>6, <1>7, <1>8, <1>9, <1>10, <1>11, <1>12, <1>13,
     <1>14, <1>15, <1>16, <1>17, <1>18, <1>19, <1>20, <1>21, <1>22, <1>23, <1>24, <1>25,
     <1>26, <1>27, <1>28, <1>29, <1>30, <1>31, <1>32, <1>33, <1>34, <1>35, <1>36, <1>37,
     <1>38, <1>39, <1>40, <1>41, <1>42, <1>43, <1>44, <1>45, <1>46
     DEF Next, ExecutorStep, AbortStep, ThreadStep, ThreadFramework, Finished

LEMMA ApiInvStep ==
    LockInvariant /\ RunningInv /\ ResultInv /\ ApiInv /\ [Next]_vars => ApiInv'
<1> SUFFICES ASSUME LockInvariant, RunningInv, ResultInv, ApiInv, [Next]_vars PROVE ApiInv'
  OBVIOUS
<1> USE DEF LockInvariant, TypeInv, TypeOK, ApiInv, Undisturbed, Executing, HasTarget, Goto
<1>1. CASE PublishPhaseExec
  BY <1>1 DEF PublishPhaseExec
<1>2. CASE InitializePlugs
  BY <1>2 DEF InitializePlugs, Slots, Last, SetupSlots, MainSlots, TeardownSlots,
    AbortableSlots
<1>3. CASE EnterGroup
  BY <1>3 DEF EnterGroup, Slots, Last, SetupSlots, MainSlots, TeardownSlots,
    AbortableSlots
<1>4. CASE AbortableNode
  BY <1>4 DEF AbortableNode, AfterSlot, Slots, Last, SetupSlots, MainSlots,
    TeardownSlots, AbortableSlots
<1>5. CASE AcquireTeardownLock
  BY <1>5 DEF AcquireTeardownLock, Slots, Last, SetupSlots, MainSlots, TeardownSlots,
    AbortableSlots
<1>6. CASE TeardownNode
  BY <1>6 DEF TeardownNode, Slots, Last, SetupSlots, MainSlots, TeardownSlots,
    AbortableSlots
<1>7. CASE ReleaseTeardownLock
  BY <1>7 DEF ReleaseTeardownLock
<1>8. CASE RepeatLoop
  BY <1>8 DEF RepeatLoop
<1>9. CASE RunIfDeclines
  BY <1>9 DEF RunIfDeclines
<1>10. CASE EnterPhaseContext
  BY <1>10 DEF EnterPhaseContext
<1>11. CASE SpawnPhaseThread
  <2>1. CASE stopping
    BY <1>11, <2>1 DEF SpawnPhaseThread
  <2>2. CASE ~stopping
    <3>1. This \in Threads /\ running = This /\ pc' = "join" /\ curThread' = This
      BY <1>11, <2>2, ThreadFacts DEF SpawnPhaseThread, This, SlotOK, InPhase, RunningInv
    <3>2. \A t \in Threads : t # This => tstate'[t] = tstate[t]
      BY <1>11, <2>2, <3>1 DEF SpawnPhaseThread
    <3>3. \A t \in Threads : ~Undisturbed(t)
      BY <1>11 DEF SpawnPhaseThread
    <3>4. apc \notin {"alive", "kset", "kprobe", "kraise", "wait"}
      BY <2>2 DEF LockInv
    <3>5. UNCHANGED <<killers, running, apc, target>>
      BY <1>11 DEF SpawnPhaseThread
    <3>6. \A t \in Threads : Undisturbed(t)' => t = This
      BY <3>2, <3>3, <3>5
    <3>7. QED
      BY <3>1, <3>4, <3>5, <3>6
  <2>3. QED
    BY <2>1, <2>2
<1>12. CASE JoinEnds
  BY <1>12 DEF JoinEnds
<1>13. CASE ReadOutcome
  <2>1. UNCHANGED <<tstate, killers, curThread, running, apc, target>> /\ pc = "outcome"
    BY <1>13 DEF ReadOutcome
  <2>2. curThread = This
    BY <2>1 DEF CurrentInv, Joining
  <2>3. CASE result[This] # "NONE"
    <3>1. \A t \in Threads : ~Undisturbed(t)
      BY <2>1, <2>2, <2>3 DEF ResultInv
    <3>2. QED
      BY <2>1, <3>1
  <2>4. CASE result[This] = "NONE"
    BY <1>13, <2>1, <2>4 DEF ReadOutcome
  <2>5. QED
    BY <2>3, <2>4
<1>14. CASE CheckAlive
  <2>1. UNCHANGED <<tstate, killers, curThread, running, apc, target>> /\ pc = "alive"
    BY <1>14 DEF CheckAlive
  <2>2. curThread = This
    BY <2>1 DEF CurrentInv, Joining
  <2>3. CASE IsAlive(This)
    BY <1>14, <2>1, <2>3 DEF CheckAlive
  <2>4. CASE ~IsAlive(This)
    <3>1. \A t \in Threads : ~Undisturbed(t)
      BY <2>1, <2>2, <2>4 DEF IsAlive
    <3>2. QED
      BY <2>1, <3>1
  <2>5. QED
    BY <2>3, <2>4
<1>15. CASE TimeoutSetKilled
  <2>1. UNCHANGED <<tstate, curThread, running, apc, target>> /\ pc = "kset"
    BY <1>15 DEF TimeoutSetKilled
  <2>2. curThread = This
    BY <2>1 DEF CurrentInv, Joining
  <2>3. \A t \in Threads : killers'[t] # {} \/ (t # This /\ killers'[t] = killers[t])
    BY <1>15 DEF TimeoutSetKilled, SetKilled
  <2>4. \A t \in Threads : ~Undisturbed(t)'
    BY <2>1, <2>2, <2>3
  <2>5. QED
    BY <2>4
<1>16. CASE TimeoutProbe
  BY <1>16 DEF TimeoutProbe
<1>17. CASE TimeoutRaise
  BY <1>17 DEF TimeoutRaise, AsyncRaise
<1>18. CASE ClearCurrentThread
  BY <1>18 DEF ClearCurrentThread
<1>19. CASE RecordPhase
  BY <1>19 DEF RecordPhase
<1>20. CASE ShouldRepeat
  BY <1>20 DEF ShouldRepeat, Crash
<1>21. CASE FinishTestStart
  BY <1>21 DEF FinishTestStart, Slots, Last, SetupSlots, MainSlots, TeardownSlots,
    AbortableSlots
<1>22. CASE FinishPhase
  BY <1>22 DEF FinishPhase, AfterSlot, Crash, Slots, Last, SetupSlots, MainSlots,
    TeardownSlots, AbortableSlots
<1>23. CASE ExecuteTestDiagnosers
  BY <1>23 DEF ExecuteTestDiagnosers
<1>24. CASE TearDownPlugs
  BY <1>24 DEF TearDownPlugs
<1>25. CASE FinalizeTest
  BY <1>25 DEF FinalizeTest
<1>26. CASE Abort
  BY <1>26 DEF Abort
<1>27. CASE ReadPhaseExec
  BY <1>27 DEF ReadPhaseExec
<1>28. CASE TryTeardownLock
  BY <1>28 DEF TryTeardownLock
<1>29. CASE StopSetStopping
  BY <1>29 DEF StopSetStopping
<1>30. CASE StopReadThread
  BY <1>30 DEF StopReadThread
<1>31. CASE StopCheckAlive
  <2>1. /\ UNCHANGED <<tstate, killers, curThread, running, target, pc>>
        /\ apc = "alive" /\ apc' \in {"kset", "wait"}
    BY <1>31 DEF StopCheckAlive
  <2>2. apc' = "wait" => ~IsAlive(target)
    BY <1>31 DEF StopCheckAlive
  <2>3. \A t \in Threads : Undisturbed(t) => t = target /\ IsAlive(t)
    BY <2>1 DEF IsAlive
  <2>4. QED
    BY <2>1, <2>2, <2>3
<1>32. CASE StopSetKilled
  <2>1. UNCHANGED <<tstate, curThread, running, target, pc>> /\ apc = "kset" /\ target \in Threads
    BY <1>32 DEF StopSetKilled, TargetOK
  <2>2. \A t \in Threads : killers'[t] # {} \/ (t # target /\ killers'[t] = killers[t])
    BY <1>32 DEF StopSetKilled, SetKilled
  <2>3. \A t \in Threads : ~Undisturbed(t)'
    BY <2>1, <2>2
  <2>4. QED
    BY <2>3
<1>33. CASE StopProbe
  BY <1>33 DEF StopProbe
<1>34. CASE StopRaise
  BY <1>34 DEF StopRaise, AsyncRaise
<1>35. CASE StopRunningPhase
  BY <1>35 DEF StopRunningPhase
<1>36. CASE ResetStop
  BY <1>36 DEF ResetStop
<1>37. CASE AbortReleaseLock
  BY <1>37 DEF AbortReleaseLock
<1>38. CASE \E t \in Threads : Begin(t)
  BY <1>38 DEF Begin
<1>39. CASE \E t \in Threads : Call(t)
  BY <1>39 DEF Call
<1>40. CASE \E t \in Threads : ThreadException(t)
  BY <1>40 DEF ThreadException
<1>41. CASE \E t \in Threads : End(t)
  BY <1>41 DEF End
<1>42. CASE \E t \in Threads : Return(t)
  BY <1>42 DEF Return
<1>43. CASE \E t \in Threads : Raise(t)
  BY <1>43 DEF Raise
<1>44. CASE \E t \in Threads : SysExit(t)
  BY <1>44 DEF SysExit
<1>45. CASE \E t \in Threads : Terminate(t)
  BY <1>45 DEF Terminate
<1>46. CASE UNCHANGED vars
  BY <1>46 DEF vars
<1>47. QED
  BY <1>1, <1>2, <1>3, <1>4, <1>5, <1>6, <1>7, <1>8, <1>9, <1>10, <1>11, <1>12, <1>13,
     <1>14, <1>15, <1>16, <1>17, <1>18, <1>19, <1>20, <1>21, <1>22, <1>23, <1>24, <1>25,
     <1>26, <1>27, <1>28, <1>29, <1>30, <1>31, <1>32, <1>33, <1>34, <1>35, <1>36, <1>37,
     <1>38, <1>39, <1>40, <1>41, <1>42, <1>43, <1>44, <1>45, <1>46
     DEF Next, ExecutorStep, AbortStep, ThreadStep, ThreadFramework, Finished

ApiInvariant == LockInvariant /\ FreshInv /\ RunningInv /\ ResultInv /\ ApiInv

LEMMA ApiInvariantHolds == Spec => []ApiInvariant
<1>1. Init => ApiInvariant
  BY TypeInvInit, LockInvInit, ApiInvInit DEF ApiInvariant, LockInvariant
<1>2. ApiInvariant /\ [Next]_vars => ApiInvariant'
  BY TypeInvStep, LockInvStep, CurrentInvStep, KillInvStep, FreshInvStep, RunningInvStep,
     ResultInvStep, ApiInvStep DEF ApiInvariant, LockInvariant
<1>3. QED
  BY <1>1, <1>2, PTL DEF Spec

(* A phase thread that executes and was not killed is the running phase: the
   framework never takes test_state.test_api away from it. *)
THEOREM TestApiIsOwn == Spec => []OwnTestApi
<1>1. ApiInvariant => OwnTestApi
  BY DEF ApiInvariant, ApiInv, OwnTestApi, Undisturbed
<1>2. QED
  BY ApiInvariantHolds, <1>1, PTL

-----------------------------------------------------------------------------
(* The walk and its record belong to the executor alone. *)
LEMMA OtherSteps ==
    ASSUME AbortStep \/ (\E t \in Threads : ThreadStep(t)) \/ Finished \/ UNCHANGED vars
    PROVE  UNCHANGED <<execVars, late, abort, fullAbort>>
<1>1. CASE AbortStep
  BY <1>1 DEF AbortStep, ReadPhaseExec, TryTeardownLock, StopSetStopping, StopReadThread,
     StopCheckAlive, StopSetKilled, StopProbe, StopRaise, StopRunningPhase, ResetStop,
     AbortReleaseLock
<1>2. CASE \E t \in Threads : ThreadStep(t)
  BY <1>2 DEF ThreadStep, ThreadFramework, Begin, Call, ThreadException, End, Return, Raise,
     SysExit, Terminate
<1>3. CASE Finished \/ UNCHANGED vars
  BY <1>3 DEF Finished, vars
<1>4. QED
  BY <1>1, <1>2, <1>3

-----------------------------------------------------------------------------
(* An abort is late for one phase at most. *)

(* A phase that is started late is the one the walk had come to before the abort;
   after it the walk comes to no other abortable slot. *)
LateInv ==
    /\ late # {} => abort /\ pc \notin {"init", "startplugs"}
    /\ AtMostOneLatePhase
    /\ pc \in InPhase /\ slot \in AbortableSlots => late \subseteq {slot}

LEMMA LateInvStep == TypeInv /\ LateInv /\ [Next]_vars => LateInv'
<1> SUFFICES ASSUME TypeInv, LateInv, [Next]_vars PROVE LateInv'
  OBVIOUS
<1> USE ConstantsAssumption
    DEF TypeInv, TypeOK, SlotOK, LateInv, AtMostOneLatePhase, InPhase, Goto
<1>1. CASE PublishPhaseExec
  BY <1>1 DEF PublishPhaseExec
<1>2. CASE InitializePlugs
  BY <1>2 DEF InitializePlugs
<1>3. CASE EnterGroup
  BY <1>3 DEF EnterGroup
<1>4. CASE AbortableNode
  <2>1. CASE abort
    <3>1. AfterSlot(TRUE) /\ UNCHANGED <<late, abort>>
      BY <1>4, <2>1 DEF AbortableNode
    <3>2. pc' \in {"diagnose", "acquire", "release", "next"}
      BY <3>1, AfterSlotFacts
    <3>3. QED
      BY <3>1, <3>2
  <2>2. CASE ~abort
    BY <1>4, <2>2 DEF AbortableNode
  <2>3. QED
    BY <2>1, <2>2
<1>5. CASE AcquireTeardownLock
  BY <1>5 DEF AcquireTeardownLock
<1>6. CASE TeardownNode
  BY <1>6 DEF TeardownNode, AbortableSlots
<1>7. CASE ReleaseTeardownLock
  BY <1>7 DEF ReleaseTeardownLock
<1>8. CASE RepeatLoop
  BY <1>8 DEF RepeatLoop
<1>9. CASE RunIfDeclines
  BY <1>9 DEF RunIfDeclines
<1>10. CASE EnterPhaseContext
  BY <1>10 DEF EnterPhaseContext
<1>11. CASE SpawnPhaseThread
  BY <1>11 DEF SpawnPhaseThread
<1>12. CASE JoinEnds
  BY <1>12 DEF JoinEnds
<1>13. CASE ReadOutcome
  BY <1>13 DEF ReadOutcome
<1>14. CASE CheckAlive
  BY <1>14 DEF CheckAlive
<1>15. CASE TimeoutSetKilled
  BY <1>15 DEF TimeoutSetKilled
<1>16. CASE TimeoutProbe
  BY <1>16 DEF TimeoutProbe
<1>17. CASE TimeoutRaise
  BY <1>17 DEF TimeoutRaise
<1>18. CASE ClearCurrentThread
  BY <1>18 DEF ClearCurrentThread
<1>19. CASE RecordPhase
  BY <1>19 DEF RecordPhase
<1>20. CASE ShouldRepeat
  BY <1>20 DEF ShouldRepeat, Crash
<1>21. CASE FinishTestStart
  BY <1>21 DEF FinishTestStart
<1>22. CASE FinishPhase
  <2>1. pc' \notin InPhase \cup {"init", "startplugs"} /\ UNCHANGED <<late, abort>>
    <3>1. pc' = "teardown" \/ \E b : AfterSlot(b)
      BY <1>22 DEF FinishPhase, Crash
    <3>2. pc' \in {"teardown", "diagnose", "acquire", "release", "next"}
      BY <3>1, AfterSlotFacts
    <3>3. QED
      BY <1>22, <3>2 DEF FinishPhase
  <2>2. QED
    BY <2>1
<1>23. CASE ExecuteTestDiagnosers
  BY <1>23 DEF ExecuteTestDiagnosers
<1>24. CASE TearDownPlugs
  BY <1>24 DEF TearDownPlugs
<1>25. CASE FinalizeTest
  BY <1>25 DEF FinalizeTest
<1>26. CASE Abort
  BY <1>26 DEF Abort
<1>27. CASE UNCHANGED <<execVars, late, abort, fullAbort>>
  BY <1>27
<1>28. QED
  BY <1>1, <1>2, <1>3, <1>4, <1>5, <1>6, <1>7, <1>8, <1>9, <1>10, <1>11, <1>12, <1>13,
     <1>14, <1>15, <1>16, <1>17, <1>18, <1>19, <1>20, <1>21, <1>22, <1>23, <1>24, <1>25,
     <1>26, <1>27, OtherSteps
     DEF Next, ExecutorStep

(* Whenever the abort comes, at most one phase of test_start, setup or main is started
   after it (_execute_abortable_sequence, test_executor.py). *)
THEOREM AtMostOneLate == Spec => []AtMostOneLatePhase
<1>1. Init => LateInv
  BY DEF Init, LateInv, AtMostOneLatePhase
<1>2. LateInv => AtMostOneLatePhase
  BY DEF LateInv
<1>3. QED
  BY TypeInvInit, TypeInvStep, LateInvStep, <1>1, <1>2, PTL DEF Spec

-----------------------------------------------------------------------------
(* The teardown phases run. *)

(* Options under which the walk does not end in an IndexError: _should_repeat and
   stop_on_first_failure look at the last phase record, which is missing when run_if
   declined every phase so far or an abort came before the first one. *)
RecordsExist == ~StopOnFirstFailure /\ RunIf \cap RepeatOnFail = {}

(* The walk is over. *)
Ending == {"release", "diagnose", "teardown", "finalize", "done", "hung"}

(* Where a phase has been attempted. *)
Attempted == InPhase \ {"repeat", "once"}

(* A phase without run_if has a record when _should_repeat asks. *)
RecordInv == pc = "again" /\ slot \notin RunIf => phases # <<>>

(* Without a second Ctrl-C the walk leaves no teardown phase behind, and when it is
   over in an entered group it is past the last one. *)
TeardownInv ==
    ~fullAbort =>
        /\ \A s \in TeardownSlots : s < slot => s \in attempted
        /\ pc \in Attempted /\ slot \in TeardownSlots => slot \in attempted
        /\ pc \in Ending /\ entered => slot = Last + 1

(* What the step to the next slot leaves behind. *)
LEMMA AfterSlotLeaves ==
    ASSUME TypeInv, NEW b, AfterSlot(b)
    PROVE  /\ pc' \in {"diagnose", "acquire", "release", "next"}
           /\ \A s \in TeardownSlots : s < slot' => s < slot \/ s = slot
           /\ pc' \in Ending /\ entered' => slot' = Last + 1
           /\ ~b => (\A s \in 1..Last : s < slot' => s < slot \/ s = slot)
           /\ ~b /\ pc' \in Ending => slot' = Last + 1
<1> USE ConstantsAssumption DEF TypeInv, TypeOK, SlotOK, AfterSlot, Goto, Ending
<1>1. pc' \in {"diagnose", "acquire", "release", "next"}
  BY AfterSlotFacts
<1>2. QED
  BY <1>1 DEF Slots, Last, SetupSlots, MainSlots, TeardownSlots

LEMMA RecordInvStep == TypeInv /\ RecordInv /\ [Next]_vars => RecordInv'
<1> SUFFICES ASSUME TypeInv, RecordInv, [Next]_vars PROVE RecordInv'
  OBVIOUS
<1> USE DEF TypeInv, TypeOK, RecordInv, Goto
<1>1. CASE PublishPhaseExec
  BY <1>1 DEF PublishPhaseExec
<1>2. CASE InitializePlugs
  BY <1>2 DEF InitializePlugs
<1>3. CASE EnterGroup
  BY <1>3 DEF EnterGroup
<1>4. CASE AbortableNode
  <2>1. pc' = "repeat" \/ \E b : AfterSlot(b)
    BY <1>4 DEF AbortableNode
  <2>2. QED
    BY <2>1, AfterSlotFacts
<1>5. CASE AcquireTeardownLock
  BY <1>5 DEF AcquireTeardownLock
<1>6. CASE TeardownNode
  BY <1>6 DEF TeardownNode
<1>7. CASE ReleaseTeardownLock
  BY <1>7 DEF ReleaseTeardownLock
<1>8. CASE RepeatLoop
  BY <1>8 DEF RepeatLoop
<1>9. CASE RunIfDeclines
  BY <1>9 DEF RunIfDeclines
<1>10. CASE EnterPhaseContext
  BY <1>10 DEF EnterPhaseContext
<1>11. CASE SpawnPhaseThread
  BY <1>11 DEF SpawnPhaseThread
<1>12. CASE JoinEnds
  BY <1>12 DEF JoinEnds
<1>13. CASE ReadOutcome
  BY <1>13 DEF ReadOutcome
<1>14. CASE CheckAlive
  BY <1>14 DEF CheckAlive
<1>15. CASE TimeoutSetKilled
  BY <1>15 DEF TimeoutSetKilled
<1>16. CASE TimeoutProbe
  BY <1>16 DEF TimeoutProbe
<1>17. CASE TimeoutRaise
  BY <1>17 DEF TimeoutRaise
<1>18. CASE ClearCurrentThread
  BY <1>18 DEF ClearCurrentThread
<1>19. CASE RecordPhase
  <2>1. PICK r : phases' = Append(phases, r)
    BY <1>19 DEF RecordPhase
  <2>2. QED
    BY <2>1
<1>20. CASE ShouldRepeat
  BY <1>20 DEF ShouldRepeat, Crash
<1>21. CASE FinishTestStart
  BY <1>21 DEF FinishTestStart
<1>22. CASE FinishPhase
  <2>1. pc' = "teardown" \/ \E b : AfterSlot(b)
    BY <1>22 DEF FinishPhase, Crash
  <2>2. QED
    BY <2>1, AfterSlotFacts
<1>23. CASE ExecuteTestDiagnosers
  BY <1>23 DEF ExecuteTestDiagnosers
<1>24. CASE TearDownPlugs
  BY <1>24 DEF TearDownPlugs
<1>25. CASE FinalizeTest
  BY <1>25 DEF FinalizeTest
<1>26. CASE Abort
  BY <1>26 DEF Abort
<1>27. CASE UNCHANGED <<execVars, late, abort, fullAbort>>
  BY <1>27
<1>28. QED
  BY <1>1, <1>2, <1>3, <1>4, <1>5, <1>6, <1>7, <1>8, <1>9, <1>10, <1>11, <1>12, <1>13,
     <1>14, <1>15, <1>16, <1>17, <1>18, <1>19, <1>20, <1>21, <1>22, <1>23, <1>24, <1>25,
     <1>26, <1>27, OtherSteps
     DEF Next, ExecutorStep

LEMMA TeardownInvStep ==
    ASSUME RecordsExist
    PROVE  TypeInv /\ LockInv /\ RecordInv /\ TeardownInv /\ [Next]_vars => TeardownInv'
<1> SUFFICES ASSUME TypeInv, LockInv, RecordInv, TeardownInv, [Next]_vars PROVE TeardownInv'
  OBVIOUS
<1> USE ConstantsAssumption
    DEF TypeInv, TypeOK, SlotOK, TeardownInv, Ending, Attempted, InPhase, Goto
<1>1. CASE PublishPhaseExec
  BY <1>1 DEF PublishPhaseExec
<1>2. CASE InitializePlugs
  BY <1>2 DEF InitializePlugs, Last, TeardownSlots
<1>3. CASE EnterGroup
  BY <1>3 DEF EnterGroup, Last, TeardownSlots
<1>4. CASE AbortableNode
  <2>1. CASE abort
    <3>1. AfterSlot(TRUE) /\ UNCHANGED <<attempted, fullAbort>> /\ slot \notin TeardownSlots
      BY <1>4, <2>1 DEF AbortableNode, AbortableSlots
    <3>2. QED
      BY <3>1, AfterSlotLeaves
  <2>2. CASE ~abort
    BY <1>4, <2>2 DEF AbortableNode, AbortableSlots
  <2>3. QED
    BY <2>1, <2>2
<1>5. CASE AcquireTeardownLock
  BY <1>5 DEF AcquireTeardownLock
<1>6. CASE TeardownNode
  BY <1>6 DEF TeardownNode, Last, TeardownSlots
<1>7. CASE ReleaseTeardownLock
  BY <1>7 DEF ReleaseTeardownLock
<1>8. CASE RepeatLoop
  <2>1. slot \in TeardownSlots /\ stopping => fullAbort
    BY <1>8 DEF RepeatLoop, LockInv, InTeardown
  <2>2. QED
    BY <1>8, <2>1 DEF RepeatLoop
<1>9. CASE RunIfDeclines
  BY <1>9 DEF RunIfDeclines
<1>10. CASE EnterPhaseContext
  BY <1>10 DEF EnterPhaseContext
<1>11. CASE SpawnPhaseThread
  BY <1>11 DEF SpawnPhaseThread
<1>12. CASE JoinEnds
  BY <1>12 DEF JoinEnds
<1>13. CASE ReadOutcome
  BY <1>13 DEF ReadOutcome
<1>14. CASE CheckAlive
  BY <1>14 DEF CheckAlive
<1>15. CASE TimeoutSetKilled
  BY <1>15 DEF TimeoutSetKilled
<1>16. CASE TimeoutProbe
  BY <1>16 DEF TimeoutProbe
<1>17. CASE TimeoutRaise
  BY <1>17 DEF TimeoutRaise
<1>18. CASE ClearCurrentThread
  BY <1>18 DEF ClearCurrentThread
<1>19. CASE RecordPhase
  BY <1>19 DEF RecordPhase
<1>20. CASE ShouldRepeat
  <2>1. ~(ReadsLastRecord /\ phases = <<>>)
    BY <1>20 DEF ShouldRepeat, RecordInv, ReadsLastRecord, RecordsExist
  <2>2. QED
    BY <1>20, <2>1 DEF ShouldRepeat
<1>21. CASE FinishTestStart
  BY <1>21 DEF FinishTestStart, Last, TeardownSlots
<1>22. CASE FinishPhase
  <2>1. /\ \E b : AfterSlot(b)
        /\ UNCHANGED <<attempted, fullAbort>> /\ pc = "finish"
    BY <1>22 DEF FinishPhase, RecordsExist
  <2>2. QED
    BY <2>1, AfterSlotLeaves
<1>23. CASE ExecuteTestDiagnosers
  BY <1>23 DEF ExecuteTestDiagnosers
<1>24. CASE TearDownPlugs
  BY <1>24 DEF TearDownPlugs
<1>25. CASE FinalizeTest
  BY <1>25 DEF FinalizeTest
<1>26. CASE Abort
  BY <1>26 DEF Abort
<1>27. CASE UNCHANGED <<execVars, late, abort, fullAbort>>
  BY <1>27
<1>28. QED
  BY <1>1, <1>2, <1>3, <1>4, <1>5, <1>6, <1>7, <1>8, <1>9, <1>10, <1>11, <1>12, <1>13,
     <1>14, <1>15, <1>16, <1>17, <1>18, <1>19, <1>20, <1>21, <1>22, <1>23, <1>24, <1>25,
     <1>26, <1>27, OtherSteps
     DEF Next, ExecutorStep

(* Once the setup phases are over every teardown phase is attempted, whatever the other
   phases and one Ctrl-C do (_execute_teardown_sequence, event_sequence.md): for options
   with which no look at the last phase record fails. *)
THEOREM TeardownDoesRun == RecordsExist => (Spec => []TeardownRuns)
<1> SUFFICES ASSUME RecordsExist PROVE Spec => []TeardownRuns
  OBVIOUS
<1>1. Init => RecordInv /\ TeardownInv
  BY ConstantsAssumption
     DEF Init, RecordInv, TeardownInv, Attempted, InPhase, Ending, TeardownSlots
<1>2. TypeInv /\ TeardownInv => TeardownRuns
  BY ConstantsAssumption DEF TeardownInv, Ending, TeardownRuns, TeardownSlots, Last
<1>3. TypeInv /\ LockInv /\ RecordInv /\ TeardownInv /\ [Next]_vars
        => RecordInv' /\ TeardownInv'
  BY RecordInvStep, TeardownInvStep
<1>4. Spec => [](TypeInv /\ LockInv)
  BY LockInvariantHolds, PTL DEF LockInvariant
<1>5. QED
  BY <1>1, <1>2, <1>3, <1>4, PTL DEF Spec

-----------------------------------------------------------------------------
(* A PASS is earned. *)

(* Options under which a repetition of a phase makes a record: run_if, which is asked
   before each attempt, has no say in it. *)
RepeatsRecorded == RunIf \cap (ForceRepeat \cup RepeatOnTimeout) = {}

(* An abort that is under way, or was a second one, has set _abort. *)
AbortInv == abort \/ (~fullAbort /\ apc = "idle")

Untroubled == ~abort /\ lastOutcome = "NONE"

(* Without an abort and a terminal outcome the walk leaves out nothing. *)
WalkInv ==
    /\ lastOutcome = "NONE" \/ IsTerminal(lastOutcome)
    /\ Untroubled =>
        /\ \A s \in 1..Last : s < slot => s \in attempted
        /\ pc \in Attempted => slot \in attempted
        /\ pc \in Ending => slot = Last + 1

(* The phase of record i is to be recorded again, or its outcome is about to become
   the test's. *)
InRepetition(i) ==
    /\ i = Len(phases) /\ slot = phases[i].slot
    /\ \/ pc \in {"again", "finish"} /\ IsTerminal(outcome)
       \/ pc \in InPhase \ {"again", "finish"} /\ slot \notin RunIf

ErrorInv ==
    lastOutcome = "NONE" => \A i \in 1..Len(phases) : phases[i].outcome = "ERROR" =>
        \/ \E j \in (i + 1)..Len(phases) : phases[j].slot = phases[i].slot
        \/ InRepetition(i)

LEMMA AbortInvStep == AbortInv /\ [Next]_vars => AbortInv'
<1> SUFFICES ASSUME AbortInv, [Next]_vars PROVE AbortInv'
  OBVIOUS
<1>1. CASE ExecutorStep
  BY <1>1 DEF AbortInv, ExecutorStep, PublishPhaseExec, InitializePlugs, EnterGroup,
     AbortableNode, AcquireTeardownLock, TeardownNode, ReleaseTeardownLock, RepeatLoop,
     RunIfDeclines, EnterPhaseContext, SpawnPhaseThread, JoinEnds, ReadOutcome,
     CheckAlive, TimeoutSetKilled, TimeoutProbe, TimeoutRaise, ClearCurrentThread,
     RecordPhase, ShouldRepeat, FinishTestStart, FinishPhase, ExecuteTestDiagnosers,
     TearDownPlugs, FinalizeTest
<1>2. CASE Abort
  BY <1>2 DEF AbortInv, Abort
<1>3. CASE AbortStep
  <2>1. apc # "idle"
    BY <1>3 DEF AbortStep, ReadPhaseExec, TryTeardownLock, StopSetStopping, StopReadThread,
       StopCheckAlive, StopSetKilled, StopProbe, StopRaise, StopRunningPhase, ResetStop,
       AbortReleaseLock
  <2>2. QED
    BY <1>3, <2>1, OtherSteps DEF AbortInv
<1>4. CASE \E t \in Threads : ThreadStep(t)
  BY <1>4 DEF AbortInv, ThreadStep, ThreadFramework, Begin, Call, ThreadException, End,
     Return, Raise, SysExit, Terminate
<1>5. CASE Finished \/ UNCHANGED vars
  BY <1>5 DEF AbortInv, Finished, vars
<1>6. QED
  BY <1>1, <1>2, <1>3, <1>4, <1>5 DEF Next

LEMMA WalkInvStep ==
    ASSUME RecordsExist
    PROVE  TypeInv /\ LockInv /\ AbortInv /\ RecordInv /\ WalkInv /\ [Next]_vars => WalkInv'
<1> SUFFICES ASSUME TypeInv, LockInv, AbortInv, RecordInv, WalkInv, [Next]_vars PROVE WalkInv'
  OBVIOUS
<1> USE ConstantsAssumption
    DEF TypeInv, TypeOK, SlotOK, WalkInv, Untroubled, Ending, Attempted, InPhase, Goto
<1>1. CASE PublishPhaseExec
  BY <1>1 DEF PublishPhaseExec
<1>2. CASE InitializePlugs
  BY <1>2 DEF InitializePlugs, Last, IsTerminal
<1>3. CASE EnterGroup
  BY <1>3 DEF EnterGroup, Last
<1>4. CASE AbortableNode
  <2>1. CASE abort
    BY <1>4, <2>1 DEF AbortableNode
  <2>2. CASE ~abort
    BY <1>4, <2>2 DEF AbortableNode
  <2>3. QED
    BY <2>1, <2>2
<1>5. CASE AcquireTeardownLock
  BY <1>5 DEF AcquireTeardownLock
<1>6. CASE TeardownNode
  <2>1. fullAbort => abort
    BY DEF AbortInv
  <2>2. QED
    BY <1>6, <2>1 DEF TeardownNode, TeardownSlots, Last
<1>7. CASE ReleaseTeardownLock
  BY <1>7 DEF ReleaseTeardownLock
<1>8. CASE RepeatLoop
  <2>1. stopping => abort
    BY DEF LockInv, AbortInv, HasTarget
  <2>2. QED
    BY <1>8, <2>1 DEF RepeatLoop
<1>9. CASE RunIfDeclines
  BY <1>9 DEF RunIfDeclines
<1>10. CASE EnterPhaseContext
  BY <1>10 DEF EnterPhaseContext
<1>11. CASE SpawnPhaseThread
  BY <1>11 DEF SpawnPhaseThread
<1>12. CASE JoinEnds
  BY <1>12 DEF JoinEnds
<1>13. CASE ReadOutcome
  BY <1>13 DEF ReadOutcome
<1>14. CASE CheckAlive
  BY <1>14 DEF CheckAlive
<1>15. CASE TimeoutSetKilled
  BY <1>15 DEF TimeoutSetKilled
<1>16. CASE TimeoutProbe
  BY <1>16 DEF TimeoutProbe
<1>17. CASE TimeoutRaise
  BY <1>17 DEF TimeoutRaise
<1>18. CASE ClearCurrentThread
  BY <1>18 DEF ClearCurrentThread
<1>19. CASE RecordPhase
  BY <1>19 DEF RecordPhase
<1>20. CASE ShouldRepeat
  <2>1. ~(ReadsLastRecord /\ phases = <<>>)
    BY <1>20 DEF ShouldRepeat, RecordInv, ReadsLastRecord, RecordsExist
  <2>2. QED
    BY <1>20, <2>1 DEF ShouldRepeat
<1>21. CASE FinishTestStart
  BY <1>21 DEF FinishTestStart, Last, IsTerminal
<1>22. CASE FinishPhase
  <2> DEFINE final == IF StopOnFirstFailure /\ LastFailed THEN "STOP" ELSE outcome
  <2>1. /\ AfterSlot(IsTerminal(final)) /\ lastOutcome' = KeepOutcome(final)
        /\ UNCHANGED <<attempted, abort>> /\ pc = "finish"
    BY <1>22 DEF FinishPhase, RecordsExist
  <2> HIDE DEF final
  <2>2. CASE IsTerminal(final)
    <3>1. lastOutcome' # "NONE" /\ IsTerminal(lastOutcome')
      BY <2>1, <2>2 DEF KeepOutcome, IsTerminal
    <3>2. QED
      BY <3>1
  <2>3. CASE ~IsTerminal(final)
    <3>1. lastOutcome' = lastOutcome
      BY <2>1, <2>3 DEF KeepOutcome
    <3>2. QED
      BY <2>1, <2>3, <3>1, AfterSlotLeaves
  <2>4. QED
    BY <2>2, <2>3
<1>23. CASE ExecuteTestDiagnosers
  BY <1>23 DEF ExecuteTestDiagnosers, IsTerminal
<1>24. CASE TearDownPlugs
  BY <1>24 DEF TearDownPlugs
<1>25. CASE FinalizeTest
  BY <1>25 DEF FinalizeTest
<1>26. CASE Abort
  BY <1>26 DEF Abort
<1>27. CASE UNCHANGED <<execVars, late, abort, fullAbort>>
  BY <1>27
<1>28. QED
  BY <1>1, <1>2, <1>3, <1>4, <1>5, <1>6, <1>7, <1>8, <1>9, <1>10, <1>11, <1>12, <1>13,
     <1>14, <1>15, <1>16, <1>17, <1>18, <1>19, <1>20, <1>21, <1>22, <1>23, <1>24, <1>25,
     <1>26, <1>27, OtherSteps
     DEF Next, ExecutorStep

LEMMA ErrorInvStep ==
    ASSUME RecordsExist, RepeatsRecorded
    PROVE  TypeInv /\ RecordInv /\ ErrorInv /\ [Next]_vars => ErrorInv'
<1> SUFFICES ASSUME TypeInv, RecordInv, ErrorInv, [Next]_vars PROVE ErrorInv'
  OBVIOUS
<1> USE ConstantsAssumption DEF TypeInv, TypeOK, SlotOK, ErrorInv, InRepetition, InPhase, Goto
<1>1. CASE PublishPhaseExec
  BY <1>1 DEF PublishPhaseExec
<1>2. CASE InitializePlugs
  BY <1>2 DEF InitializePlugs
<1>3. CASE EnterGroup
  BY <1>3 DEF EnterGroup
<1>4. CASE AbortableNode
  BY <1>4 DEF AbortableNode
<1>5. CASE AcquireTeardownLock
  BY <1>5 DEF AcquireTeardownLock
<1>6. CASE TeardownNode
  BY <1>6 DEF TeardownNode
<1>7. CASE ReleaseTeardownLock
  BY <1>7 DEF ReleaseTeardownLock
<1>8. CASE RepeatLoop
  BY <1>8 DEF RepeatLoop, IsTerminal
<1>9. CASE RunIfDeclines
  BY <1>9 DEF RunIfDeclines
<1>10. CASE EnterPhaseContext
  BY <1>10 DEF EnterPhaseContext
<1>11. CASE SpawnPhaseThread
  BY <1>11 DEF SpawnPhaseThread
<1>12. CASE JoinEnds
  BY <1>12 DEF JoinEnds
<1>13. CASE ReadOutcome
  BY <1>13 DEF ReadOutcome
<1>14. CASE CheckAlive
  BY <1>14 DEF CheckAlive
<1>15. CASE TimeoutSetKilled
  BY <1>15 DEF TimeoutSetKilled
<1>16. CASE TimeoutProbe
  BY <1>16 DEF TimeoutProbe
<1>17. CASE TimeoutRaise
  BY <1>17 DEF TimeoutRaise
<1>18. CASE ClearCurrentThread
  BY <1>18 DEF ClearCurrentThread
<1>19. CASE RecordPhase
  <2>1. PICK f \in Finalized(outcome) :
          /\ outcome' = f.result
          /\ phases' = Append(phases, [slot |-> slot, attempt |-> attempt,
                                       outcome |-> f.outcome])
    BY <1>19 DEF RecordPhase
  <2>2. f.outcome = "ERROR" => IsTerminal(f.result)
    BY <2>1 DEF Finalized, IsTerminal
  <2>3. /\ Len(phases) \in Nat /\ Len(phases') = Len(phases) + 1
        /\ \A i \in 1..Len(phases) : phases'[i] = phases[i]
        /\ phases'[Len(phases) + 1].slot = slot
        /\ phases'[Len(phases) + 1].outcome = f.outcome
    BY <2>1
  <2>4. UNCHANGED <<slot, lastOutcome>> /\ pc = "record" /\ pc' = "again" /\ outcome' = f.result
    BY <1>19, <2>1 DEF RecordPhase
  <2> SUFFICES ASSUME lastOutcome' = "NONE", NEW i \in 1..Len(phases'),
                      phases'[i].outcome = "ERROR"
               PROVE  \/ \E j \in (i + 1)..Len(phases') : phases'[j].slot = phases'[i].slot
                      \/ InRepetition(i)'
    OBVIOUS
  <2>5. CASE i = Len(phases) + 1
    BY <2>2, <2>3, <2>4, <2>5
  <2>6. CASE i \in 1..Len(phases)
    <3>1. CASE \E j \in (i + 1)..Len(phases) : phases[j].slot = phases[i].slot
      BY <2>3, <2>6, <3>1
    <3>2. CASE InRepetition(i)
      BY <2>3, <2>6, <3>2
    <3>3. QED
      BY <2>3, <2>4, <2>6, <3>1, <3>2
  <2>7. QED
    BY <2>3, <2>5, <2>6
<1>20. CASE ShouldRepeat
  <2>1. ~(ReadsLastRecord /\ phases = <<>>)
    BY <1>20 DEF ShouldRepeat, RecordInv, ReadsLastRecord, RecordsExist
  <2>2. /\ pc = "again" /\ pc' \in {"repeat", "finish"} /\ UNCHANGED <<slot, outcome, lastOutcome>>
        /\ pc' = "repeat" => RepeatRequested \/ ReadsLastRecord
    BY <1>20, <2>1 DEF ShouldRepeat
  <2>3. pc' = "repeat" /\ IsTerminal(outcome) => slot \notin RunIf
    BY <2>2 DEF RepeatRequested, ReadsLastRecord, RecordsExist, RepeatsRecorded, IsTerminal
  <2>4. /\ Len(phases') = Len(phases) /\ Len(phases) \in Nat
        /\ \A i \in 1..Len(phases) : /\ phases'[i].slot = phases[i].slot
                                     /\ phases'[i].outcome = "ERROR" => phases[i].outcome = "ERROR"
    <3>1. CASE phases' = phases
      BY <3>1
    <3>2. CASE phases' # phases
      <4>1. /\ phases' = [phases EXCEPT ![Len(phases)] = [phases[Len(phases)] EXCEPT !.outcome = "SKIP"]]
            /\ phases # <<>>
        BY <1>20, <2>1, <3>2 DEF ShouldRepeat
      <4>2. Len(phases) \in 1..Len(phases)
        BY <4>1, EmptySeq
      <4>3. phases[Len(phases)] \in PhaseRecords
        BY <4>2, ElementOfSeq
      <4>4. QED
        BY <4>1, <4>2, <4>3 DEF PhaseRecords
    <3>3. QED
      BY <3>1, <3>2
  <2>5. QED
    BY <2>2, <2>3, <2>4
<1>21. CASE FinishTestStart
  BY <1>21 DEF FinishTestStart, IsTerminal
<1>22. CASE FinishPhase
  <2>1. /\ lastOutcome' = KeepOutcome(outcome) /\ UNCHANGED phases /\ pc = "finish"
    BY <1>22 DEF FinishPhase, RecordsExist
  <2>2. CASE IsTerminal(outcome)
    BY <2>1, <2>2 DEF KeepOutcome, IsTerminal
  <2>3. CASE ~IsTerminal(outcome)
    BY <2>1, <2>3 DEF KeepOutcome
  <2>4. QED
    BY <2>2, <2>3
<1>23. CASE ExecuteTestDiagnosers
  BY <1>23 DEF ExecuteTestDiagnosers
<1>24. CASE TearDownPlugs
  BY <1>24 DEF TearDownPlugs
<1>25. CASE FinalizeTest
  BY <1>25 DEF FinalizeTest
<1>26. CASE Abort
  BY <1>26 DEF Abort
<1>27. CASE UNCHANGED <<execVars, late, abort, fullAbort>>
  BY <1>27
<1>28. QED
  BY <1>1, <1>2, <1>3, <1>4, <1>5, <1>6, <1>7, <1>8, <1>9, <1>10, <1>11, <1>12, <1>13,
     <1>14, <1>15, <1>16, <1>17, <1>18, <1>19, <1>20, <1>21, <1>22, <1>23, <1>24, <1>25,
     <1>26, <1>27, OtherSteps
     DEF Next, ExecutorStep

(* A PASS means what it says: with an outcome PASS every phase of the group was attempted,
   no record is a FAIL, and an attempt that ended in error was repeated and recorded again
   (finalize_normally, test_state.py), for options with which no repetition goes
   unrecorded. *)
THEOREM PassDoesMean == RecordsExist /\ RepeatsRecorded => (Spec => []PassIsEarned)
<1> SUFFICES ASSUME RecordsExist, RepeatsRecorded PROVE Spec => []PassIsEarned
  OBVIOUS
<1> DEFINE Inv == AbortInv /\ RecordInv /\ WalkInv /\ ErrorInv
           Earned == PassIsEarned /\ (testOutcome # "NONE" => pc = "done")
<1>1. Init => Inv /\ Earned
  <2>1. Init => AbortInv /\ RecordInv /\ ErrorInv /\ Earned
    BY DEF Init, AbortInv, RecordInv, ErrorInv, PassIsEarned
  <2>2. Init => WalkInv
    BY ConstantsAssumption DEF Init, WalkInv, Untroubled, Attempted, InPhase, Ending
  <2>3. QED
    BY <2>1, <2>2
<1>2. TypeInv /\ LockInv /\ Inv /\ [Next]_vars => Inv'
  BY AbortInvStep, RecordInvStep, WalkInvStep, ErrorInvStep
<1>3. TypeInv /\ Inv /\ Earned /\ [Next]_vars => Earned'
  <2> SUFFICES ASSUME TypeInv, Inv, Earned, [Next]_vars PROVE Earned'
    OBVIOUS
  <2>1. CASE FinalizeTest
    <3>1. /\ pc = "finalize" /\ UNCHANGED <<attempted, phases>>
          /\ testOutcome' # "NONE" => pc' = "done" \/ testOutcome # "NONE"
      BY <2>1 DEF FinalizeTest, Goto
    <3>2. SUFFICES ASSUME testOutcome' = "PASS" PROVE PassIsEarned'
      BY <3>1 DEF PassIsEarned
    <3>3. ~abort /\ ~IsTerminal(lastOutcome) /\ NormalOutcome = "PASS"
      BY <2>1, <3>1, <3>2 DEF FinalizeTest, TerminalOutcomes, IsTerminal
    <3>4. lastOutcome = "NONE" /\ slot = Last + 1
      BY <3>1, <3>3 DEF WalkInv, Untroubled, Ending
    <3>5. MainSlots \cup SetupSlots \cup TeardownSlots \subseteq attempted
      BY <3>3, <3>4, ConstantsAssumption
         DEF WalkInv, Untroubled, MainSlots, SetupSlots, TeardownSlots, Last
    <3>6. \A i \in 1..Len(phases) : phases[i].outcome # "FAIL"
      <4>1. phases = <<>> => Len(phases) = 0
        OBVIOUS
      <4>2. phases # <<>> => "FAIL" \notin {phases[i].outcome : i \in 1..Len(phases)}
        BY <3>3 DEF NormalOutcome
      <4>3. QED
        BY <4>1, <4>2
    <3>7. \A i \in 1..Len(phases) : ~InRepetition(i)
      BY <3>1 DEF InRepetition, InPhase
    <3>8. QED
      BY <3>1, <3>4, <3>5, <3>6, <3>7 DEF ErrorInv, PassIsEarned
  <2>2. CASE UNCHANGED execVars
    BY <2>2 DEF PassIsEarned
  <2>3. CASE pc # "done" /\ UNCHANGED testOutcome
    BY <2>3 DEF PassIsEarned
  <2>4. UNCHANGED testOutcome \/ FinalizeTest
    BY OtherSteps
       DEF Next, ExecutorStep, PublishPhaseExec, InitializePlugs, EnterGroup,
           AbortableNode, AcquireTeardownLock, TeardownNode, ReleaseTeardownLock,
           RepeatLoop, RunIfDeclines, EnterPhaseContext, SpawnPhaseThread, JoinEnds,
           ReadOutcome, CheckAlive, TimeoutSetKilled, TimeoutProbe, TimeoutRaise,
           ClearCurrentThread, RecordPhase, ShouldRepeat, FinishTestStart, FinishPhase,
           ExecuteTestDiagnosers, TearDownPlugs, Abort
  <2>5. pc # "done" \/ UNCHANGED execVars
    BY OtherSteps
       DEF Next, ExecutorStep, Goto, FinalizeTest, PublishPhaseExec, InitializePlugs, EnterGroup,
           AbortableNode, AcquireTeardownLock, TeardownNode, ReleaseTeardownLock,
           RepeatLoop, RunIfDeclines, EnterPhaseContext, SpawnPhaseThread, JoinEnds,
           ReadOutcome, CheckAlive, TimeoutSetKilled, TimeoutProbe, TimeoutRaise,
           ClearCurrentThread, RecordPhase, ShouldRepeat, FinishTestStart, FinishPhase,
           ExecuteTestDiagnosers, TearDownPlugs, Abort
  <2>6. QED
    BY <2>1, <2>2, <2>3, <2>4, <2>5
<1>4. Earned => PassIsEarned
  OBVIOUS
<1>5. Spec => [](TypeInv /\ LockInv)
  BY LockInvariantHolds, PTL DEF LockInvariant
<1> HIDE DEF Inv, Earned
<1>6. QED
  BY <1>1, <1>2, <1>3, <1>4, <1>5, PTL DEF Spec

=============================================================================

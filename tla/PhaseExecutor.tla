---------------------------- MODULE PhaseExecutor ----------------------------
(***************************************************************************)
(* The thread-level behaviour of one test run: the TestExecutor thread     *)
(* walking test_start and one PhaseGroup(setup, main, teardown), the       *)
(* PhaseExecutorThread of every phase attempt, and the thread that runs    *)
(* Test.abort_from_sig_int.                                                *)
(* Sources: openhtf/core/phase_executor.py, openhtf/core/test_executor.py, *)
(* openhtf/util/threads.py, openhtf/core/test_state.py.                    *)
(*                                                                         *)
(* A step of the model reads or writes shared state once; what a thread    *)
(* does privately between two such accesses belongs to the same step.      *)
(***************************************************************************)
EXTENDS Integers, Sequences

CONSTANTS
    HasStart,           \* a test_start phase was given to Test.execute
    Setup, Main, Teardown,  \* number of phases in each part of the group
    RepeatLimit,        \* PhaseOptions.repeat_limit of every phase
    RunIf,              \* slots whose phase has a run_if
    ForceRepeat, RepeatOnTimeout, RepeatOnFail, StopOnFail, \* slots with the option
    Diagnosed,          \* slots whose phase has phase diagnosers
    BodyResults,        \* PhaseResult values that phase functions return
    StopOnFirstFailure, \* TestOptions.stop_on_first_failure
    FailureExceptions,  \* TestOptions.failure_exceptions is not empty
    MaxAborts           \* bound on the number of Ctrl-C

(* Slot 0 is test_start; the phases of the group follow in order. *)
Last == Setup + Main + Teardown
Slots == 0..Last
SetupSlots == 1..Setup
MainSlots == (Setup + 1)..(Setup + Main)
TeardownSlots == (Setup + Main + 1)..Last
AbortableSlots == Slots \ TeardownSlots

PhaseResults == {"CONTINUE", "FAIL_AND_CONTINUE", "REPEAT", "SKIP", "STOP"}

ASSUME ConstantsAssumption ==
    /\ HasStart \in BOOLEAN
    /\ Setup \in Nat /\ Main \in Nat /\ Teardown \in Nat
    /\ RepeatLimit \in Nat \ {0}
    /\ RunIf \subseteq Slots
    /\ ForceRepeat \subseteq Slots
    /\ RepeatOnTimeout \subseteq Slots
    /\ RepeatOnFail \subseteq Slots
    /\ StopOnFail \subseteq Slots
    /\ Diagnosed \subseteq Slots
    /\ BodyResults \subseteq PhaseResults
    /\ StopOnFirstFailure \in BOOLEAN
    /\ FailureExceptions \in BOOLEAN
    /\ MaxAborts \in Nat

(* A phase thread is named by the slot and the attempt it runs. *)
Threads == Slots \X (1..RepeatLimit)
NoThread == <<-1, 0>>

(* What PhaseExecutionOutcome.phase_result can hold; None is a timeout. *)
Outcomes == PhaseResults \cup {"EXC", "TIMEOUT", "KILLED"}
IsTerminal(r) == r \in {"EXC", "TIMEOUT", "KILLED", "STOP"}

VARIABLES
    pc, slot, attempt,      \* control point of the TestExecutor thread
    outcome,                \* its local phase_execution_outcome
    entered,                \* history: every setup phase was non-terminal
    attempted,              \* history: slots on which _execute_phase_once ran
    phaseExec,              \* TestExecutor._phase_exec has been assigned
    lastOutcome,            \* TestExecutor._last_outcome
    diagFailed,             \* some diagnoser issued a failure diagnosis
    phases,                 \* test_record.phases
    testOutcome,            \* test_record.outcome
    running,                \* TestState.running_phase_state
    curThread,              \* PhaseExecutor._current_phase_thread
    stopping,               \* PhaseExecutor._stopping
    teardownLock,           \* owner of TestExecutor._teardown_phases_lock
    abort, fullAbort,       \* TestExecutor._abort, _full_abort
    tstate,                 \* progress of each phase thread through run()
    result,                 \* its _phase_execution_outcome
    killers,                \* who has set its _killed event
    pending,                \* an asynchronous exception awaits delivery
    late,                   \* history: abortable slots started after _abort
    apc, target, force, aborts  \* the aborting thread

walkVars == <<slot, attempt, entered, attempted>>
testVars == <<phaseExec, lastOutcome, diagFailed, phases, testOutcome>>
execVars == <<pc, outcome, walkVars, testVars>>
threadVars == <<tstate, result, killers, pending>>
abortVars == <<apc, target, force, aborts>>
flagVars == <<abort, fullAbort>>
sharedVars == <<running, curThread, stopping, teardownLock, late>>
vars == <<execVars, sharedVars, flagVars, threadVars, abortVars>>

PhaseRecords == [slot : Slots, attempt : 1..RepeatLimit,
                 outcome : {"PASS", "FAIL", "SKIP", "ERROR"}]
PcLabels == {"init", "startplugs", "plugs", "group", "next", "acquire",
             "repeat", "once", "spawn", "join", "outcome", "alive", "kset",
             "kprobe", "kraise", "clear", "record", "again", "finish",
             "release", "diagnose", "teardown", "finalize", "done", "hung"}
ApcLabels == {"idle", "read", "try", "stop", "target", "alive", "kset",
              "kprobe", "kraise", "wait", "reset", "release"}
ThreadStates == {"new", "started", "calling", "body", "caught", "leaving", "dead"}

TypeOK ==
    /\ pc \in PcLabels
    /\ slot \in 0..(Last + 1)
    /\ attempt \in 1..RepeatLimit
    /\ outcome \in Outcomes \cup {"NONE"}
    /\ entered \in BOOLEAN /\ attempted \subseteq Slots
    /\ phaseExec \in BOOLEAN
    /\ lastOutcome \in Outcomes \cup {"NONE"}
    /\ diagFailed \in BOOLEAN
    /\ phases \in Seq(PhaseRecords)
    /\ testOutcome \in {"NONE", "PASS", "FAIL", "ERROR", "TIMEOUT", "ABORTED"}
    /\ running \in Threads \cup {NoThread}
    /\ curThread \in Threads \cup {NoThread}
    /\ stopping \in BOOLEAN
    /\ teardownLock \in {"none", "exec", "abort"}
    /\ abort \in BOOLEAN /\ fullAbort \in BOOLEAN
    /\ tstate \in [Threads -> ThreadStates]
    /\ result \in [Threads -> Outcomes \cup {"NONE"}]
    /\ killers \in [Threads -> SUBSET {"timeout", "abort"}]
    /\ pending \in [Threads -> BOOLEAN]
    /\ late \subseteq Slots
    /\ apc \in ApcLabels
    /\ target \in Threads \cup {NoThread}
    /\ force \in BOOLEAN
    /\ aborts \in 0..MaxAborts

Init ==
    /\ pc = "init" /\ slot = 0 /\ attempt = 1 /\ outcome = "NONE"
    /\ entered = FALSE /\ attempted = {}
    /\ phaseExec = FALSE /\ lastOutcome = "NONE" /\ diagFailed = FALSE
    /\ phases = <<>> /\ testOutcome = "NONE"
    /\ running = NoThread /\ curThread = NoThread
    /\ stopping = FALSE /\ teardownLock = "none"
    /\ abort = FALSE /\ fullAbort = FALSE
    /\ tstate = [t \in Threads |-> "new"]
    /\ result = [t \in Threads |-> "NONE"]
    /\ killers = [t \in Threads |-> {}]
    /\ pending = [t \in Threads |-> FALSE]
    /\ late = {}
    /\ apc = "idle" /\ target = NoThread /\ force = FALSE /\ aborts = 0

-----------------------------------------------------------------------------
(* KillableThread.kill and the phase thread's own steps (util/threads.py). *)

IsAlive(t) == tstate[t] \notin {"new", "dead"}
(* _is_thread_proc_running: the running lock is held exactly inside the
   with-block of run(). *)
ThreadProcRunning(t) == tstate[t] \in {"calling", "body"}

(* Started, and not past the phase function yet. *)
Executing(t) == tstate[t] \in {"started", "calling", "body"}

(* kill(), first statement: self._killed.set(). *)
SetKilled(t, who) == killers' = [killers EXCEPT ![t] = @ \cup {who}]

(* async_raise: PyThreadState_SetAsyncExc, unless the thread has died. *)
AsyncRaise(t) == pending' = [pending EXCEPT ![t] = @ \/ IsAlive(t)]

(* run(): take the running lock; a thread killed before this point never
   calls _thread_proc. *)
Begin(t) ==
    /\ tstate[t] = "started"
    /\ tstate' = [tstate EXCEPT ![t] = IF killers[t] # {} THEN "leaving" ELSE "calling"]
    /\ UNCHANGED <<execVars, sharedVars, flagVars, abortVars, result, killers, pending>>

(* PhaseDescriptor.__call__ reads test_state.test_api, which raises
   ValueError when no phase state is running. *)
Call(t) ==
    /\ tstate[t] = "calling"
    /\ tstate' = [tstate EXCEPT ![t] = IF running = NoThread THEN "caught" ELSE "body"]
    /\ UNCHANGED <<execVars, sharedVars, flagVars, abortVars, result, killers, pending>>

(* The phase function returns: _thread_proc stores the outcome. *)
Return(t) ==
    /\ tstate[t] = "body"
    /\ \E r \in BodyResults : result' = [result EXCEPT ![t] = r]
    /\ tstate' = [tstate EXCEPT ![t] = "leaving"]
    /\ UNCHANGED <<execVars, sharedVars, flagVars, abortVars, killers, pending>>

(* The phase function raises (or returns an invalid result): the running
   lock is released and run() enters its except clause. *)
Raise(t) ==
    /\ tstate[t] = "body"
    /\ tstate' = [tstate EXCEPT ![t] = "caught"]
    /\ UNCHANGED <<execVars, sharedVars, flagVars, abortVars, result, killers, pending>>

(* _thread_exception stores the exception as the outcome. *)
ThreadException(t) ==
    /\ tstate[t] = "caught"
    /\ result' = [result EXCEPT ![t] = "EXC"]
    /\ tstate' = [tstate EXCEPT ![t] = "leaving"]
    /\ UNCHANGED <<execVars, sharedVars, flagVars, abortVars, killers, pending>>

(* The phase function calls sys.exit(): SystemExit is no Exception, so no
   outcome is stored. *)
SysExit(t) ==
    /\ tstate[t] = "body"
    /\ tstate' = [tstate EXCEPT ![t] = "leaving"]
    /\ UNCHANGED <<execVars, sharedVars, flagVars, abortVars, result, killers, pending>>

(* The interpreter delivers the pending ThreadTerminationError, wherever the
   thread has got to by then. *)
Terminate(t) ==
    /\ pending[t]
    /\ tstate[t] \in {"calling", "body", "caught", "leaving"}
    /\ tstate' = [tstate EXCEPT ![t] = IF @ = "leaving" THEN "dead" ELSE "leaving"]
    /\ pending' = [pending EXCEPT ![t] = FALSE]
    /\ UNCHANGED <<execVars, sharedVars, flagVars, abortVars, result, killers>>

(* run()'s finally clause ends and the thread is gone. *)
End(t) ==
    /\ tstate[t] = "leaving"
    /\ tstate' = [tstate EXCEPT ![t] = "dead"]
    /\ UNCHANGED <<execVars, sharedVars, flagVars, abortVars, result, killers, pending>>

ThreadFramework(t) == Begin(t) \/ Call(t) \/ ThreadException(t) \/ End(t)
ThreadStep(t) == ThreadFramework(t) \/ Return(t) \/ Raise(t) \/ SysExit(t) \/ Terminate(t)

-----------------------------------------------------------------------------
(* The TestExecutor thread (core/test_executor.py, core/phase_executor.py). *)

This == <<slot, attempt>>
(* Mutant: off by one. *)
M_IsLastRepeat == attempt > RepeatLimit
(* execute_phase: is_last_repeat. *)
IsLastRepeat == attempt >= RepeatLimit

Goto(label) == pc' = label

(* _thread_proc: create TestState and PhaseExecutor, publish _phase_exec. *)
PublishPhaseExec ==
    /\ pc = "init"
    /\ phaseExec' = TRUE
    /\ Goto(IF HasStart THEN "startplugs" ELSE "plugs")
    /\ UNCHANGED <<walkVars, outcome, lastOutcome, diagFailed, phases, testOutcome,
                   sharedVars, flagVars, threadVars, abortVars>>

(* _initialize_plugs, for test_start's plugs and later for all plugs; an
   exception there ends the run early. *)
InitializePlugs ==
    /\ pc \in {"startplugs", "plugs"}
    /\ \/ /\ Goto(IF pc = "plugs" THEN "group" ELSE "repeat")
          /\ UNCHANGED lastOutcome
       \/ /\ Goto("teardown")
          /\ lastOutcome' = "EXC"
    /\ UNCHANGED <<walkVars, outcome, phaseExec, diagFailed, phases, testOutcome,
                   sharedVars, flagVars, threadVars, abortVars>>

(* The test's top-level sequence checks _abort before its only node, the
   group; _execute_phase_group then starts with its first slot. *)
EnterGroup ==
    /\ pc = "group"
    /\ IF abort THEN /\ Goto("diagnose")
                     /\ UNCHANGED <<slot, entered>>
                ELSE /\ Goto(IF Last = 0 THEN "diagnose"
                             ELSE IF Setup + Main = 0 THEN "acquire" ELSE "next")
                     /\ slot' = 1
                     /\ entered' = (Setup = 0)
    /\ UNCHANGED <<attempt, outcome, attempted, testVars, sharedVars, flagVars,
                   threadVars, abortVars>>

(* Where the executor goes after a node of the group, given whether the node
   was terminal: a terminal setup phase leaves the group, a terminal main
   phase goes to the teardown sequence, a teardown phase never stops it. *)
AfterSlot(terminal) ==
    \/ /\ slot \in SetupSlots /\ terminal
       /\ Goto("diagnose")
       /\ UNCHANGED <<slot, entered>>
    \/ /\ slot \in MainSlots /\ terminal
       /\ slot' = Setup + Main + 1
       /\ Goto(IF Teardown = 0 THEN "diagnose" ELSE "acquire")
       /\ UNCHANGED entered
    \/ /\ slot \in TeardownSlots
       /\ slot' = slot + 1
       /\ Goto(IF slot = Last THEN "release" ELSE "next")
       /\ UNCHANGED entered
    \/ /\ slot \in SetupSlots \cup MainSlots /\ ~terminal
       /\ slot' = slot + 1
       /\ entered' = (entered \/ slot = Setup)
       /\ Goto(IF slot < Setup + Main THEN "next"
               ELSE IF Teardown = 0 THEN "diagnose" ELSE "acquire")

(* _execute_abortable_sequence: one turn of its loop. *)
AbortableNode ==
    /\ pc = "next"
    /\ slot \in AbortableSlots
    /\ IF abort THEN AfterSlot(TRUE) ELSE Goto("repeat") /\ UNCHANGED <<slot, entered>>
    /\ attempt' = 1
    /\ UNCHANGED <<outcome, attempted, testVars, sharedVars, flagVars, threadVars,
                   abortVars>>

(* _execute_teardown_sequence: take the lock that keeps aborts away. *)
AcquireTeardownLock ==
    /\ pc = "acquire"
    /\ teardownLock = "none"
    /\ teardownLock' = "exec"
    /\ Goto("next")
    /\ UNCHANGED <<walkVars, outcome, testVars, running, curThread, stopping, late,
                   flagVars, threadVars, abortVars>>

(* Mutant: the loop checks _abort. *)
M_TeardownNode ==
    /\ pc = "next"
    /\ slot \in TeardownSlots
    /\ Goto(IF abort THEN "release" ELSE "repeat")
    /\ attempt' = 1
    /\ UNCHANGED <<slot, outcome, entered, attempted, testVars, sharedVars, flagVars,
                   threadVars, abortVars>>

(* _execute_teardown_sequence: one turn of its loop. *)
TeardownNode ==
    /\ pc = "next"
    /\ slot \in TeardownSlots
    /\ Goto(IF fullAbort THEN "release" ELSE "repeat")
    /\ attempt' = 1
    /\ UNCHANGED <<slot, outcome, entered, attempted, testVars, sharedVars, flagVars,
                   threadVars, abortVars>>

ReleaseTeardownLock ==
    /\ pc = "release"
    /\ teardownLock' = "none"
    /\ Goto("diagnose")
    /\ UNCHANGED <<walkVars, outcome, testVars, running, curThread, stopping, late,
                   flagVars, threadVars, abortVars>>

(* execute_phase: the condition of its while loop. *)
RepeatLoop ==
    /\ pc = "repeat"
    /\ IF stopping THEN Goto("finish") /\ outcome' = "TIMEOUT"
                   ELSE Goto("once") /\ UNCHANGED outcome
    /\ UNCHANGED <<walkVars, testVars, sharedVars, flagVars, threadVars, abortVars>>

(* _execute_phase_once: run_if declines or raises; no record is written. *)
RunIfDeclines ==
    /\ pc = "once"
    /\ slot \in RunIf
    /\ outcome' \in {"SKIP", "EXC"}
    /\ attempted' = attempted \cup {slot}
    /\ Goto("again")
    /\ UNCHANGED <<slot, attempt, entered, testVars, sharedVars, flagVars, threadVars,
                   abortVars>>

(* _execute_phase_once enters running_phase_context. *)
EnterPhaseContext ==
    /\ pc = "once"
    /\ running' = This
    /\ attempted' = attempted \cup {slot}
    /\ Goto("spawn")
    /\ UNCHANGED <<slot, attempt, outcome, entered, testVars, curThread, stopping,
                   teardownLock, late, flagVars, threadVars, abortVars>>

(* The critical section on _current_phase_thread_lock: cancelled when stop()
   is under way, otherwise the phase thread is started and published. *)
SpawnPhaseThread ==
    /\ pc = "spawn"
    /\ IF stopping
         THEN /\ outcome' = "KILLED"
              /\ Goto("record")
              /\ UNCHANGED <<curThread, tstate, late>>
         ELSE /\ curThread' = This
              /\ tstate' = [tstate EXCEPT ![This] = "started"]
              /\ late' = IF abort /\ slot \in AbortableSlots THEN late \cup {slot} ELSE late
              /\ Goto("join")
              /\ UNCHANGED outcome
    /\ UNCHANGED <<walkVars, testVars, running, stopping, teardownLock, flagVars, result,
                   killers, pending, abortVars>>

(* join_or_die: the join loop ends because the thread is dead, because it has
   been killed, or because the deadline has passed, which can be any time. *)
JoinEnds ==
    /\ pc = "join"
    /\ Goto("outcome")
    /\ UNCHANGED <<walkVars, outcome, testVars, sharedVars, flagVars, threadVars,
                   abortVars>>

(* join_or_die: is there a stored outcome? *)
ReadOutcome ==
    /\ pc = "outcome"
    /\ IF result[This] # "NONE" THEN outcome' = result[This] /\ Goto("clear")
                                ELSE Goto("alive") /\ UNCHANGED outcome
    /\ UNCHANGED <<walkVars, testVars, sharedVars, flagVars, threadVars, abortVars>>

(* join_or_die: a live thread has timed out, a dead one was killed. *)
CheckAlive ==
    /\ pc = "alive"
    /\ IF IsAlive(This) THEN outcome' = "TIMEOUT" /\ Goto("kset")
                        ELSE outcome' = "KILLED" /\ Goto("clear")
    /\ UNCHANGED <<walkVars, testVars, sharedVars, flagVars, threadVars, abortVars>>

(* join_or_die: kill() of the timed out thread, in its three steps. *)
TimeoutSetKilled ==
    /\ pc = "kset"
    /\ SetKilled(This, "timeout")
    /\ Goto("kprobe")
    /\ UNCHANGED <<walkVars, outcome, testVars, sharedVars, flagVars, tstate, result,
                   pending, abortVars>>

TimeoutProbe ==
    /\ pc = "kprobe"
    /\ Goto(IF ThreadProcRunning(This) THEN "kraise" ELSE "clear")
    /\ UNCHANGED <<walkVars, outcome, testVars, sharedVars, flagVars, threadVars,
                   abortVars>>

TimeoutRaise ==
    /\ pc = "kraise"
    /\ AsyncRaise(This)
    /\ Goto("clear")
    /\ UNCHANGED <<walkVars, outcome, testVars, sharedVars, flagVars, tstate, result,
                   killers, abortVars>>

(* A REPEAT on the last attempt becomes STOP; _current_phase_thread = None. *)
ClearCurrentThread ==
    /\ pc = "clear"
    /\ outcome' = IF outcome = "REPEAT" /\ IsLastRepeat THEN "STOP" ELSE outcome
    /\ curThread' = NoThread
    /\ Goto("record")
    /\ UNCHANGED <<walkVars, testVars, running, stopping, teardownLock, late, flagVars,
                   threadVars, abortVars>>

(* PhaseState.finalize: the phase result it leaves, the phase outcome it
   records, and whether a phase diagnoser issued a failure diagnosis.
   Measurements and diagnosers can fail a phase that returned CONTINUE, turn any
   non-terminal result into an exception, and, with stop_on_measurement_fail,
   turn CONTINUE into STOP. Diagnosers do not run on a killed, repeated or
   skipped phase. *)
Finalized(r) ==
    LET Diags == IF slot \in Diagnosed THEN BOOLEAN ELSE {FALSE}
        Final(res, out, diags) == [result : {res}, outcome : {out}, diag : diags]
        Broken == Final("EXC", "ERROR", Diags)
    IN  CASE r = "KILLED" -> Final(r, "ERROR", {FALSE})
          [] r \in {"EXC", "TIMEOUT", "STOP"} -> Final(r, "ERROR", Diags)
          [] r \in {"REPEAT", "SKIP"} -> Final(r, "SKIP", {FALSE}) \cup Broken
          [] r = "FAIL_AND_CONTINUE" -> Final(r, "FAIL", Diags) \cup Broken
          [] OTHER -> Final(r, "PASS", {FALSE}) \cup Final(r, "FAIL", Diags) \cup Broken
                      \cup (IF slot \in StopOnFail THEN Final("STOP", "ERROR", Diags) ELSE {})

(* Leaving running_phase_context: finalize, append the record, clear the
   running phase. *)
RecordPhase ==
    /\ pc = "record"
    /\ \E f \in Finalized(outcome) :
          /\ outcome' = f.result
          /\ phases' = Append(phases, [slot |-> slot, attempt |-> attempt,
                                       outcome |-> f.outcome])
          /\ diagFailed' = (diagFailed \/ f.diag)
    /\ running' = NoThread
    /\ Goto("again")
    /\ UNCHANGED <<walkVars, phaseExec, lastOutcome, testOutcome, curThread,
                   stopping, teardownLock, late, flagVars, threadVars, abortVars>>

(* _should_repeat without its repeat_on_measurement_fail branch. *)
RepeatRequested ==
    \/ outcome = "TIMEOUT" /\ slot \in RepeatOnTimeout
    \/ outcome = "REPEAT"
    \/ slot \in ForceRepeat
(* The repeat_on_measurement_fail branch looks at the LAST phase record. *)
ReadsLastRecord == ~RepeatRequested /\ slot \in RepeatOnFail
LastFailed == phases[Len(phases)].outcome = "FAIL"

(* An exception escapes the traversal: the with-statements release the
   teardown lock and _thread_proc's finally clause is next. *)
Crash ==
    /\ Goto("teardown")
    /\ teardownLock' = IF teardownLock = "exec" THEN "none" ELSE teardownLock

(* _should_repeat, and the attempt counter of execute_phase. *)
ShouldRepeat ==
    /\ pc = "again"
    /\ IF ReadsLastRecord /\ phases = <<>>
         THEN Crash /\ UNCHANGED <<attempt, phases>>
         ELSE LET repeat == RepeatRequested \/ (ReadsLastRecord /\ LastFailed)
              IN  /\ phases' = IF ReadsLastRecord /\ LastFailed /\ ~IsLastRepeat
                                 THEN [phases EXCEPT ![Len(phases)] = [@ EXCEPT !.outcome = "SKIP"]]
                                 ELSE phases
                  /\ attempt' = IF repeat /\ ~IsLastRepeat THEN attempt + 1 ELSE attempt
                  /\ Goto(IF repeat /\ ~IsLastRepeat THEN "repeat" ELSE "finish")
                  /\ UNCHANGED teardownLock
    /\ UNCHANGED <<slot, outcome, entered, attempted, phaseExec, lastOutcome, diagFailed,
                   testOutcome, running, curThread, stopping, late, flagVars,
                   threadVars, abortVars>>

(* _execute_test_start after execute_phase returned. *)
FinishTestStart ==
    /\ pc = "finish"
    /\ slot = 0
    /\ IF IsTerminal(outcome) THEN lastOutcome' = outcome /\ Goto("teardown")
                              ELSE Goto("plugs") /\ UNCHANGED lastOutcome
    /\ UNCHANGED <<walkVars, outcome, phaseExec, diagFailed, phases, testOutcome,
                   sharedVars, flagVars, threadVars, abortVars>>

(* Mutant: every outcome replaces the previous one. *)
M_KeepOutcome(final) == final
(* _execute_phase: only the first terminal outcome becomes _last_outcome. *)
KeepOutcome(final) ==
    IF IsTerminal(final) /\ lastOutcome = "NONE" THEN final ELSE lastOutcome

(* _execute_phase after execute_phase returned: stop_on_first_failure looks at
   the last record. *)
FinishPhase ==
    /\ pc = "finish"
    /\ slot # 0
    /\ IF StopOnFirstFailure /\ phases = <<>>
         THEN Crash /\ UNCHANGED <<slot, entered, outcome, lastOutcome>>
         ELSE LET final == IF StopOnFirstFailure /\ LastFailed THEN "STOP" ELSE outcome
              IN  /\ outcome' = final
                  /\ lastOutcome' = KeepOutcome(final)
                  /\ AfterSlot(IsTerminal(final))
                  /\ UNCHANGED teardownLock
    /\ UNCHANGED <<attempt, attempted, phaseExec, diagFailed, phases, testOutcome,
                   running, curThread, stopping, late, flagVars, threadVars,
                   abortVars>>

(* _execute_test_diagnosers: nothing, a failure diagnosis, or an exception. *)
ExecuteTestDiagnosers ==
    /\ pc = "diagnose"
    /\ \/ UNCHANGED <<diagFailed, lastOutcome>>
       \/ diagFailed' = TRUE /\ UNCHANGED lastOutcome
       \/ lastOutcome' = (IF lastOutcome = "NONE" THEN "EXC" ELSE lastOutcome)
          /\ UNCHANGED diagFailed
    /\ Goto("teardown")
    /\ UNCHANGED <<walkVars, outcome, phaseExec, phases, testOutcome, sharedVars,
                   flagVars, threadVars, abortVars>>

(* _execute_test_teardown: tear_down_plugs. *)
TearDownPlugs ==
    /\ pc = "teardown"
    /\ Goto("finalize")
    /\ UNCHANGED <<walkVars, outcome, testVars, sharedVars, flagVars, threadVars,
                   abortVars>>

(* TestState.finalize_normally. *)
NormalOutcome ==
    LET outs == {phases[i].outcome : i \in 1..Len(phases)}
    IN  IF phases = <<>> THEN "PASS"
        ELSE IF "FAIL" \in outs THEN "FAIL"
        ELSE IF outs = {"SKIP"} THEN "ERROR"
        ELSE IF diagFailed THEN "FAIL"
        ELSE "PASS"

(* TestState.finalize_from_phase_outcome; an exception is a FAIL when it is one
   of failure_exceptions. *)
TerminalOutcomes ==
    CASE lastOutcome = "EXC" -> IF FailureExceptions THEN {"FAIL", "ERROR"} ELSE {"ERROR"}
      [] lastOutcome = "KILLED" -> {"ERROR"}
      [] lastOutcome = "TIMEOUT" -> {"TIMEOUT"}
      [] OTHER -> {"FAIL"}

(* _execute_test_teardown: fix the test outcome, then _execution_finished is
   set. _outcome_is_failure_exception reads exc_val, which a
   ThreadTerminationError does not have: that exception leaves the finally
   clause before the event is set. *)
FinalizeTest ==
    /\ pc = "finalize"
    /\ \/ abort /\ testOutcome' = "ABORTED" /\ Goto("done")
       \/ /\ ~abort /\ IsTerminal(lastOutcome)
          /\ IF FailureExceptions /\ lastOutcome = "KILLED"
               THEN Goto("hung") /\ UNCHANGED testOutcome
               ELSE testOutcome' \in TerminalOutcomes /\ Goto("done")
       \/ /\ ~abort /\ ~IsTerminal(lastOutcome)
          /\ testOutcome' = NormalOutcome
          /\ Goto("done")
    /\ UNCHANGED <<walkVars, outcome, phaseExec, lastOutcome, diagFailed, phases,
                   sharedVars, flagVars, threadVars, abortVars>>

-----------------------------------------------------------------------------
(* The thread in Test.abort_from_sig_int -> TestExecutor.abort. Test._lock
   serialises these calls, so one aborting thread is enough. *)

(* abort(): the first call sets _abort, a later one sets _full_abort. *)
Abort ==
    /\ apc = "idle"
    /\ aborts < MaxAborts
    /\ aborts' = aborts + 1
    /\ force' = abort
    /\ abort' = TRUE
    /\ fullAbort' = (fullAbort \/ abort)
    /\ apc' = "read"
    /\ UNCHANGED <<execVars, sharedVars, threadVars, target>>

(* _stop_phase_executor: nothing to stop before _phase_exec is assigned. *)
ReadPhaseExec ==
    /\ apc = "read"
    /\ apc' = IF ~phaseExec THEN "idle" ELSE IF force THEN "stop" ELSE "try"
    /\ UNCHANGED <<execVars, sharedVars, flagVars, threadVars, target, force, aborts>>

(* Mutant: the result of acquire(False) is ignored. *)
M_TryTeardownLock ==
    /\ apc = "try"
    /\ apc' = "stop"
    /\ UNCHANGED <<execVars, sharedVars, flagVars, threadVars, target, force, aborts>>

(* _teardown_phases_lock.acquire(False). *)
TryTeardownLock ==
    /\ apc = "try"
    /\ IF teardownLock = "none" THEN teardownLock' = "abort" /\ apc' = "stop"
                                ELSE apc' = "idle" /\ UNCHANGED teardownLock
    /\ UNCHANGED <<execVars, running, curThread, stopping, late, flagVars, threadVars,
                   target, force, aborts>>

(* PhaseExecutor.stop(): _stopping.set(). *)
StopSetStopping ==
    /\ apc = "stop"
    /\ stopping' = TRUE
    /\ apc' = "target"
    /\ UNCHANGED <<execVars, running, curThread, teardownLock, late, flagVars, threadVars,
                   target, force, aborts>>

(* Mutant: stop() does not return early without a thread. *)
M_StopReadThread ==
    /\ apc = "target"
    /\ target' = curThread
    /\ apc' = IF curThread = NoThread THEN "wait" ELSE "alive"
    /\ UNCHANGED <<execVars, sharedVars, flagVars, threadVars, force, aborts>>

(* stop(): read _current_phase_thread under its lock, return if there is none. *)
StopReadThread ==
    /\ apc = "target"
    /\ target' = curThread
    /\ apc' = IF curThread = NoThread THEN "reset" ELSE "alive"
    /\ UNCHANGED <<execVars, sharedVars, flagVars, threadVars, force, aborts>>

StopCheckAlive ==
    /\ apc = "alive"
    /\ apc' = IF IsAlive(target) THEN "kset" ELSE "wait"
    /\ UNCHANGED <<execVars, sharedVars, flagVars, threadVars, target, force, aborts>>

StopSetKilled ==
    /\ apc = "kset"
    /\ SetKilled(target, "abort")
    /\ apc' = "kprobe"
    /\ UNCHANGED <<execVars, sharedVars, flagVars, tstate, result, pending, target, force,
                   aborts>>

StopProbe ==
    /\ apc = "kprobe"
    /\ apc' = IF ThreadProcRunning(target) THEN "kraise" ELSE "wait"
    /\ UNCHANGED <<execVars, sharedVars, flagVars, threadVars, target, force, aborts>>

StopRaise ==
    /\ apc = "kraise"
    /\ AsyncRaise(target)
    /\ apc' = "wait"
    /\ UNCHANGED <<execVars, sharedVars, flagVars, tstate, result, killers, target, force,
                   aborts>>

(* Mutant: the wait has no timeout. *)
M_StopRunningPhase ==
    /\ apc = "wait" /\ ~IsAlive(target)
    /\ running' = NoThread
    /\ apc' = "reset"
    /\ UNCHANGED <<execVars, curThread, stopping, teardownLock, late, flagVars,
                   threadVars, target, force, aborts>>

(* stop(): after waiting for the thread's death or for cancel_timeout_s, which
   can be any time, stop_running_phase(). *)
StopRunningPhase ==
    /\ apc = "wait"
    /\ running' = NoThread
    /\ apc' = "reset"
    /\ UNCHANGED <<execVars, curThread, stopping, teardownLock, late, flagVars,
                   threadVars, target, force, aborts>>

(* Mutant: _stopping is not cleared. *)
M_ResetStop ==
    /\ apc = "reset"
    /\ stopping' = stopping
    /\ apc' = IF force THEN "idle" ELSE "release"
    /\ UNCHANGED <<execVars, running, curThread, teardownLock, late, flagVars, threadVars,
                   target, force, aborts>>

(* Mutant: _abort is cleared together with _stopping. *)
M_ResetAbort ==
    /\ apc = "reset"
    /\ stopping' = FALSE
    /\ abort' = FALSE
    /\ apc' = IF force THEN "idle" ELSE "release"
    /\ UNCHANGED <<execVars, running, curThread, teardownLock, late, fullAbort, threadVars,
                   target, force, aborts>>

ResetStop ==
    /\ apc = "reset"
    /\ stopping' = FALSE
    /\ apc' = IF force THEN "idle" ELSE "release"
    /\ UNCHANGED <<execVars, running, curThread, teardownLock, late, flagVars, threadVars,
                   target, force, aborts>>

(* Mutant: the lock is not released. *)
M_AbortReleaseLock ==
    /\ apc = "release"
    /\ teardownLock' = teardownLock
    /\ apc' = "idle"
    /\ UNCHANGED <<execVars, running, curThread, stopping, late, flagVars, threadVars,
                   target, force, aborts>>

AbortReleaseLock ==
    /\ apc = "release"
    /\ teardownLock' = "none"
    /\ apc' = "idle"
    /\ UNCHANGED <<execVars, running, curThread, stopping, late, flagVars, threadVars,
                   target, force, aborts>>

-----------------------------------------------------------------------------
ExecutorStep ==
    \/ PublishPhaseExec \/ InitializePlugs \/ EnterGroup \/ AbortableNode
    \/ AcquireTeardownLock \/ TeardownNode \/ ReleaseTeardownLock
    \/ RepeatLoop \/ RunIfDeclines \/ EnterPhaseContext \/ SpawnPhaseThread
    \/ JoinEnds \/ ReadOutcome \/ CheckAlive
    \/ TimeoutSetKilled \/ TimeoutProbe \/ TimeoutRaise
    \/ ClearCurrentThread \/ RecordPhase \/ ShouldRepeat
    \/ FinishTestStart \/ FinishPhase
    \/ ExecuteTestDiagnosers \/ TearDownPlugs \/ FinalizeTest

(* The rest of an abort that has begun. *)
AbortStep ==
    \/ ReadPhaseExec \/ TryTeardownLock \/ StopSetStopping \/ StopReadThread
    \/ StopCheckAlive \/ StopSetKilled \/ StopProbe \/ StopRaise
    \/ StopRunningPhase \/ ResetStop \/ AbortReleaseLock

(* The executor thread has ended and no abort is under way. *)
Finished ==
    /\ pc \in {"done", "hung"} /\ apc = "idle"
    /\ UNCHANGED vars

Next ==
    \/ ExecutorStep
    \/ \E t \in Threads : ThreadStep(t)
    \/ Abort \/ AbortStep
    \/ Finished

(* The scheduler runs the executor and an abort that has begun; a phase
   thread is run too, but what a phase function does, and when an asynchronous
   exception reaches it, is up to the phase: no fairness for those. *)
Fairness ==
    /\ WF_vars(ExecutorStep)
    /\ WF_vars(AbortStep)
    /\ \A t \in Threads : WF_vars(ThreadFramework(t))

Spec == Init /\ [][Next]_vars /\ Fairness

-----------------------------------------------------------------------------
(* Properties. *)

(* A first Ctrl-C never kills a teardown phase: test_executor.py:305-307 "If
   locked, teardown phases are running, so do not cancel those". Only a forced
   second abort reaches one. *)
TeardownProtected ==
    \A t \in Threads : t[1] \in TeardownSlots /\ "abort" \in killers[t] => fullAbort

(* Nor does it make the executor skip or cancel one: while the executor holds
   the teardown lock, _stopping is set only by a forced abort. *)
TeardownNotCancelled == teardownLock = "exec" /\ stopping => fullAbort

(* A phase thread that is executing, and that nobody has killed, is the running
   phase: stop_running_phase() and the end of a phase context never pull the
   TestApi from under it, and so at most one such thread exists. *)
OwnTestApi ==
    \A t \in Threads :
        Executing(t) /\ killers[t] = {} => running = t

(* Once the setup phases are done, every teardown phase is attempted before the
   run ends, unless a second Ctrl-C says otherwise: event_sequence.md "the
   teardown phases are guaranteed to run". *)
TeardownRuns ==
    pc \in {"done", "hung"} /\ entered /\ ~fullAbort => TeardownSlots \subseteq attempted

(* An abort can be late for at most one phase: after it, no more than one
   test_start, setup or main phase is started. *)
AtMostOneLatePhase == \A s1, s2 \in late : s1 = s2

(* PASS is earned: every phase of the group was attempted, no record is a
   FAIL, and each phase's final attempt passed or was skipped. *)
PassIsEarned ==
    testOutcome = "PASS" =>
        /\ MainSlots \cup SetupSlots \cup TeardownSlots \subseteq attempted
        /\ \A i \in 1..Len(phases) :
              /\ phases[i].outcome # "FAIL"
              /\ phases[i].outcome = "ERROR" =>
                    \E j \in (i + 1)..Len(phases) : phases[j].slot = phases[i].slot

(* Every run ends, whatever its phases and Ctrl-C do, as long as phases do not
   block the framework itself. *)
Termination == <>(pc = "done")

(* Every abort returns to its caller. *)
AbortReturns == apc # "idle" ~> apc = "idle"

(* event_sequence.md: on Ctrl-C the thread of a test_start, setup or main phase
   "is attempted to be killed. No other phases of these kinds are run": once
   abort() has returned, no such phase executes without having been killed. *)
NoPhaseAfterAbort ==
    abort /\ apc = "idle" =>
        \A t \in Threads : t[1] \in AbortableSlots /\ Executing(t) => killers[t] # {}

(* test_state.py:480 "Any FAIL phase results in a test failure": a FAIL record
   may be turned into a SKIP only by a repetition of that same phase. *)
OnlyOwnFailForgiven ==
    [][\A i \in 1..Len(phases) : phases'[i] # phases[i] => phases[i].slot = slot]_vars
=============================================================================

---------------------------- MODULE TestLifecycle ----------------------------
(***************************************************************************)
(* Test.execute and the SIGINT handler on one Test object.                 *)
(* Sources: openhtf/core/test_descriptor.py (Test), and the parts of       *)
(* openhtf/core/test_executor.py that Test calls (wait, finalize, close).  *)
(*                                                                         *)
(* Python runs the handler in the main thread, between two steps of        *)
(* whatever the main thread is doing: while the handler is active the main *)
(* thread's own code stands still, and a KeyboardInterrupt that the        *)
(* handler raises comes out of that code.                                  *)
(***************************************************************************)
EXTENDS Integers, FiniteSets

CONSTANTS
    CallerSets,     \* the possible sets of threads that call execute()
    Main,           \* the main thread, a caller or not
    Callbacks,      \* number of output callbacks
    CanBreak,       \* TestState's constructor may raise
    MaxExecutes,    \* bound on the number of execute() calls
    MaxSigints      \* bound on the number of Ctrl-C

Callers == UNION CallerSets

ASSUME ConstantsAssumption ==
    /\ Callbacks \in Nat /\ MaxExecutes \in Nat /\ MaxSigints \in Nat
    /\ CanBreak \in BOOLEAN
    /\ IsFiniteSet(Callers) /\ "none" \notin Callers /\ "handler" \notin Callers

VARIABLES
    callers,        \* the threads that call execute() in this process
    pc,             \* where each caller is in execute()
    mine,           \* the execution a caller has started
    calls,          \* execute() calls so far
    lock,           \* owner of Test._lock
    executor,       \* Test._executor, 0 for None
    registered,     \* the test is in TEST_INSTANCES
    runs,           \* number of TestExecutors created
    state,          \* of each TestExecutor: new, running, finished, broken
    aborted,        \* TestExecutor._abort
    out,            \* output callbacks called for each execution
    hpc,            \* where handle_sig_int is, "none" when not active
    handledOnce,    \* HANDLED_SIGINT_ONCE
    sigints

callerVars == <<pc, mine, calls>>
testVars == <<executor, registered, runs, out>>
handlerVars == <<hpc, handledOnce, sigints>>
vars == <<callers, callerVars, lock, testVars, state, aborted, handlerVars>>

Runs == 1..MaxExecutes
Handler == "handler"
PcLabels == {"idle", "lock", "check", "create", "register", "start", "unlock", "try",
             "wait", "wait2", "finalize", "callbacks", "del", "close", "clear"}
Locked == {"check", "create", "register", "start", "unlock"}

TypeOK ==
    /\ callers \in CallerSets
    /\ pc \in [Callers -> PcLabels]
    /\ mine \in [Callers -> 0..MaxExecutes]
    /\ calls \in 0..MaxExecutes
    /\ lock \in Callers \cup {"none", Handler}
    /\ executor \in 0..MaxExecutes /\ registered \in BOOLEAN /\ runs \in 0..MaxExecutes
    /\ state \in [Runs -> {"new", "running", "finished", "broken"}]
    /\ aborted \in [Runs -> BOOLEAN]
    /\ out \in [Runs -> 0..Callbacks]
    /\ hpc \in {"none", "instances", "lock", "read", "abort", "unlock", "raise"}
    /\ handledOnce \in BOOLEAN
    /\ sigints \in 0..MaxSigints

Init ==
    /\ callers \in CallerSets
    /\ pc = [c \in Callers |-> "idle"] /\ mine = [c \in Callers |-> 0] /\ calls = 0
    /\ lock = "none" /\ executor = 0 /\ registered = FALSE /\ runs = 0
    /\ state = [r \in Runs |-> "new"] /\ aborted = [r \in Runs |-> FALSE]
    /\ out = [r \in Runs |-> 0]
    /\ hpc = "none" /\ handledOnce = FALSE /\ sigints = 0

-----------------------------------------------------------------------------
(* Test.execute, in thread c. *)

(* The thread's own code runs only while no handler runs on top of it. *)
At(c, label) == pc[c] = label /\ (c = Main => hpc = "none")
Goto(c, label) == pc' = [pc EXCEPT ![c] = label]

Execute(c) ==
    /\ c \in callers /\ At(c, "idle") /\ calls < MaxExecutes
    /\ calls' = calls + 1
    /\ Goto(c, "lock")
    /\ UNCHANGED <<mine, lock, testVars, state, aborted, handlerVars>>

AcquireLock(c) ==
    /\ At(c, "lock") /\ lock = "none"
    /\ lock' = c
    /\ Goto(c, "check")
    /\ UNCHANGED <<mine, calls, testVars, state, aborted, handlerVars>>

(* Mutant: the sanity check is missing. *)
M_CheckNotRunning(c) ==
    /\ At(c, "check")
    /\ Goto(c, "create")
    /\ UNCHANGED <<mine, calls, lock, testVars, state, aborted, handlerVars>>

(* Mutant: the lock is not released on the error. *)
M_CheckReleases(c) ==
    /\ At(c, "check")
    /\ Goto(c, IF executor # 0 THEN "idle" ELSE "create")
    /\ UNCHANGED <<mine, calls, lock, testVars, state, aborted, handlerVars>>

(* InvalidTestStateError when an executor exists. *)
CheckNotRunning(c) ==
    /\ At(c, "check")
    /\ IF executor # 0 THEN Goto(c, "idle") /\ lock' = "none"
                       ELSE Goto(c, "create") /\ UNCHANGED lock
    /\ UNCHANGED <<mine, calls, testVars, state, aborted, handlerVars>>

CreateExecutor(c) ==
    /\ At(c, "create")
    /\ runs' = runs + 1
    /\ executor' = runs + 1
    /\ mine' = [mine EXCEPT ![c] = runs + 1]
    /\ Goto(c, "register")
    /\ UNCHANGED <<calls, lock, registered, out, state, aborted, handlerVars>>

RegisterInstance(c) ==
    /\ At(c, "register")
    /\ registered' = TRUE
    /\ Goto(c, "start")
    /\ UNCHANGED <<mine, calls, lock, executor, runs, out, state, aborted, handlerVars>>

StartExecutor(c) ==
    /\ At(c, "start")
    /\ state' = [state EXCEPT ![mine[c]] = "running"]
    /\ Goto(c, "unlock")
    /\ UNCHANGED <<mine, calls, lock, testVars, aborted, handlerVars>>

ReleaseLock(c) ==
    /\ At(c, "unlock")
    /\ lock' = "none"
    /\ Goto(c, "try")
    /\ UNCHANGED <<mine, calls, testVars, state, aborted, handlerVars>>

EnterTry(c) ==
    /\ At(c, "try")
    /\ Goto(c, "wait")
    /\ UNCHANGED <<mine, calls, lock, testVars, state, aborted, handlerVars>>

(* wait(), in the try or again in the except clause: _execution_finished. *)
WaitReturns(c) ==
    /\ pc[c] \in {"wait", "wait2"} /\ At(c, pc[c])
    /\ state[mine[c]] = "finished"
    /\ Goto(c, "finalize")
    /\ UNCHANGED <<mine, calls, lock, testVars, state, aborted, handlerVars>>

(* finalize() raises TestStopError when there is no TestState; wait() does not
   return in that case. *)
Finalize(c) ==
    /\ At(c, "finalize")
    /\ Goto(c, IF state[mine[c]] = "broken" THEN "del" ELSE "callbacks")
    /\ UNCHANGED <<mine, calls, lock, testVars, state, aborted, handlerVars>>

(* Mutant: an exception in a callback ends the loop. *)
M_OutputCallback(c) ==
    /\ At(c, "callbacks")
    /\ \/ /\ out[mine[c]] < Callbacks
          /\ out' = [out EXCEPT ![mine[c]] = @ + 1]
          /\ \/ UNCHANGED pc
             \/ Goto(c, "del")
       \/ /\ out[mine[c]] = Callbacks
          /\ Goto(c, "del")
          /\ UNCHANGED out
    /\ UNCHANGED <<mine, calls, lock, executor, registered, runs, state, aborted, handlerVars>>

(* One output callback; its exceptions are logged and swallowed. *)
OutputCallback(c) ==
    /\ At(c, "callbacks")
    /\ IF out[mine[c]] < Callbacks
         THEN out' = [out EXCEPT ![mine[c]] = @ + 1] /\ UNCHANGED pc
         ELSE Goto(c, "del") /\ UNCHANGED out
    /\ UNCHANGED <<mine, calls, lock, executor, registered, runs, state, aborted, handlerVars>>

DelInstance(c) ==
    /\ At(c, "del")
    /\ registered' = FALSE
    /\ Goto(c, "close")
    /\ UNCHANGED <<mine, calls, lock, executor, runs, out, state, aborted, handlerVars>>

(* close() waits for the executor again. *)
CloseExecutor(c) ==
    /\ At(c, "close") /\ state[mine[c]] = "finished"
    /\ Goto(c, "clear")
    /\ UNCHANGED <<mine, calls, lock, testVars, state, aborted, handlerVars>>

(* self._executor = None, without the lock; execute() returns or re-raises. *)
ClearExecutor(c) ==
    /\ At(c, "clear")
    /\ executor' = 0
    /\ Goto(c, "idle")
    /\ UNCHANGED <<mine, calls, lock, registered, runs, out, state, aborted, handlerVars>>

(* The TestExecutor thread ends. It is broken when TestState cannot be built (a
   plug placeholder is left): _execute_test_teardown then raises too, in the
   finally clause, and _execution_finished is not set. *)
ExecutorEnds(r) ==
    /\ state[r] = "running"
    /\ \E end \in {"finished"} \cup (IF CanBreak THEN {"broken"} ELSE {}) :
         state' = [state EXCEPT ![r] = end]
    /\ UNCHANGED <<callerVars, lock, testVars, aborted, handlerVars>>

-----------------------------------------------------------------------------
(* handle_sig_int, in the main thread. *)

(* A KeyboardInterrupt comes out of the main thread's own code. *)
AfterInterrupt(label) ==
    CASE label = "wait" -> "wait2"
      [] label = "wait2" -> "finalize"
      [] label \in {"finalize", "callbacks"} -> "del"
      [] OTHER -> "idle"

InterruptMain(l) ==
    /\ pc' = IF Main \in callers THEN [pc EXCEPT ![Main] = AfterInterrupt(@)] ELSE pc
    /\ lock' = IF Main \in callers /\ pc[Main] \in Locked THEN "none" ELSE l

Sigint ==
    /\ hpc = "none" /\ sigints < MaxSigints
    /\ sigints' = sigints + 1
    /\ hpc' = "instances"
    /\ UNCHANGED <<callerVars, lock, testVars, state, aborted, handledOnce>>

(* No test instances: Python's default handler raises KeyboardInterrupt. *)
ReadInstances ==
    /\ hpc = "instances"
    /\ IF registered THEN hpc' = "lock" /\ UNCHANGED <<pc, lock>>
                     ELSE hpc' = "none" /\ InterruptMain(lock)
    /\ UNCHANGED <<mine, calls, testVars, state, aborted, handledOnce, sigints>>

(* Mutant: the handler does without the lock. *)
M_HandlerLock ==
    /\ hpc = "lock"
    /\ hpc' = "read"
    /\ UNCHANGED <<callerVars, lock, testVars, state, aborted, handledOnce, sigints>>

(* abort_from_sig_int: Test._lock is not reentrant. *)
HandlerLock ==
    /\ hpc = "lock" /\ lock = "none"
    /\ lock' = Handler
    /\ hpc' = "read"
    /\ UNCHANGED <<callerVars, testVars, state, aborted, handledOnce, sigints>>

HandlerReadExecutor ==
    /\ hpc = "read"
    /\ hpc' = IF executor = 0 THEN "unlock" ELSE "abort"
    /\ UNCHANGED <<callerVars, lock, testVars, state, aborted, handledOnce, sigints>>

(* self._executor is read again for abort(): an AttributeError, which leaves the
   handler, when execute() has cleared it meanwhile. *)
HandlerAbort ==
    /\ hpc = "abort"
    /\ IF executor = 0
         THEN /\ hpc' = "none"
              /\ InterruptMain("none")
              /\ UNCHANGED aborted
         ELSE /\ aborted' = [aborted EXCEPT ![executor] = TRUE]
              /\ hpc' = "unlock"
              /\ UNCHANGED <<pc, lock>>
    /\ UNCHANGED <<mine, calls, testVars, state, handledOnce, sigints>>

(* Mutant: the lock is kept. *)
M_HandlerUnlock ==
    /\ hpc = "unlock"
    /\ hpc' = "raise"
    /\ UNCHANGED <<callerVars, lock, testVars, state, aborted, handledOnce, sigints>>

HandlerUnlock ==
    /\ hpc = "unlock"
    /\ lock' = "none"
    /\ hpc' = "raise"
    /\ UNCHANGED <<callerVars, testVars, state, aborted, handledOnce, sigints>>

(* Mutant: every SIGINT raises. *)
M_HandlerRaise ==
    /\ hpc = "raise"
    /\ hpc' = "none"
    /\ handledOnce' = TRUE
    /\ InterruptMain(lock)
    /\ UNCHANGED <<mine, calls, testVars, state, aborted, sigints>>

(* Only the first SIGINT of the process raises KeyboardInterrupt. *)
HandlerRaise ==
    /\ hpc = "raise"
    /\ hpc' = "none"
    /\ handledOnce' = TRUE
    /\ IF handledOnce THEN UNCHANGED <<pc, lock>> ELSE InterruptMain(lock)
    /\ UNCHANGED <<mine, calls, testVars, state, aborted, sigints>>

-----------------------------------------------------------------------------
CallerStep(c) ==
    \/ AcquireLock(c) \/ CheckNotRunning(c) \/ CreateExecutor(c) \/ RegisterInstance(c)
    \/ StartExecutor(c) \/ ReleaseLock(c) \/ EnterTry(c) \/ WaitReturns(c) \/ Finalize(c)
    \/ OutputCallback(c) \/ DelInstance(c) \/ CloseExecutor(c) \/ ClearExecutor(c)

HandlerStep ==
    \/ ReadInstances \/ HandlerLock \/ HandlerReadExecutor \/ HandlerAbort \/ HandlerUnlock
    \/ HandlerRaise

(* Everything is over. *)
Done ==
    /\ \A c \in Callers : pc[c] = "idle"
    /\ calls = MaxExecutes /\ hpc = "none" /\ \A r \in Runs : state[r] # "running"
    /\ UNCHANGED vars

Next ==
    /\ \/ \E c \in Callers : Execute(c) \/ CallerStep(c)
       \/ \E r \in Runs : ExecutorEnds(r)
       \/ Sigint \/ HandlerStep
       \/ Done
    /\ UNCHANGED callers

(* Threads are scheduled, and every test ends (PhaseExecutor's Termination). *)
Fairness ==
    /\ \A c \in Callers : WF_vars(CallerStep(c) /\ UNCHANGED callers)
    /\ WF_vars(HandlerStep /\ UNCHANGED callers)
    /\ \A r \in Runs : WF_vars(ExecutorEnds(r) /\ UNCHANGED callers)

Spec == Init /\ [][Next]_vars /\ Fairness

-----------------------------------------------------------------------------
(* Properties. *)

(* execute(): "only one thread is successfully executing the test". *)
OneExecutor == Cardinality({r \in Runs : state[r] = "running"}) <= 1

AllIdle == hpc = "none" /\ \A c \in Callers : pc[c] = "idle"
Broken == \E r \in Runs : state[r] = "broken"

(* The main thread does not execute the test itself, so that no exception of the
   handler comes out of execute(). *)
Apart == Main \notin callers

(* When no execute() is under way the Test can be executed again: its
   InvalidTestStateError is for a test that "is already being executed". *)
Reusable == executor = 0 /\ ~registered

(* Every execution that has ended has gone to every output callback, once:
   event_sequence.md ends with "Output callbacks are called". *)
OutputComplete == \A r \in Runs : state[r] = "finished" => out[r] = Callbacks

(* What execute() leaves behind when the handler cannot interrupt it: a Test that
   can be executed again and whose runs are all output. *)
RunsComplete == Apart /\ AllIdle => Reusable /\ OutputComplete

(* execute() returns or raises: it "starts the framework and executes the given
   test", and no part of it waits for what cannot come, an executor that broke
   excepted. *)
ExecuteReturns ==
    \A c \in Callers : Apart /\ pc[c] # "idle" ~> pc[c] = "idle" \/ Broken

(* A Ctrl-C is dealt with: the handler does not wait for ever. *)
SigintHandled == Apart /\ hpc # "none" ~> hpc = "none"

(* The same when the main thread is in execute(). It fails: the handler waits for
   Test._lock, which its own thread may hold. *)
SigintAlwaysHandled == hpc # "none" ~> hpc = "none"

(* abort_from_sig_int misses no test: when it is about to release the lock, the
   executor that runs at that moment has been aborted, also one that a thread
   created or replaced while the handler was at work. *)
SigintAborts ==
    hpc = "unlock" /\ executor # 0 /\ state[executor] = "running" => aborted[executor]

(* "Waiting for clean interrupted exit": a KeyboardInterrupt that hits execute()
   in its wait costs no output, although more SIGINTs may follow; handle_sig_int
   says that they do not raise "to ensure that the tests are cleaned up". The
   exception is an executor that broke, whose wait() does not return. *)
InterruptedRunIsOutput ==
    \A r \in Runs, c \in Callers :
        (pc[c] = "wait2" /\ mine[c] = r) ~> (out[r] = Callbacks \/ state[r] = "broken")

=============================================================================

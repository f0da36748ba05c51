---- MODULE PlugManager ----
(***************************************************************************)
(* The life of a test's plugs: PlugManager driven by the test executor     *)
(* (the start trigger's plugs first, the others after it, all of them torn *)
(* down at the end, each in a killable thread of its own), composed with   *)
(* the UserInput plug, the phase threads that prompt and the station       *)
(* server's PlugsHandler, which calls respond() on a plug it looked up.    *)
(***************************************************************************)
EXTENDS UserInput, SequencesExt

CONSTANTS
  PlugTypes,     \* the other plug types of the test
  UI,            \* UserInput
  TriggerPlugs   \* plug types of the start trigger

ASSUME PlugAssumption ==
  /\ UI \notin PlugTypes /\ TriggerPlugs \subseteq PlugTypes \cup {UI}
  /\ MaxPrompts \in Nat /\ None \notin Ids
  /\ Len(Phases) \in Nat
  /\ \A i, j \in 1..Len(Phases) : Phases[i] = Phases[j] => i = j

VARIABLES
  ex,       \* where the executor thread is
  todo,     \* plug types initialize_plugs has still to look at
  plugs,    \* _plugs_by_type: the types that have an instance, in order
  inst,     \* inst[t]: "none", "live" or "torn"
  k,        \* tear_down_plugs: the plug it is at
  thread,   \* thread[t]: the _PlugTearDownThread of t
  downs,    \* history: calls of t's tearDown()
  ph,       \* phases started
  body,     \* body[p]: "off", "run" or "ended"
  killed    \* phase threads that were told to die

managerVars == <<ex, todo, plugs, inst, k, thread, downs, ph, body, killed>>
vars == <<inputVars, managerVars>>

Types == PlugTypes \cup {UI}
Registered == ToSet(plugs)

Init ==
  /\ InputInit
  /\ \/ ex = "init_trigger" /\ todo = TriggerPlugs
     \/ ex = "init" /\ todo = Types
  /\ plugs = <<>> /\ k = 0 /\ ph = 0 /\ killed = {}
  /\ inst = [t \in Types |-> "none"]
  /\ thread = [t \in Types |-> "off"]
  /\ downs = [t \in Types |-> 0]
  /\ body = [p \in PhaseIds |-> "off"]

---------------------------------------------------------------------------
(* initialize_plugs.                                                       *)

InitializePlug(t) ==
  /\ ex \in {"init_trigger", "init"} /\ t \in todo
  /\ todo' = todo \ {t}
  /\ IF t \in Registered THEN UNCHANGED <<plugs, inst>>
     ELSE /\ inst' = [inst EXCEPT ![t] = "live"]
          /\ plugs' = Append(plugs, t)
  /\ UNCHANGED <<inputVars, ex, k, thread, downs, ph, body, killed>>

\* Mutant: the plugs made so far are forgotten.
M_ConstructorRaises(t) ==
  /\ ex \in {"init_trigger", "init"} /\ t \in todo /\ t \notin Registered
  /\ todo' = {} /\ plugs' = <<>>
  /\ ex' = "clean_up" /\ k' = 1
  /\ UNCHANGED <<inputVars, inst, thread, downs, ph, body, killed>>

\* The constructor raises: the plugs made so far are torn down, and the
\* executor, told of the error, goes to its own tear down.
ConstructorRaises(t) ==
  /\ ex \in {"init_trigger", "init"} /\ t \in todo /\ t \notin Registered
  /\ todo' = {}
  /\ ex' = "clean_up" /\ k' = 1
  /\ UNCHANGED <<inputVars, plugs, inst, thread, downs, ph, body, killed>>

AllInitialized ==
  /\ ex \in {"init_trigger", "init"} /\ todo = {}
  /\ ex' = IF ex = "init_trigger" THEN "trigger" ELSE "phases"
  /\ UNCHANGED <<inputVars, todo, plugs, inst, k, thread, downs, ph, body, killed>>

---------------------------------------------------------------------------
(* Phases.                                                                 *)

Current == Phases[ph]
Running == ph > 0 /\ body[Current] = "run" /\ Current \notin killed

StartPhase ==
  /\ ex \in {"trigger", "phases"} /\ ~Running /\ ph < Len(Phases)
  /\ ph' = ph + 1
  /\ body' = [body EXCEPT ![Phases[ph + 1]] = "run"]
  /\ ex' = IF ex = "trigger" THEN "in_trigger" ELSE ex
  /\ UNCHANGED <<inputVars, todo, plugs, inst, k, thread, downs, killed>>

\* The start trigger is over: with a terminal outcome the test is, too.
TriggerOver ==
  /\ ex = "in_trigger" /\ ~Running
  /\ \/ ex' = "init" /\ todo' = Types /\ UNCHANGED k
     \/ ex' = "tear_down" /\ k' = 1 /\ UNCHANGED todo
  /\ UNCHANGED <<inputVars, plugs, inst, thread, downs, ph, body, killed>>

PhasesOver ==
  /\ ex = "phases" /\ ~Running
  /\ ex' = "tear_down" /\ k' = 1
  /\ UNCHANGED <<inputVars, todo, plugs, inst, thread, downs, ph, body, killed>>

\* A phase that hits its timeout, or the test's abort, is killed.
KillPhase ==
  /\ ex \in {"in_trigger", "phases"} /\ Running
  /\ killed' = killed \cup {Current}
  /\ UNCHANGED <<inputVars, ex, todo, plugs, inst, k, thread, downs, ph, body>>

\* A phase's body ends by itself or by the exception that kills it; a thread
\* that waits for the condition gets the exception when the wait returns.
PhaseEnds(p) ==
  /\ body[p] = "run"
  /\ at[p] = "out" \/ (p \in killed /\ at[p] # "waiting")
  /\ body' = [body EXCEPT ![p] = "ended"]
  /\ at' = [at EXCEPT ![p] = "out"]
  /\ UNCHANGED <<prompt, response, mine, count, got, answered, callers,
                 observer, seen, event, ex, todo, plugs, inst, k, thread, downs, ph,
                 killed>>

\* A killed thread starts no other prompt: the exception comes first.
Prompts(p) ==
  /\ body[p] = "run"
  /\ (p \notin killed /\ StartPrompt(p)) \/ WaitForPrompt(p) \/ WaitTimesOut(p) \/ WakeUp(p)
  /\ UNCHANGED managerVars

---------------------------------------------------------------------------
(* tear_down_plugs.                                                        *)

StartTearDown ==
  /\ ex \in {"clean_up", "tear_down"} /\ k <= Len(plugs)
  /\ thread[plugs[k]] = "off"
  /\ thread' = [thread EXCEPT ![plugs[k]] = "running"]
  /\ downs' = [downs EXCEPT ![plugs[k]] = @ + 1]
  /\ UNCHANGED <<inputVars, ex, todo, plugs, inst, k, ph, body, killed>>

\* _PlugTearDownThread: tearDown() returns or raises, at any time or never; a
\* killed one may still come to its end.
TearDownRuns(t) ==
  /\ thread[t] \in {"running", "killed"}
  /\ thread' = [thread EXCEPT ![t] = "ended"]
  /\ inst' = [inst EXCEPT ![t] = "torn"]
  /\ IF t = UI
       THEN /\ RemovesPrompt
            /\ UNCHANGED <<response, at, mine, count, got, answered, callers, observer, seen>>
       ELSE UNCHANGED inputVars
  /\ UNCHANGED <<ex, todo, plugs, k, downs, ph, body, killed>>

\* Mutant: a tear down that takes too long is waited for.
M_JoinReturns ==
  /\ ex \in {"clean_up", "tear_down"} /\ k <= Len(plugs)
  /\ thread[plugs[k]] = "ended"
  /\ k' = k + 1 /\ UNCHANGED thread
  /\ UNCHANGED <<inputVars, ex, todo, plugs, inst, downs, ph, body, killed>>

\* join() returns because the thread ended, or by CONF.plug_teardown_timeout_s.
JoinReturns ==
  /\ ex \in {"clean_up", "tear_down"} /\ k <= Len(plugs)
  /\ thread[plugs[k]] # "off"
  /\ k' = k + 1
  /\ thread' = [thread EXCEPT ![plugs[k]] = IF @ = "ended" THEN @ ELSE "killed"]
  /\ UNCHANGED <<inputVars, ex, todo, plugs, inst, downs, ph, body, killed>>

\* The dictionaries are cleared.  After a failed initialisation the executor's
\* own tear_down_plugs is still to come.
TornDown ==
  /\ ex \in {"clean_up", "tear_down"} /\ k > Len(plugs)
  /\ plugs' = <<>>
  /\ ex' = IF ex = "clean_up" THEN "tear_down" ELSE "done"
  /\ k' = 1
  /\ UNCHANGED <<inputVars, todo, inst, thread, downs, ph, body, killed>>

---------------------------------------------------------------------------
(* PlugsHandler.post: the plug is looked up; respond() is called later.    *)

PostLooksUp(id) ==
  /\ UI \in Registered /\ id \notin callers
  /\ id \in {mine[p] : p \in PhaseIds}
  /\ callers' = callers \cup {id}
  /\ UNCHANGED <<prompt, response, at, mine, count, got, answered, observer, seen, event,
                 managerVars>>

---------------------------------------------------------------------------
Executor ==
  \/ \E t \in Types : InitializePlug(t) \/ ConstructorRaises(t)
  \/ AllInitialized \/ StartPhase \/ TriggerOver \/ PhasesOver \/ KillPhase
  \/ StartTearDown \/ JoinReturns \/ TornDown

Next ==
  \/ Executor
  \/ \E t \in Types : TearDownRuns(t)
  \/ \E p \in PhaseIds : Prompts(p) \/ PhaseEnds(p)
  \/ \E id \in Ids : PostLooksUp(id)
  \/ (Answers \/ Observes) /\ UNCHANGED managerVars

\* The executor goes on by itself: a phase and a tear down have timeouts.
Spec == Init /\ [][Next]_vars /\ WF_vars(Executor)

---------------------------------------------------------------------------
TypeOK ==
  /\ prompt \in Ids \cup {None} /\ response \in Ids \cup {None}
  /\ at \in [PhaseIds -> {"out", "started", "waiting", "woken"}]
  /\ got \in [PhaseIds -> Ids \cup {Nothing, Multiple, Unanswered}]
  /\ observer \in {"idle", "registered", "waiting"} /\ event \in BOOLEAN
  /\ inst \in [Types -> {"none", "live", "torn"}]
  /\ thread \in [Types -> {"off", "running", "killed", "ended"}]
  /\ Registered \subseteq Types /\ IsInjective(plugs)

(* prompt(): a phase that was not killed never gets the answer to another  *)
(* prompt, whatever late or repeated answers the frontend and the console  *)
(* send and whatever a killed phase left behind.                           *)
AnswerIsOwn ==
  \A p \in PhaseIds \ killed : got[p] \in Ids => got[p] = mine[p]

(* prompt(): an answer that respond() accepts before prompt() has returned *)
(* is returned, also when it comes before the wait or with its timeout.    *)
AnswerReturned ==
  \A p \in PhaseIds \ killed :
    at[p] = "out" /\ mine[p] \in answered => got[p] \in {mine[p], Multiple}

(* wait_for_prompt waits once, without a loop: a phase that was not killed *)
(* sleeps only while its own prompt is on display and can be answered.     *)
WaitersAnswerable ==
  \A p \in PhaseIds \ killed : at[p] = "waiting" => prompt = mine[p]

(* prompt() as its caller sees it: the answer to its own prompt, if there  *)
(* is one, and no wait that nobody can end.                                *)
PromptsAnswered == AnswerIsOwn /\ AnswerReturned /\ WaitersAnswerable

(* tear_down_plugs: at the end every plug that was made had tearDown()     *)
(* called, and no plug has it called twice, also when a constructor failed *)
(* half-way or a tear down had to be killed.                               *)
TornDownOnce ==
  \A t \in Types : /\ downs[t] <= 1
                   /\ ex = "done" => (downs[t] = 1) = (inst[t] # "none")

(* provide_plugs: the plugs of a phase that was not killed are alive.      *)
PhasePlugsLive ==
  \A p \in PhaseIds \ killed : body[p] = "run" =>
    \A t \in (IF ex = "in_trigger" THEN TriggerPlugs ELSE Types) :
      inst[t] = "live" /\ t \in Registered

(* UserInput.tearDown: no prompt is on display after the tear down, nor    *)
(* comes back later, although killed phases may still be waiting.          *)
NoPromptLeft == inst[UI] = "torn" => prompt = None

(* The life of a plug: alive while a phase uses it, torn down once, and    *)
(* nothing of it left afterwards.                                          *)
PlugLife == PhasePlugsLive /\ TornDownOnce /\ NoPromptLeft

(* asdict_with_event: while the event of a waiting observer is not set the *)
(* prompt is the one it has read.                                          *)
UpdateNotMissed == observer = "waiting" /\ ~event => prompt = seen

(* The executor gets to its end although phases and tear downs may hang.   *)
TestEnds == <>(ex = "done")
====

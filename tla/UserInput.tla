---- MODULE UserInput ----
(***************************************************************************)
(* The UserInput plug: one prompt at a time, shown to the frontend and on  *)
(* the callers, waited for by the phase thread that started it and         *)
(* answered by either.  Every method runs under the plug's condition, so   *)
(* an action is what one thread does between taking and releasing it.      *)
(* Callers of PlugManager.wait_for_plug_update are one observer.           *)
(***************************************************************************)
EXTENDS Naturals, FiniteSets, Sequences

CONSTANTS
  Phases,      \* phase threads, in the order in which their phases run
  MaxPrompts,  \* prompts a phase starts
  None

VARIABLES
  prompt,    \* _prompt: the id of the prompt on display, or None
  response,  \* _response: the id of the prompt it was given for, or None
  at,        \* at[p]: where thread p is in prompt()
  mine,      \* mine[p]: the id start_prompt() last returned to p, or None
  count,     \* count[p]: prompts p started or tried to
  got,       \* got[p]: what prompt() gave p: an id stands for its answer
  answered,  \* history: ids answered before their prompt() returned
  callers,   \* ids for which a ConsolePrompt or a request may call respond()
  observer,  \* where the caller of wait_for_plug_update is
  seen,      \* the state the observer read last
  event      \* its update event is set

inputVars == <<prompt, response, at, mine, count, got, answered, callers,
               observer, seen, event>>

PhaseIds == {Phases[k] : k \in 1..Len(Phases)}
Ids == PhaseIds \X (1..MaxPrompts)
Nothing == <<"none", 0>>          \* prompt() has not ended
Multiple == <<"multiple", 0>>     \* MultiplePromptsError
Unanswered == <<"unanswered", 0>> \* PromptUnansweredError

InputInit ==
  /\ prompt = None /\ response = None
  /\ at = [p \in PhaseIds |-> "out"]
  /\ mine = [p \in PhaseIds |-> None]
  /\ count = [p \in PhaseIds |-> 0]
  /\ got = [p \in PhaseIds |-> Nothing]
  /\ answered = {} /\ callers = {}
  /\ observer = "idle" /\ seen = None /\ event = FALSE

\* SubscribableStateMixin.notify_update.
NotifyUpdate == event' = (event \/ observer \in {"registered", "waiting"})

\* start_prompt; with a terminal on stdin a ConsolePrompt is started as well.
StartPrompt(p) ==
  /\ at[p] = "out" /\ count[p] < MaxPrompts
  /\ count' = [count EXCEPT ![p] = @ + 1]
  /\ IF prompt # None
       THEN /\ got' = [got EXCEPT ![p] = Multiple]
            /\ UNCHANGED <<prompt, response, at, mine, callers, event>>
       ELSE LET id == <<p, count[p] + 1>> IN
            /\ prompt' = id /\ response' = None
            /\ at' = [at EXCEPT ![p] = "started"]
            /\ mine' = [mine EXCEPT ![p] = id]
            /\ got' = [got EXCEPT ![p] = Nothing]
            /\ callers' \in {callers, callers \cup {id}}
            /\ NotifyUpdate
  /\ UNCHANGED <<answered, observer, seen>>

\* Mutant: a wait that ended by its timeout is taken to be unanswered.
M_Returns(p) ==
  /\ at' = [at EXCEPT ![p] = "out"]
  /\ got' = [got EXCEPT ![p] = IF response = None \/ at[p] = "woken" THEN Unanswered
                               ELSE response]

\* The end of wait_for_prompt.
Returns(p) ==
  /\ at' = [at EXCEPT ![p] = "out"]
  /\ got' = [got EXCEPT ![p] = IF response = None THEN Unanswered ELSE response]

\* wait_for_prompt takes the condition; an answer may have come already.
WaitForPrompt(p) ==
  /\ at[p] = "started"
  /\ IF prompt # None THEN at' = [at EXCEPT ![p] = "waiting"] /\ UNCHANGED got
     ELSE Returns(p)
  /\ UNCHANGED <<prompt, response, mine, count, answered, callers,
                 observer, seen, event>>

\* The wait ends by its timeout; the prompt stays on display.
WaitTimesOut(p) ==
  /\ at[p] = "waiting"
  /\ at' = [at EXCEPT ![p] = "woken"]
  /\ UNCHANGED <<prompt, response, mine, count, got, answered, callers,
                 observer, seen, event>>

\* A woken waiter has the condition again.
WakeUp(p) ==
  /\ at[p] = "woken" /\ Returns(p)
  /\ UNCHANGED <<prompt, response, mine, count, answered, callers,
                 observer, seen, event>>

\* remove_prompt tells the console prompt to stop, and wakes no waiter.
RemovesPrompt ==
  /\ prompt' = None
  /\ NotifyUpdate

InTime(id) == IF at[id[1]] = "out" THEN answered ELSE answered \cup {id}

\* respond: an answer to a prompt that is not on display is dropped.
Respond(id) ==
  IF prompt # id
    THEN UNCHANGED <<prompt, response, at, answered, event>>
    ELSE /\ response' = id /\ answered' = InTime(id)
         /\ RemovesPrompt
         /\ at' = [p \in PhaseIds |-> IF at[p] = "waiting" THEN "woken" ELSE at[p]]

\* ConsolePrompt.run has read a line, maybe after it was told to stop, or
\* PlugsHandler.post calls the method of the plug it has looked up.
CallerAnswers(id) ==
  /\ id \in callers /\ callers' = callers \ {id}
  /\ Respond(id)
  /\ UNCHANGED <<mine, count, got, observer, seen>>

\* It sees that it has to stop, or reads the end of the input.
ConsoleEnds(id) ==
  /\ id \in callers /\ callers' = callers \ {id}
  /\ UNCHANGED <<prompt, response, at, mine, count, got, answered,
                 observer, seen, event>>

Answers == \E id \in callers : CallerAnswers(id) \/ ConsoleEnds(id)

\* wait_for_plug_update: asdict_with_event adds the event and then reads the
\* state; without a change the observer waits for the event, and its timeout.
ObserverRegisters ==
  /\ observer = "idle"
  /\ observer' = "registered" /\ event' = FALSE
  /\ UNCHANGED <<prompt, response, at, mine, count, got, answered, callers, seen>>

\* Mutant: the state is not read again once the event is registered.
M_ObserverReads ==
  /\ observer = "registered"
  /\ observer' = "waiting" /\ UNCHANGED seen
  /\ UNCHANGED <<prompt, response, at, mine, count, got, answered, callers, event>>

ObserverReads ==
  /\ observer = "registered"
  /\ observer' = IF prompt # seen THEN "idle" ELSE "waiting"
  /\ seen' = prompt
  /\ UNCHANGED <<prompt, response, at, mine, count, got, answered, callers, event>>

ObserverReturns ==
  /\ observer = "waiting" /\ event
  /\ observer' = "idle" /\ seen' = prompt
  /\ UNCHANGED <<prompt, response, at, mine, count, got, answered, callers, event>>

ObserverTimesOut ==
  /\ observer = "waiting"
  /\ observer' = "idle"
  /\ UNCHANGED <<prompt, response, at, mine, count, got, answered, callers,
                 seen, event>>

Observes ==
  \/ ObserverRegisters \/ ObserverReads \/ ObserverReturns \/ ObserverTimesOut
====

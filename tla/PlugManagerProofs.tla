---- MODULE PlugManagerProofs ----
(***************************************************************************)
(* The plugs of a test and the UserInput plug, for any plug types, phases  *)
(* and numbers of prompts: every prompt gets its own answer, plugs live as *)
(* long as they are used and are torn down once, and an observer of a plug *)
(* misses no update.                                                       *)
(***************************************************************************)
EXTENDS PlugManager, TLAPS

LEMMA IdFacts ==
  /\ None \notin Ids /\ Nothing \notin Ids /\ Multiple \notin Ids /\ Unanswered \notin Ids
  /\ \A p \in PhaseIds : \A n \in 1..MaxPrompts : <<p, n>> \in Ids
  /\ \A id \in Ids : id[1] \in PhaseIds /\ id[2] \in 1..MaxPrompts /\ id = <<id[1], id[2]>>
BY PlugAssumption DEF Ids, Nothing, Multiple, Unanswered

LEMMA PhaseFacts ==
  /\ \A i \in 1..Len(Phases) : Phases[i] \in PhaseIds
  /\ \A i, j \in 1..Len(Phases) : Phases[i] = Phases[j] => i = j
  /\ Len(Phases) \in Nat
BY PlugAssumption DEF PhaseIds

InputType ==
  /\ prompt \in Ids \cup {None} /\ response \in Ids \cup {None} /\ seen \in Ids \cup {None}
  /\ at \in [PhaseIds -> {"out", "started", "waiting", "woken"}]
  /\ mine \in [PhaseIds -> Ids \cup {None}]
  /\ count \in [PhaseIds -> 0..MaxPrompts]
  /\ got \in [PhaseIds -> Ids \cup {Nothing, Multiple, Unanswered}]
  /\ answered \subseteq Ids /\ callers \subseteq Ids
  /\ observer \in {"idle", "registered", "waiting"} /\ event \in BOOLEAN

ManagerType ==
  /\ ex \in {"init_trigger", "trigger", "in_trigger", "init", "phases", "clean_up",
             "tear_down", "done"}
  /\ todo \subseteq Types /\ plugs \in Seq(Types) /\ k \in Nat
  /\ ex \in {"clean_up", "tear_down"} => k >= 1
  /\ inst \in [Types -> {"none", "live", "torn"}]
  /\ thread \in [Types -> {"off", "running", "killed", "ended"}]
  /\ downs \in [Types -> Nat]
  /\ ph \in 0..Len(Phases) /\ body \in [PhaseIds -> {"off", "run", "ended"}]
  /\ killed \subseteq PhaseIds

TypeInv == InputType /\ ManagerType

LEMMA AppendFacts ==
  ASSUME NEW S, NEW s \in Seq(S), NEW e \in S
  PROVE  /\ Append(s, e) \in Seq(S) /\ ToSet(Append(s, e)) = ToSet(s) \cup {e}
         /\ IsInjective(s) /\ e \notin ToSet(s) => IsInjective(Append(s, e))
<1> DEFINE a == Append(s, e)
<1>1. /\ a \in Seq(S) /\ Len(a) = Len(s) + 1 /\ Len(s) \in Nat
      /\ DOMAIN a = 1..Len(a) /\ DOMAIN s = 1..Len(s)
      /\ a[Len(s) + 1] = e /\ \A i \in 1..Len(s) : a[i] = s[i]
  OBVIOUS
<1> HIDE DEF a
<1>2. \A x : x \in ToSet(a) <=> x \in ToSet(s) \/ x = e
  BY <1>1 DEF ToSet
<1>3. IsInjective(s) /\ e \notin ToSet(s) => IsInjective(a)
  BY <1>1 DEF ToSet, IsInjective
<1>4. QED
  BY <1>1, <1>2, <1>3 DEF a

LEMMA SeqFacts ==
  ASSUME NEW S, NEW s \in Seq(S)
  PROVE  /\ ToSet(s) \subseteq S /\ Len(s) \in Nat
         /\ \A i \in 1..Len(s) : s[i] \in S /\ s[i] \in ToSet(s)
         /\ \A x \in ToSet(s) : \E i \in 1..Len(s) : x = s[i]
         /\ IsInjective(s) => \A i, j \in 1..Len(s) : s[i] = s[j] => i = j
BY DEF ToSet, IsInjective

LEMMA EmptyFacts ==
  /\ ToSet(<<>>) = {} /\ IsInjective(<<>>) /\ Len(<<>>) = 0
  /\ \A S : <<>> \in Seq(S)
BY DEF ToSet, IsInjective

LEMMA InputTypeStep == TypeInv /\ [Next]_vars => InputType'
<1> SUFFICES ASSUME TypeInv, [Next]_vars PROVE InputType'
  OBVIOUS
<1> USE IdFacts, PlugAssumption DEF TypeInv, InputType
<1>1. ASSUME NEW t \in Types, InitializePlug(t) PROVE InputType'
  BY <1>1 DEF InitializePlug, managerVars, inputVars
<1>2. ASSUME NEW t \in Types, ConstructorRaises(t) PROVE InputType'
  BY <1>2 DEF ConstructorRaises, managerVars, inputVars
<1>3. CASE AllInitialized
  BY <1>3 DEF AllInitialized, managerVars, inputVars
<1>4. CASE StartPhase
  BY <1>4 DEF StartPhase, managerVars, inputVars
<1>5. CASE TriggerOver
  BY <1>5 DEF TriggerOver, managerVars, inputVars
<1>6. CASE PhasesOver
  BY <1>6 DEF PhasesOver, managerVars, inputVars
<1>7. CASE KillPhase
  BY <1>7 DEF KillPhase, managerVars, inputVars
<1>8. CASE StartTearDown
  BY <1>8 DEF StartTearDown, managerVars, inputVars
<1>9. CASE JoinReturns
  BY <1>9 DEF JoinReturns, managerVars, inputVars
<1>10. CASE TornDown
  BY <1>10 DEF TornDown, managerVars, inputVars
<1>11. ASSUME NEW t \in Types, TearDownRuns(t) PROVE InputType'
  BY <1>11 DEF TearDownRuns, RemovesPrompt, NotifyUpdate, managerVars, inputVars
<1>12. ASSUME NEW p \in PhaseIds, PhaseEnds(p) PROVE InputType'
  BY <1>12 DEF PhaseEnds, managerVars, inputVars
<1>13. ASSUME NEW p \in PhaseIds, body[p] = "run", p \notin killed, StartPrompt(p), UNCHANGED managerVars
      PROVE  InputType'
  <2>1. CASE prompt # None
    BY <1>13, <2>1 DEF StartPrompt, managerVars, inputVars
  <2>2. CASE prompt = None
    <3>1. count[p] + 1 \in 1..MaxPrompts
      BY <1>13 DEF StartPrompt
    <3>2. <<p, count[p] + 1>> \in Ids
      BY <3>1
    <3>3. event' \in BOOLEAN
      BY <1>13, <2>2 DEF StartPrompt, NotifyUpdate
    <3> DEFINE id == <<p, count[p] + 1>>
    <3>4. /\ prompt' = id /\ response' = None /\ at' = [at EXCEPT ![p] = "started"]
          /\ mine' = [mine EXCEPT ![p] = id] /\ got' = [got EXCEPT ![p] = Nothing]
          /\ count' = [count EXCEPT ![p] = count[p] + 1]
          /\ callers' \in {callers, callers \cup {id}}
          /\ UNCHANGED <<answered, observer, seen>>
      BY <1>13, <2>2 DEF StartPrompt
    <3> HIDE DEF id
    <3>5. id \in Ids
      BY <3>2 DEF id
    <3>6. callers' \subseteq Ids
      BY <3>4, <3>5
    <3>7. QED
      BY <3>1, <3>3, <3>4, <3>5, <3>6
  <2>3. QED
    BY <2>1, <2>2
<1>14. ASSUME NEW p \in PhaseIds, body[p] = "run", WaitForPrompt(p), UNCHANGED managerVars
      PROVE  InputType'
  <2>1. CASE prompt # None
    BY <1>14, <2>1 DEF WaitForPrompt
  <2>2. CASE prompt = None
    <3> DEFINE v == IF response = None THEN Unanswered ELSE response
    <3>1. v \in Ids \cup {Nothing, Multiple, Unanswered}
      OBVIOUS
    <3>2. got' = [got EXCEPT ![p] = v] /\ at' = [at EXCEPT ![p] = "out"]
      BY <1>14, <2>2 DEF WaitForPrompt, Returns
    <3> HIDE DEF v
    <3>3. QED
      BY <1>14, <3>1, <3>2 DEF WaitForPrompt
  <2>3. QED
    BY <2>1, <2>2
<1>15. ASSUME NEW p \in PhaseIds, body[p] = "run", WaitTimesOut(p), UNCHANGED managerVars
      PROVE  InputType'
  BY <1>15 DEF WaitTimesOut, managerVars, inputVars
<1>16. ASSUME NEW p \in PhaseIds, body[p] = "run", WakeUp(p), UNCHANGED managerVars
      PROVE  InputType'
  BY <1>16 DEF WakeUp, Returns, managerVars, inputVars
<1>17. ASSUME NEW id \in Ids, PostLooksUp(id) PROVE InputType'
  BY <1>17 DEF PostLooksUp, managerVars, inputVars
<1>18. ASSUME NEW id \in callers, CallerAnswers(id), UNCHANGED managerVars
      PROVE  InputType'
  BY <1>18 DEF CallerAnswers, Respond, InTime, RemovesPrompt, NotifyUpdate,
     managerVars, inputVars
<1>19. ASSUME NEW id \in callers, ConsoleEnds(id), UNCHANGED managerVars
      PROVE  InputType'
  BY <1>19 DEF ConsoleEnds, managerVars, inputVars
<1>20. CASE ObserverRegisters /\ UNCHANGED managerVars
  BY <1>20 DEF ObserverRegisters, managerVars, inputVars
<1>21. CASE ObserverReads /\ UNCHANGED managerVars
  BY <1>21 DEF ObserverReads, managerVars, inputVars
<1>22. CASE ObserverReturns /\ UNCHANGED managerVars
  BY <1>22 DEF ObserverReturns, managerVars, inputVars
<1>23. CASE ObserverTimesOut /\ UNCHANGED managerVars
  BY <1>23 DEF ObserverTimesOut, managerVars, inputVars
<1>24. CASE UNCHANGED vars
  BY <1>24 DEF vars, managerVars, inputVars
<1>25. QED
  BY <1>1, <1>2, <1>3, <1>4, <1>5, <1>6, <1>7, <1>8, <1>9, <1>10, <1>11, <1>12, <1>13,
     <1>14, <1>15, <1>16, <1>17, <1>18, <1>19, <1>20, <1>21, <1>22, <1>23, <1>24 DEF
     Next, Executor, Prompts, Answers, Observes

LEMMA ManagerTypeStep == TypeInv /\ [Next]_vars => ManagerType'
<1> SUFFICES ASSUME TypeInv, [Next]_vars PROVE ManagerType'
  OBVIOUS
<1> USE PhaseFacts, PlugAssumption DEF TypeInv, ManagerType
<1>1. ASSUME NEW t \in Types, InitializePlug(t) PROVE ManagerType'
  <2>1. CASE t \in Registered
    BY <1>1, <2>1 DEF InitializePlug
  <2>2. CASE t \notin Registered
    <3>1. plugs' = Append(plugs, t)
      BY <1>1, <2>2 DEF InitializePlug
    <3>2. plugs' \in Seq(Types)
      BY <3>1
    <3>3. inst' \in [Types -> {"none", "live", "torn"}]
      BY <1>1, <2>2 DEF InitializePlug
    <3>4. QED
      BY <1>1, <3>2, <3>3 DEF InitializePlug
  <2>3. QED
    BY <2>1, <2>2
<1>2. ASSUME NEW t \in Types, ConstructorRaises(t) PROVE ManagerType'
  BY <1>2 DEF ConstructorRaises, managerVars
<1>3. CASE AllInitialized
  BY <1>3 DEF AllInitialized, managerVars
<1>4. CASE StartPhase
  BY <1>4 DEF StartPhase, Running, Current, managerVars
<1>5. CASE TriggerOver
  BY <1>5 DEF TriggerOver, Types, managerVars
<1>6. CASE PhasesOver
  BY <1>6 DEF PhasesOver, managerVars
<1>7. CASE KillPhase
  BY <1>7 DEF KillPhase, Running, Current, managerVars
<1>8. CASE StartTearDown
  <2>1. k \in 1..Len(plugs) /\ plugs[k] \in Types
    BY <1>8, SeqFacts DEF StartTearDown
  <2>2. QED
    BY <1>8, <2>1 DEF StartTearDown, inputVars
<1>9. CASE JoinReturns
  <2>1. k \in 1..Len(plugs) /\ plugs[k] \in Types
    BY <1>9, SeqFacts DEF JoinReturns
  <2>2. QED
    BY <1>9, <2>1 DEF JoinReturns, inputVars
<1>10. CASE TornDown
  BY <1>10 DEF TornDown, managerVars
<1>11. ASSUME NEW t \in Types, TearDownRuns(t) PROVE ManagerType'
  BY <1>11 DEF TearDownRuns, RemovesPrompt, NotifyUpdate, managerVars
<1>12. ASSUME NEW p \in PhaseIds, PhaseEnds(p) PROVE ManagerType'
  BY <1>12 DEF PhaseEnds, managerVars
<1>13. ASSUME NEW p \in PhaseIds, body[p] = "run", p \notin killed, StartPrompt(p), UNCHANGED managerVars
      PROVE  ManagerType'
  BY <1>13 DEF StartPrompt, NotifyUpdate, managerVars
<1>14. ASSUME NEW p \in PhaseIds, body[p] = "run", WaitForPrompt(p), UNCHANGED managerVars
      PROVE  ManagerType'
  BY <1>14 DEF WaitForPrompt, Returns, managerVars
<1>15. ASSUME NEW p \in PhaseIds, body[p] = "run", WaitTimesOut(p), UNCHANGED managerVars
      PROVE  ManagerType'
  BY <1>15 DEF WaitTimesOut, managerVars
<1>16. ASSUME NEW p \in PhaseIds, body[p] = "run", WakeUp(p), UNCHANGED managerVars
      PROVE  ManagerType'
  BY <1>16 DEF WakeUp, Returns, managerVars
<1>17. ASSUME NEW id \in Ids, PostLooksUp(id) PROVE ManagerType'
  BY <1>17 DEF PostLooksUp, managerVars
<1>18. ASSUME NEW id \in callers, CallerAnswers(id), UNCHANGED managerVars
      PROVE  ManagerType'
  BY <1>18 DEF CallerAnswers, Respond, InTime, RemovesPrompt, NotifyUpdate,
     managerVars
<1>19. ASSUME NEW id \in callers, ConsoleEnds(id), UNCHANGED managerVars
      PROVE  ManagerType'
  BY <1>19 DEF ConsoleEnds, managerVars
<1>20. CASE ObserverRegisters /\ UNCHANGED managerVars
  BY <1>20 DEF ObserverRegisters, managerVars
<1>21. CASE ObserverReads /\ UNCHANGED managerVars
  BY <1>21 DEF ObserverReads, managerVars
<1>22. CASE ObserverReturns /\ UNCHANGED managerVars
  BY <1>22 DEF ObserverReturns, managerVars
<1>23. CASE ObserverTimesOut /\ UNCHANGED managerVars
  BY <1>23 DEF ObserverTimesOut, managerVars
<1>24. CASE UNCHANGED vars
  BY <1>24 DEF vars, managerVars
<1>25. QED
  BY <1>1, <1>2, <1>3, <1>4, <1>5, <1>6, <1>7, <1>8, <1>9, <1>10, <1>11, <1>12, <1>13,
     <1>14, <1>15, <1>16, <1>17, <1>18, <1>19, <1>20, <1>21, <1>22, <1>23, <1>24 DEF
     Next, Executor, Prompts, Answers, Observes

LEMMA TypeStep == TypeInv /\ [Next]_vars => TypeInv'
BY InputTypeStep, ManagerTypeStep DEF TypeInv

LEMMA TypeInit == Init => TypeInv
<1> SUFFICES ASSUME Init PROVE TypeInv
  OBVIOUS
<1>1. InputType
  <2>1. event \in BOOLEAN
    BY DEF Init, InputInit
  <2>2. QED
    BY <2>1, IdFacts, PlugAssumption DEF Init, InputInit, InputType
<1>2. plugs \in Seq(Types) /\ todo \subseteq Types
  BY PlugAssumption, EmptyFacts DEF Init, Types
<1>3. ManagerType
  BY <1>2, PhaseFacts DEF Init, ManagerType
<1>4. QED
  BY <1>1, <1>3 DEF TypeInv

---------------------------------------------------------------------------
(* What the executor and the phase threads keep.                           *)

Started == {Phases[i] : i \in 1..ph}

\* Only the phase that is current runs without having been killed.
RunInv ==
  /\ killed \subseteq Started
  /\ \A p \in PhaseIds \ Started : body[p] = "off"
  /\ \A p \in PhaseIds : at[p] # "out" => body[p] = "run"
  /\ \A p \in PhaseIds \ killed :
       body[p] = "run" => ph > 0 /\ p = Phases[ph] /\ ex \in {"in_trigger", "phases"}

\* What each step of the executor has made ready for the next.
ReadyInv ==
  /\ ex = "init_trigger" => TriggerPlugs \ todo \subseteq Registered
  /\ ex \in {"trigger", "in_trigger"} => TriggerPlugs \subseteq Registered
  /\ ex = "init" => Types \ todo \subseteq Registered
  /\ ex = "phases" => Types \subseteq Registered

\* A plug, its tear down thread and the calls of tearDown().
PlugInv ==
  /\ IsInjective(plugs)
  /\ ex \notin {"clean_up", "tear_down", "done"} => \A t \in Types : thread[t] = "off"
  /\ \A t \in Types : downs[t] = IF thread[t] = "off" THEN 0 ELSE 1
  /\ \A t \in Types : inst[t] = "none" <=> t \notin Registered /\ thread[t] = "off"
  /\ \A t \in Types : inst[t] = "torn" <=> thread[t] = "ended"
  /\ ex \in {"clean_up", "tear_down"} =>
       \A i \in 1..Len(plugs) : i < k => thread[plugs[i]] # "off"
  /\ ex = "done" => plugs = <<>>

(* What a phase that is inside prompt() relies on.                         *)

\* An id is made up by start_prompt from the phase and its count.
MineInv ==
  /\ \A p \in PhaseIds : mine[p] \in Ids => mine[p][1] = p /\ mine[p][2] <= count[p]
  /\ prompt \in Ids => prompt[2] <= count[prompt[1]]
  /\ \A id \in answered : id[2] <= count[id[1]]

\* Until prompt() returns no other prompt is shown and no other answer kept.
OwnInv ==
  \A p \in PhaseIds \ killed : at[p] # "out" =>
    /\ mine[p] \in Ids
    /\ prompt \in {None, mine[p]} /\ response \in {None, mine[p]}
    /\ at[p] = "waiting" => prompt = mine[p]
    /\ mine[p] \in answered => response = mine[p]

LEMMA RunStep == TypeInv /\ RunInv /\ [Next]_vars => RunInv'
<1> SUFFICES ASSUME TypeInv, RunInv, [Next]_vars PROVE RunInv'
  OBVIOUS
<1> USE PhaseFacts DEF TypeInv, InputType, ManagerType, RunInv, Started
<1>1. ASSUME NEW t \in Types, InitializePlug(t) PROVE RunInv'
  BY <1>1 DEF InitializePlug, managerVars, inputVars
<1>2. ASSUME NEW t \in Types, ConstructorRaises(t) PROVE RunInv'
  BY <1>2 DEF ConstructorRaises, managerVars, inputVars
<1>3. CASE AllInitialized
  BY <1>3 DEF AllInitialized, managerVars, inputVars
<1>4. CASE StartPhase
  BY <1>4 DEF StartPhase, Running, Current, managerVars, inputVars
<1>5. CASE TriggerOver
  <2>1. UNCHANGED <<killed, body, at, ph>> /\ ~Running
    BY <1>5 DEF TriggerOver, inputVars
  <2>2. \A p \in PhaseIds \ killed : body[p] # "run"
    BY <2>1 DEF Running, Current
  <2>3. QED
    BY <2>1, <2>2
<1>6. CASE PhasesOver
  BY <1>6 DEF PhasesOver, Running, Current, managerVars, inputVars
<1>7. CASE KillPhase
  BY <1>7 DEF KillPhase, Running, Current, managerVars, inputVars
<1>8. CASE StartTearDown
  BY <1>8 DEF StartTearDown, managerVars, inputVars
<1>9. CASE JoinReturns
  BY <1>9 DEF JoinReturns, managerVars, inputVars
<1>10. CASE TornDown
  BY <1>10 DEF TornDown, managerVars, inputVars
<1>11. ASSUME NEW t \in Types, TearDownRuns(t) PROVE RunInv'
  BY <1>11 DEF TearDownRuns, RemovesPrompt, NotifyUpdate, managerVars, inputVars
<1>12. ASSUME NEW p \in PhaseIds, PhaseEnds(p) PROVE RunInv'
  BY <1>12 DEF PhaseEnds, managerVars, inputVars
<1>13. ASSUME NEW p \in PhaseIds, body[p] = "run", p \notin killed, StartPrompt(p), UNCHANGED managerVars
      PROVE  RunInv'
  BY <1>13 DEF StartPrompt, NotifyUpdate, managerVars, inputVars
<1>14. ASSUME NEW p \in PhaseIds, body[p] = "run", WaitForPrompt(p), UNCHANGED managerVars
      PROVE  RunInv'
  BY <1>14 DEF WaitForPrompt, Returns, managerVars, inputVars
<1>15. ASSUME NEW p \in PhaseIds, body[p] = "run", WaitTimesOut(p), UNCHANGED managerVars
      PROVE  RunInv'
  BY <1>15 DEF WaitTimesOut, managerVars, inputVars
<1>16. ASSUME NEW p \in PhaseIds, body[p] = "run", WakeUp(p), UNCHANGED managerVars
      PROVE  RunInv'
  BY <1>16 DEF WakeUp, Returns, managerVars, inputVars
<1>17. ASSUME NEW id \in Ids, PostLooksUp(id) PROVE RunInv'
  BY <1>17 DEF PostLooksUp, managerVars, inputVars
<1>18. ASSUME NEW id \in callers, CallerAnswers(id), UNCHANGED managerVars
      PROVE  RunInv'
  BY <1>18 DEF CallerAnswers, Respond, InTime, RemovesPrompt, NotifyUpdate,
     managerVars, inputVars
<1>19. ASSUME NEW id \in callers, ConsoleEnds(id), UNCHANGED managerVars PROVE RunInv'
  BY <1>19 DEF ConsoleEnds, managerVars, inputVars
<1>20. CASE ObserverRegisters /\ UNCHANGED managerVars
  BY <1>20 DEF ObserverRegisters, managerVars, inputVars
<1>21. CASE ObserverReads /\ UNCHANGED managerVars
  BY <1>21 DEF ObserverReads, managerVars, inputVars
<1>22. CASE ObserverReturns /\ UNCHANGED managerVars
  BY <1>22 DEF ObserverReturns, managerVars, inputVars
<1>23. CASE ObserverTimesOut /\ UNCHANGED managerVars
  BY <1>23 DEF ObserverTimesOut, managerVars, inputVars
<1>24. CASE UNCHANGED vars
  BY <1>24 DEF vars, managerVars, inputVars
<1>25. QED
  BY <1>1, <1>2, <1>3, <1>4, <1>5, <1>6, <1>7, <1>8, <1>9, <1>10, <1>11, <1>12, <1>13,
     <1>14, <1>15, <1>16, <1>17, <1>18, <1>19, <1>20, <1>21, <1>22, <1>23, <1>24 DEF
     Next, Executor, Prompts, Answers, Observes

LEMMA ReadyStep == TypeInv /\ ReadyInv /\ [Next]_vars => ReadyInv'
<1> SUFFICES ASSUME TypeInv, ReadyInv, [Next]_vars PROVE ReadyInv'
  OBVIOUS
<1> USE PlugAssumption DEF TypeInv, ManagerType, ReadyInv, Registered
<1>1. ASSUME NEW t \in Types, InitializePlug(t) PROVE ReadyInv'
  <2>1. ToSet(plugs') = ToSet(plugs) \cup {t}
    <3>1. CASE t \in Registered
      BY <1>1, <3>1 DEF InitializePlug
    <3>2. CASE t \notin Registered
      <4>1. plugs' = Append(plugs, t)
        BY <1>1, <3>2 DEF InitializePlug
      <4>2. QED
        BY <4>1, AppendFacts
    <3>3. QED
      BY <3>1, <3>2
  <2>2. QED
    BY <1>1, <2>1 DEF InitializePlug
<1>2. ASSUME NEW t \in Types, ConstructorRaises(t) PROVE ReadyInv'
  BY <1>2 DEF ConstructorRaises, managerVars
<1>3. CASE AllInitialized
  BY <1>3 DEF AllInitialized, managerVars
<1>4. CASE StartPhase
  BY <1>4 DEF StartPhase, managerVars
<1>5. CASE TriggerOver
  BY <1>5 DEF TriggerOver, Types, managerVars
<1>6. CASE PhasesOver
  BY <1>6 DEF PhasesOver, managerVars
<1>7. CASE KillPhase
  BY <1>7 DEF KillPhase, managerVars
<1>8. CASE StartTearDown
  BY <1>8 DEF StartTearDown, managerVars
<1>9. CASE JoinReturns
  BY <1>9 DEF JoinReturns, managerVars
<1>10. CASE TornDown
  BY <1>10 DEF TornDown, managerVars
<1>11. ASSUME NEW t \in Types, TearDownRuns(t) PROVE ReadyInv'
  BY <1>11 DEF TearDownRuns, RemovesPrompt, NotifyUpdate, managerVars
<1>12. ASSUME NEW p \in PhaseIds, PhaseEnds(p) PROVE ReadyInv'
  BY <1>12 DEF PhaseEnds, managerVars
<1>13. ASSUME NEW p \in PhaseIds, body[p] = "run", p \notin killed, StartPrompt(p), UNCHANGED managerVars
      PROVE  ReadyInv'
  BY <1>13 DEF StartPrompt, NotifyUpdate, managerVars
<1>14. ASSUME NEW p \in PhaseIds, body[p] = "run", WaitForPrompt(p), UNCHANGED managerVars
      PROVE  ReadyInv'
  BY <1>14 DEF WaitForPrompt, Returns, managerVars
<1>15. ASSUME NEW p \in PhaseIds, body[p] = "run", WaitTimesOut(p), UNCHANGED managerVars
      PROVE  ReadyInv'
  BY <1>15 DEF WaitTimesOut, managerVars
<1>16. ASSUME NEW p \in PhaseIds, body[p] = "run", WakeUp(p), UNCHANGED managerVars
      PROVE  ReadyInv'
  BY <1>16 DEF WakeUp, Returns, managerVars
<1>17. ASSUME NEW id \in Ids, PostLooksUp(id) PROVE ReadyInv'
  BY <1>17 DEF PostLooksUp, managerVars
<1>18. ASSUME NEW id \in callers, CallerAnswers(id), UNCHANGED managerVars
      PROVE  ReadyInv'
  BY <1>18 DEF CallerAnswers, Respond, InTime, RemovesPrompt, NotifyUpdate,
     managerVars
<1>19. ASSUME NEW id \in callers, ConsoleEnds(id), UNCHANGED managerVars
      PROVE  ReadyInv'
  BY <1>19 DEF ConsoleEnds, managerVars
<1>20. CASE ObserverRegisters /\ UNCHANGED managerVars
  BY <1>20 DEF ObserverRegisters, managerVars
<1>21. CASE ObserverReads /\ UNCHANGED managerVars
  BY <1>21 DEF ObserverReads, managerVars
<1>22. CASE ObserverReturns /\ UNCHANGED managerVars
  BY <1>22 DEF ObserverReturns, managerVars
<1>23. CASE ObserverTimesOut /\ UNCHANGED managerVars
  BY <1>23 DEF ObserverTimesOut, managerVars
<1>24. CASE UNCHANGED vars
  BY <1>24 DEF vars, managerVars
<1>25. QED
  BY <1>1, <1>2, <1>3, <1>4, <1>5, <1>6, <1>7, <1>8, <1>9, <1>10, <1>11, <1>12, <1>13,
     <1>14, <1>15, <1>16, <1>17, <1>18, <1>19, <1>20, <1>21, <1>22, <1>23, <1>24 DEF
     Next, Executor, Prompts, Answers, Observes

LEMMA PlugStep == TypeInv /\ PlugInv /\ [Next]_vars => PlugInv'
<1> SUFFICES ASSUME TypeInv, PlugInv, [Next]_vars PROVE PlugInv'
  OBVIOUS
<1> USE DEF TypeInv, ManagerType, PlugInv, Registered
<1>1. ASSUME NEW t \in Types, InitializePlug(t) PROVE PlugInv'
  <2>1. CASE t \in Registered
    BY <1>1, <2>1 DEF InitializePlug
  <2>2. CASE t \notin Registered
    <3>1. plugs' = Append(plugs, t)
      BY <1>1, <2>2 DEF InitializePlug
    <3>2. ToSet(plugs') = ToSet(plugs) \cup {t} /\ IsInjective(plugs')
      BY <2>2, <3>1, AppendFacts
    <3>3. /\ inst' = [inst EXCEPT ![t] = "live"] /\ UNCHANGED <<ex, thread, downs, k>>
          /\ ex \in {"init_trigger", "init"}
      BY <1>1, <2>2 DEF InitializePlug
    <3>4. QED
      BY <3>2, <3>3
  <2>3. QED
    BY <2>1, <2>2
<1>2. ASSUME NEW t \in Types, ConstructorRaises(t) PROVE PlugInv'
  BY <1>2 DEF ConstructorRaises, managerVars
<1>3. CASE AllInitialized
  BY <1>3 DEF AllInitialized, managerVars
<1>4. CASE StartPhase
  BY <1>4 DEF StartPhase, managerVars
<1>5. CASE TriggerOver
  BY <1>5 DEF TriggerOver, managerVars
<1>6. CASE PhasesOver
  BY <1>6 DEF PhasesOver, managerVars
<1>7. CASE KillPhase
  BY <1>7 DEF KillPhase, managerVars
<1>8. CASE StartTearDown
  <2>1. k \in 1..Len(plugs) /\ plugs[k] \in Types /\ plugs[k] \in ToSet(plugs)
    BY <1>8, SeqFacts DEF StartTearDown
  <2>2. \A i \in 1..Len(plugs) : plugs[i] \in Types
    BY SeqFacts
  <2>3. QED
    BY <1>8, <2>1, <2>2 DEF StartTearDown
<1>9. CASE JoinReturns
  <2>1. k \in 1..Len(plugs) /\ plugs[k] \in Types /\ plugs[k] \in ToSet(plugs)
    BY <1>9, SeqFacts DEF JoinReturns
  <2>2. \A i \in 1..Len(plugs) : plugs[i] \in Types
    BY SeqFacts
  <2>3. QED
    BY <1>9, <2>1, <2>2 DEF JoinReturns
<1>10. CASE TornDown
  <2>1. \A t \in ToSet(plugs) : thread[t] # "off"
    <3>1. Len(plugs) \in Nat
      BY SeqFacts
    <3>2. \A i \in 1..Len(plugs) : i < k
      BY <1>10, <3>1 DEF TornDown
    <3>3. QED
      BY <1>10, <3>2, SeqFacts DEF TornDown
  <2>2. ToSet(plugs') = {} /\ IsInjective(plugs') /\ Len(plugs') = 0 /\ plugs' = <<>>
    BY <1>10, EmptyFacts DEF TornDown
  <2>3. QED
    BY <1>10, <2>1, <2>2 DEF TornDown
<1>11. ASSUME NEW t \in Types, TearDownRuns(t) PROVE PlugInv'
  BY <1>11 DEF TearDownRuns, RemovesPrompt, NotifyUpdate, managerVars
<1>12. ASSUME NEW p \in PhaseIds, PhaseEnds(p) PROVE PlugInv'
  BY <1>12 DEF PhaseEnds, managerVars
<1>13. ASSUME NEW p \in PhaseIds, body[p] = "run", p \notin killed, StartPrompt(p), UNCHANGED managerVars
      PROVE  PlugInv'
  BY <1>13 DEF StartPrompt, NotifyUpdate, managerVars
<1>14. ASSUME NEW p \in PhaseIds, body[p] = "run", WaitForPrompt(p), UNCHANGED managerVars
      PROVE  PlugInv'
  BY <1>14 DEF WaitForPrompt, Returns, managerVars
<1>15. ASSUME NEW p \in PhaseIds, body[p] = "run", WaitTimesOut(p), UNCHANGED managerVars
      PROVE  PlugInv'
  BY <1>15 DEF WaitTimesOut, managerVars
<1>16. ASSUME NEW p \in PhaseIds, body[p] = "run", WakeUp(p), UNCHANGED managerVars
      PROVE  PlugInv'
  BY <1>16 DEF WakeUp, Returns, managerVars
<1>17. ASSUME NEW id \in Ids, PostLooksUp(id) PROVE PlugInv'
  BY <1>17 DEF PostLooksUp, managerVars
<1>18. ASSUME NEW id \in callers, CallerAnswers(id), UNCHANGED managerVars
      PROVE  PlugInv'
  BY <1>18 DEF CallerAnswers, Respond, InTime, RemovesPrompt, NotifyUpdate,
     managerVars
<1>19. ASSUME NEW id \in callers, ConsoleEnds(id), UNCHANGED managerVars
      PROVE  PlugInv'
  BY <1>19 DEF ConsoleEnds, managerVars
<1>20. CASE ObserverRegisters /\ UNCHANGED managerVars
  BY <1>20 DEF ObserverRegisters, managerVars
<1>21. CASE ObserverReads /\ UNCHANGED managerVars
  BY <1>21 DEF ObserverReads, managerVars
<1>22. CASE ObserverReturns /\ UNCHANGED managerVars
  BY <1>22 DEF ObserverReturns, managerVars
<1>23. CASE ObserverTimesOut /\ UNCHANGED managerVars
  BY <1>23 DEF ObserverTimesOut, managerVars
<1>24. CASE UNCHANGED vars
  BY <1>24 DEF vars, managerVars
<1>25. QED
  BY <1>1, <1>2, <1>3, <1>4, <1>5, <1>6, <1>7, <1>8, <1>9, <1>10, <1>11, <1>12, <1>13,
     <1>14, <1>15, <1>16, <1>17, <1>18, <1>19, <1>20, <1>21, <1>22, <1>23, <1>24 DEF
     Next, Executor, Prompts, Answers, Observes

LEMMA MineStep == TypeInv /\ MineInv /\ [Next]_vars => MineInv'
<1> SUFFICES ASSUME TypeInv, MineInv, [Next]_vars PROVE MineInv'
  OBVIOUS
<1> USE IdFacts, PlugAssumption DEF TypeInv, InputType, MineInv
<1>1. ASSUME NEW t \in Types, InitializePlug(t) PROVE MineInv'
  BY <1>1 DEF InitializePlug, managerVars, inputVars
<1>2. ASSUME NEW t \in Types, ConstructorRaises(t) PROVE MineInv'
  BY <1>2 DEF ConstructorRaises, managerVars, inputVars
<1>3. CASE AllInitialized
  BY <1>3 DEF AllInitialized, managerVars, inputVars
<1>4. CASE StartPhase
  BY <1>4 DEF StartPhase, managerVars, inputVars
<1>5. CASE TriggerOver
  BY <1>5 DEF TriggerOver, managerVars, inputVars
<1>6. CASE PhasesOver
  BY <1>6 DEF PhasesOver, managerVars, inputVars
<1>7. CASE KillPhase
  BY <1>7 DEF KillPhase, managerVars, inputVars
<1>8. CASE StartTearDown
  BY <1>8 DEF StartTearDown, managerVars, inputVars
<1>9. CASE JoinReturns
  BY <1>9 DEF JoinReturns, managerVars, inputVars
<1>10. CASE TornDown
  BY <1>10 DEF TornDown, managerVars, inputVars
<1>11. ASSUME NEW t \in Types, TearDownRuns(t) PROVE MineInv'
  BY <1>11 DEF TearDownRuns, RemovesPrompt, NotifyUpdate, managerVars, inputVars
<1>12. ASSUME NEW p \in PhaseIds, PhaseEnds(p) PROVE MineInv'
  BY <1>12 DEF PhaseEnds, managerVars, inputVars
<1>13. ASSUME NEW p \in PhaseIds, body[p] = "run", p \notin killed, StartPrompt(p), UNCHANGED managerVars
      PROVE  MineInv'
  BY <1>13 DEF StartPrompt, NotifyUpdate, managerVars, inputVars
<1>14. ASSUME NEW p \in PhaseIds, body[p] = "run", WaitForPrompt(p), UNCHANGED managerVars
      PROVE  MineInv'
  BY <1>14 DEF WaitForPrompt, Returns, managerVars, inputVars
<1>15. ASSUME NEW p \in PhaseIds, body[p] = "run", WaitTimesOut(p), UNCHANGED managerVars
      PROVE  MineInv'
  BY <1>15 DEF WaitTimesOut, managerVars, inputVars
<1>16. ASSUME NEW p \in PhaseIds, body[p] = "run", WakeUp(p), UNCHANGED managerVars
      PROVE  MineInv'
  BY <1>16 DEF WakeUp, Returns, managerVars, inputVars
<1>17. ASSUME NEW id \in Ids, PostLooksUp(id) PROVE MineInv'
  BY <1>17 DEF PostLooksUp, managerVars, inputVars
<1>18. ASSUME NEW id \in callers, CallerAnswers(id), UNCHANGED managerVars
      PROVE  MineInv'
  <2>1. CASE prompt # id
    BY <1>18, <2>1 DEF CallerAnswers, Respond
  <2>2. CASE prompt = id
    BY <1>18, <2>2 DEF CallerAnswers, Respond, InTime, RemovesPrompt
  <2>3. QED
    BY <2>1, <2>2
<1>19. ASSUME NEW id \in callers, ConsoleEnds(id), UNCHANGED managerVars
      PROVE  MineInv'
  BY <1>19 DEF ConsoleEnds, managerVars, inputVars
<1>20. CASE ObserverRegisters /\ UNCHANGED managerVars
  BY <1>20 DEF ObserverRegisters, managerVars, inputVars
<1>21. CASE ObserverReads /\ UNCHANGED managerVars
  BY <1>21 DEF ObserverReads, managerVars, inputVars
<1>22. CASE ObserverReturns /\ UNCHANGED managerVars
  BY <1>22 DEF ObserverReturns, managerVars, inputVars
<1>23. CASE ObserverTimesOut /\ UNCHANGED managerVars
  BY <1>23 DEF ObserverTimesOut, managerVars, inputVars
<1>24. CASE UNCHANGED vars
  BY <1>24 DEF vars, managerVars, inputVars
<1>25. QED
  BY <1>1, <1>2, <1>3, <1>4, <1>5, <1>6, <1>7, <1>8, <1>9, <1>10, <1>11, <1>12, <1>13,
     <1>14, <1>15, <1>16, <1>17, <1>18, <1>19, <1>20, <1>21, <1>22, <1>23, <1>24 DEF
     Next, Executor, Prompts, Answers, Observes

\* Nothing of a phase that was not killed runs while plugs are torn down.
LEMMA TearDownAlone ==
  ASSUME TypeInv, RunInv, PlugInv, NEW t \in Types, thread[t] # "off"
  PROVE  \A p \in PhaseIds \ killed : body[p] # "run" /\ at[p] = "out"
BY DEF TypeInv, InputType, ManagerType, RunInv, PlugInv

\* Phases that were not killed run one at a time.
LEMMA OneRuns ==
  ASSUME TypeInv, RunInv,
         NEW p \in PhaseIds \ killed, NEW q \in PhaseIds \ killed,
         body[p] = "run", body[q] = "run"
  PROVE  p = q
BY DEF RunInv

LEMMA OwnStep == TypeInv /\ RunInv /\ PlugInv /\ MineInv /\ OwnInv /\ [Next]_vars => OwnInv'
<1> SUFFICES ASSUME TypeInv, RunInv, PlugInv, MineInv, OwnInv, [Next]_vars PROVE OwnInv'
  OBVIOUS
<1> USE IdFacts DEF TypeInv, InputType, OwnInv
<1>1. ASSUME NEW t \in Types, InitializePlug(t) PROVE OwnInv'
  BY <1>1 DEF InitializePlug, managerVars, inputVars
<1>2. ASSUME NEW t \in Types, ConstructorRaises(t) PROVE OwnInv'
  BY <1>2 DEF ConstructorRaises, managerVars, inputVars
<1>3. CASE AllInitialized
  BY <1>3 DEF AllInitialized, managerVars, inputVars
<1>4. CASE StartPhase
  BY <1>4 DEF StartPhase, managerVars, inputVars
<1>5. CASE TriggerOver
  BY <1>5 DEF TriggerOver, managerVars, inputVars
<1>6. CASE PhasesOver
  BY <1>6 DEF PhasesOver, managerVars, inputVars
<1>7. CASE KillPhase
  BY <1>7 DEF KillPhase, managerVars, inputVars
<1>8. CASE StartTearDown
  BY <1>8 DEF StartTearDown, managerVars, inputVars
<1>9. CASE JoinReturns
  BY <1>9 DEF JoinReturns, managerVars, inputVars
<1>10. CASE TornDown
  BY <1>10 DEF TornDown, managerVars, inputVars
<1>11. ASSUME NEW t \in Types, TearDownRuns(t) PROVE OwnInv'
  <2>1. \A p \in PhaseIds \ killed : at[p] = "out"
    BY <1>11, TearDownAlone DEF TearDownRuns, ManagerType
  <2>2. UNCHANGED <<at, killed>>
    BY <1>11 DEF TearDownRuns, inputVars
  <2>3. QED
    BY <2>1, <2>2
<1>12. ASSUME NEW p \in PhaseIds, PhaseEnds(p) PROVE OwnInv'
  BY <1>12 DEF PhaseEnds, managerVars, inputVars
<1>13. ASSUME NEW p \in PhaseIds, body[p] = "run", p \notin killed, StartPrompt(p), UNCHANGED managerVars
      PROVE  OwnInv'
  <2>1. CASE prompt # None
    BY <1>13, <2>1 DEF StartPrompt, managerVars
  <2>2. CASE prompt = None
    <3> DEFINE id == <<p, count[p] + 1>>
    <3>1. id \in Ids /\ id \notin answered
      BY <1>13, PlugAssumption DEF StartPrompt, MineInv
    <3>2. /\ prompt' = id /\ response' = None /\ at' = [at EXCEPT ![p] = "started"]
          /\ mine' = [mine EXCEPT ![p] = id] /\ UNCHANGED <<answered, killed>>
      BY <1>13, <2>2 DEF StartPrompt, managerVars
    <3> HIDE DEF id
    <3>3. \A q \in PhaseIds \ killed : at[q] # "out" => q = p
      BY <1>13, OneRuns DEF RunInv
    <3>4. QED
      BY <3>1, <3>2, <3>3
  <2>3. QED
    BY <2>1, <2>2
<1>14. ASSUME NEW p \in PhaseIds, body[p] = "run", WaitForPrompt(p), UNCHANGED managerVars
      PROVE  OwnInv'
  <2>1. CASE prompt # None
    BY <1>14, <2>1 DEF WaitForPrompt, managerVars
  <2>2. CASE prompt = None
    BY <1>14, <2>2 DEF WaitForPrompt, Returns, managerVars
  <2>3. QED
    BY <2>1, <2>2
<1>15. ASSUME NEW p \in PhaseIds, body[p] = "run", WaitTimesOut(p), UNCHANGED managerVars
      PROVE  OwnInv'
  BY <1>15 DEF WaitTimesOut, managerVars, inputVars
<1>16. ASSUME NEW p \in PhaseIds, body[p] = "run", WakeUp(p), UNCHANGED managerVars
      PROVE  OwnInv'
  BY <1>16 DEF WakeUp, Returns, managerVars, inputVars
<1>17. ASSUME NEW id \in Ids, PostLooksUp(id) PROVE OwnInv'
  BY <1>17 DEF PostLooksUp, managerVars, inputVars
<1>18. ASSUME NEW id \in callers, CallerAnswers(id), UNCHANGED managerVars
      PROVE  OwnInv'
  <2>1. CASE prompt # id
    BY <1>18, <2>1 DEF CallerAnswers, Respond, managerVars
  <2>2. CASE prompt = id
    <3>1. /\ prompt' = None /\ response' = id /\ UNCHANGED <<mine, killed>>
          /\ answered' \subseteq answered \cup {id}
          /\ at' = [p \in PhaseIds |-> IF at[p] = "waiting" THEN "woken" ELSE at[p]]
      BY <1>18, <2>2 DEF CallerAnswers, Respond, InTime, RemovesPrompt, managerVars
    <3>2. \A p \in PhaseIds : at'[p] # "waiting" /\ (at'[p] # "out" => at[p] # "out")
      BY <3>1
    <3>3. QED
      BY <2>2, <3>1, <3>2
  <2>3. QED
    BY <2>1, <2>2
<1>19. ASSUME NEW id \in callers, ConsoleEnds(id), UNCHANGED managerVars PROVE OwnInv'
  BY <1>19 DEF ConsoleEnds, managerVars, inputVars
<1>20. CASE ObserverRegisters /\ UNCHANGED managerVars
  BY <1>20 DEF ObserverRegisters, managerVars, inputVars
<1>21. CASE ObserverReads /\ UNCHANGED managerVars
  BY <1>21 DEF ObserverReads, managerVars, inputVars
<1>22. CASE ObserverReturns /\ UNCHANGED managerVars
  BY <1>22 DEF ObserverReturns, managerVars, inputVars
<1>23. CASE ObserverTimesOut /\ UNCHANGED managerVars
  BY <1>23 DEF ObserverTimesOut, managerVars, inputVars
<1>24. CASE UNCHANGED vars
  BY <1>24 DEF vars, managerVars, inputVars
<1>25. QED
  BY <1>1, <1>2, <1>3, <1>4, <1>5, <1>6, <1>7, <1>8, <1>9, <1>10, <1>11, <1>12, <1>13,
     <1>14, <1>15, <1>16, <1>17, <1>18, <1>19, <1>20, <1>21, <1>22, <1>23, <1>24 DEF
     Next, Executor, Prompts, Answers, Observes

AnswerInv == AnswerIsOwn /\ AnswerReturned

LEMMA AnswerStep ==
  TypeInv /\ RunInv /\ MineInv /\ OwnInv /\ AnswerInv /\ [Next]_vars => AnswerInv'
<1> SUFFICES ASSUME TypeInv, RunInv, MineInv, OwnInv, AnswerInv, [Next]_vars PROVE AnswerInv'
  OBVIOUS
<1> USE IdFacts DEF TypeInv, InputType, AnswerInv, AnswerIsOwn, AnswerReturned
<1>1. ASSUME NEW t \in Types, InitializePlug(t) PROVE AnswerInv'
  BY <1>1 DEF InitializePlug, managerVars, inputVars
<1>2. ASSUME NEW t \in Types, ConstructorRaises(t) PROVE AnswerInv'
  BY <1>2 DEF ConstructorRaises, managerVars, inputVars
<1>3. CASE AllInitialized
  BY <1>3 DEF AllInitialized, managerVars, inputVars
<1>4. CASE StartPhase
  BY <1>4 DEF StartPhase, managerVars, inputVars
<1>5. CASE TriggerOver
  BY <1>5 DEF TriggerOver, managerVars, inputVars
<1>6. CASE PhasesOver
  BY <1>6 DEF PhasesOver, managerVars, inputVars
<1>7. CASE KillPhase
  BY <1>7 DEF KillPhase, managerVars, inputVars
<1>8. CASE StartTearDown
  BY <1>8 DEF StartTearDown, managerVars, inputVars
<1>9. CASE JoinReturns
  BY <1>9 DEF JoinReturns, managerVars, inputVars
<1>10. CASE TornDown
  BY <1>10 DEF TornDown, managerVars, inputVars
<1>11. ASSUME NEW t \in Types, TearDownRuns(t) PROVE AnswerInv'
  BY <1>11 DEF TearDownRuns, RemovesPrompt, NotifyUpdate, managerVars, inputVars
<1>12. ASSUME NEW p \in PhaseIds, PhaseEnds(p) PROVE AnswerInv'
  BY <1>12 DEF PhaseEnds, managerVars, inputVars
<1>13. ASSUME NEW p \in PhaseIds, body[p] = "run", p \notin killed, StartPrompt(p), UNCHANGED managerVars
      PROVE  AnswerInv'
  <2>1. CASE prompt # None
    BY <1>13, <2>1 DEF StartPrompt, managerVars
  <2>2. CASE prompt = None
    <3> DEFINE id == <<p, count[p] + 1>>
    <3>1. /\ at' = [at EXCEPT ![p] = "started"] /\ mine' = [mine EXCEPT ![p] = id]
          /\ got' = [got EXCEPT ![p] = Nothing] /\ UNCHANGED <<answered, killed>>
      BY <1>13, <2>2 DEF StartPrompt, managerVars
    <3> HIDE DEF id
    <3>2. QED
      BY <3>1
  <2>3. QED
    BY <2>1, <2>2
<1>14. ASSUME NEW p \in PhaseIds, body[p] = "run", WaitForPrompt(p), UNCHANGED managerVars
      PROVE  AnswerInv'
  <2>1. CASE prompt # None
    BY <1>14, <2>1 DEF WaitForPrompt, managerVars
  <2>2. CASE prompt = None
    <3> DEFINE v == IF response = None THEN Unanswered ELSE response
    <3>1. got' = [got EXCEPT ![p] = v] /\ at' = [at EXCEPT ![p] = "out"]
      BY <1>14, <2>2 DEF WaitForPrompt, Returns
    <3>2. UNCHANGED <<mine, answered, killed>> /\ at[p] # "out"
      BY <1>14 DEF WaitForPrompt, managerVars
    <3>3. p \notin killed => v \in {Unanswered, mine[p]} /\ (mine[p] \in answered => v = mine[p])
      BY <3>2 DEF OwnInv
    <3> HIDE DEF v
    <3>4. QED
      BY <3>1, <3>2, <3>3
  <2>3. QED
    BY <2>1, <2>2
<1>15. ASSUME NEW p \in PhaseIds, body[p] = "run", WaitTimesOut(p), UNCHANGED managerVars
      PROVE  AnswerInv'
  BY <1>15 DEF WaitTimesOut, managerVars, inputVars
<1>16. ASSUME NEW p \in PhaseIds, body[p] = "run", WakeUp(p), UNCHANGED managerVars
      PROVE  AnswerInv'
  <2> DEFINE v == IF response = None THEN Unanswered ELSE response
  <2>1. got' = [got EXCEPT ![p] = v] /\ at' = [at EXCEPT ![p] = "out"]
    BY <1>16 DEF WakeUp, Returns
  <2>2. UNCHANGED <<mine, answered, killed>> /\ at[p] # "out"
    BY <1>16 DEF WakeUp, managerVars
  <2>3. p \notin killed => v \in {Unanswered, mine[p]} /\ (mine[p] \in answered => v = mine[p])
    BY <2>2 DEF OwnInv
  <2> HIDE DEF v
  <2>4. QED
    BY <2>1, <2>2, <2>3
<1>17. ASSUME NEW id \in Ids, PostLooksUp(id) PROVE AnswerInv'
  BY <1>17 DEF PostLooksUp, managerVars, inputVars
<1>18. ASSUME NEW id \in callers, CallerAnswers(id), UNCHANGED managerVars
      PROVE  AnswerInv'
  <2>1. CASE prompt # id
    BY <1>18, <2>1 DEF CallerAnswers, Respond, managerVars
  <2>2. CASE prompt = id
    <3>1. /\ UNCHANGED <<mine, got, killed>>
          /\ answered' = IF at[id[1]] = "out" THEN answered ELSE answered \cup {id}
          /\ at' = [p \in PhaseIds |-> IF at[p] = "waiting" THEN "woken" ELSE at[p]]
      BY <1>18, <2>2 DEF CallerAnswers, Respond, InTime, managerVars
    <3>2. \A p \in PhaseIds : at'[p] = "out" <=> at[p] = "out"
      BY <3>1
    <3>3. \A p \in PhaseIds : at[p] = "out" /\ mine[p] \in answered' => mine[p] \in answered
      BY <3>1 DEF MineInv
    <3>4. QED
      BY <3>1, <3>2, <3>3
  <2>3. QED
    BY <2>1, <2>2
<1>19. ASSUME NEW id \in callers, ConsoleEnds(id), UNCHANGED managerVars
      PROVE  AnswerInv'
  BY <1>19 DEF ConsoleEnds, managerVars, inputVars
<1>20. CASE ObserverRegisters /\ UNCHANGED managerVars
  BY <1>20 DEF ObserverRegisters, managerVars, inputVars
<1>21. CASE ObserverReads /\ UNCHANGED managerVars
  BY <1>21 DEF ObserverReads, managerVars, inputVars
<1>22. CASE ObserverReturns /\ UNCHANGED managerVars
  BY <1>22 DEF ObserverReturns, managerVars, inputVars
<1>23. CASE ObserverTimesOut /\ UNCHANGED managerVars
  BY <1>23 DEF ObserverTimesOut, managerVars, inputVars
<1>24. CASE UNCHANGED vars
  BY <1>24 DEF vars, managerVars, inputVars
<1>25. QED
  BY <1>1, <1>2, <1>3, <1>4, <1>5, <1>6, <1>7, <1>8, <1>9, <1>10, <1>11, <1>12, <1>13,
     <1>14, <1>15, <1>16, <1>17, <1>18, <1>19, <1>20, <1>21, <1>22, <1>23, <1>24 DEF
     Next, Executor, Prompts, Answers, Observes

(* The tear down of UserInput is the last that is heard of its prompts.    *)
LEMMA NoPromptStep ==
  TypeInv /\ RunInv /\ PlugInv /\ NoPromptLeft /\ [Next]_vars => NoPromptLeft'
<1> SUFFICES ASSUME TypeInv, RunInv, PlugInv, NoPromptLeft, [Next]_vars PROVE NoPromptLeft'
  OBVIOUS
<1>1. UI \in Types
  BY DEF Types
<1> USE <1>1 DEF TypeInv, InputType, ManagerType, NoPromptLeft
<1>2. ASSUME NEW t \in Types, InitializePlug(t) PROVE NoPromptLeft'
  BY <1>2 DEF InitializePlug, managerVars, inputVars
<1>3. ASSUME NEW t \in Types, ConstructorRaises(t) PROVE NoPromptLeft'
  BY <1>3 DEF ConstructorRaises, managerVars, inputVars
<1>4. CASE AllInitialized
  BY <1>4 DEF AllInitialized, managerVars, inputVars
<1>5. CASE StartPhase
  BY <1>5 DEF StartPhase, managerVars, inputVars
<1>6. CASE TriggerOver
  BY <1>6 DEF TriggerOver, managerVars, inputVars
<1>7. CASE PhasesOver
  BY <1>7 DEF PhasesOver, managerVars, inputVars
<1>8. CASE KillPhase
  BY <1>8 DEF KillPhase, managerVars, inputVars
<1>9. CASE StartTearDown
  BY <1>9 DEF StartTearDown, managerVars, inputVars
<1>10. CASE JoinReturns
  BY <1>10 DEF JoinReturns, managerVars, inputVars
<1>11. CASE TornDown
  BY <1>11 DEF TornDown, managerVars, inputVars
<1>12. ASSUME NEW t \in Types, TearDownRuns(t) PROVE NoPromptLeft'
  BY <1>12 DEF TearDownRuns, RemovesPrompt, NotifyUpdate, managerVars, inputVars
<1>13. ASSUME NEW p \in PhaseIds, PhaseEnds(p) PROVE NoPromptLeft'
  BY <1>13 DEF PhaseEnds, managerVars, inputVars
<1>14. ASSUME NEW p \in PhaseIds, body[p] = "run", p \notin killed, StartPrompt(p), UNCHANGED managerVars
      PROVE  NoPromptLeft'
  <2>1. thread[UI] = "off"
    BY <1>14, TearDownAlone
  <2>2. inst[UI] # "torn" /\ UNCHANGED inst
    BY <1>14, <2>1 DEF PlugInv, managerVars
  <2>3. QED
    BY <2>2
<1>15. ASSUME NEW p \in PhaseIds, body[p] = "run", WaitForPrompt(p), UNCHANGED managerVars
      PROVE  NoPromptLeft'
  BY <1>15 DEF WaitForPrompt, Returns, managerVars, inputVars
<1>16. ASSUME NEW p \in PhaseIds, body[p] = "run", WaitTimesOut(p), UNCHANGED managerVars
      PROVE  NoPromptLeft'
  BY <1>16 DEF WaitTimesOut, managerVars, inputVars
<1>17. ASSUME NEW p \in PhaseIds, body[p] = "run", WakeUp(p), UNCHANGED managerVars
      PROVE  NoPromptLeft'
  BY <1>17 DEF WakeUp, Returns, managerVars, inputVars
<1>18. ASSUME NEW id \in Ids, PostLooksUp(id) PROVE NoPromptLeft'
  BY <1>18 DEF PostLooksUp, managerVars, inputVars
<1>19. ASSUME NEW id \in callers, CallerAnswers(id), UNCHANGED managerVars
      PROVE  NoPromptLeft'
  BY <1>19 DEF CallerAnswers, Respond, InTime, RemovesPrompt, NotifyUpdate,
     managerVars, inputVars
<1>20. ASSUME NEW id \in callers, ConsoleEnds(id), UNCHANGED managerVars
      PROVE  NoPromptLeft'
  BY <1>20 DEF ConsoleEnds, managerVars, inputVars
<1>21. CASE ObserverRegisters /\ UNCHANGED managerVars
  BY <1>21 DEF ObserverRegisters, managerVars, inputVars
<1>22. CASE ObserverReads /\ UNCHANGED managerVars
  BY <1>22 DEF ObserverReads, managerVars, inputVars
<1>23. CASE ObserverReturns /\ UNCHANGED managerVars
  BY <1>23 DEF ObserverReturns, managerVars, inputVars
<1>24. CASE ObserverTimesOut /\ UNCHANGED managerVars
  BY <1>24 DEF ObserverTimesOut, managerVars, inputVars
<1>25. CASE UNCHANGED vars
  BY <1>25 DEF vars, managerVars, inputVars
<1>26. QED
  BY <1>2, <1>3, <1>4, <1>5, <1>6, <1>7, <1>8, <1>9, <1>10, <1>11, <1>12, <1>13, <1>14,
     <1>15, <1>16, <1>17, <1>18, <1>19, <1>20, <1>21, <1>22, <1>23, <1>24, <1>25 DEF
     Next, Executor, Prompts, Answers, Observes

LEMMA UpdateStep == TypeInv /\ UpdateNotMissed /\ [Next]_vars => UpdateNotMissed'
<1> SUFFICES ASSUME TypeInv, UpdateNotMissed, [Next]_vars PROVE UpdateNotMissed'
  OBVIOUS
<1> USE DEF TypeInv, InputType, UpdateNotMissed
<1>1. ASSUME NEW t \in Types, InitializePlug(t) PROVE UpdateNotMissed'
  BY <1>1 DEF InitializePlug, managerVars, inputVars
<1>2. ASSUME NEW t \in Types, ConstructorRaises(t) PROVE UpdateNotMissed'
  BY <1>2 DEF ConstructorRaises, managerVars, inputVars
<1>3. CASE AllInitialized
  BY <1>3 DEF AllInitialized, managerVars, inputVars
<1>4. CASE StartPhase
  BY <1>4 DEF StartPhase, managerVars, inputVars
<1>5. CASE TriggerOver
  BY <1>5 DEF TriggerOver, managerVars, inputVars
<1>6. CASE PhasesOver
  BY <1>6 DEF PhasesOver, managerVars, inputVars
<1>7. CASE KillPhase
  BY <1>7 DEF KillPhase, managerVars, inputVars
<1>8. CASE StartTearDown
  BY <1>8 DEF StartTearDown, managerVars, inputVars
<1>9. CASE JoinReturns
  BY <1>9 DEF JoinReturns, managerVars, inputVars
<1>10. CASE TornDown
  BY <1>10 DEF TornDown, managerVars, inputVars
<1>11. ASSUME NEW t \in Types, TearDownRuns(t) PROVE UpdateNotMissed'
  BY <1>11 DEF TearDownRuns, RemovesPrompt, NotifyUpdate, managerVars, inputVars
<1>12. ASSUME NEW p \in PhaseIds, PhaseEnds(p) PROVE UpdateNotMissed'
  BY <1>12 DEF PhaseEnds, managerVars, inputVars
<1>13. ASSUME NEW p \in PhaseIds, body[p] = "run", p \notin killed, StartPrompt(p), UNCHANGED managerVars
      PROVE  UpdateNotMissed'
  BY <1>13 DEF StartPrompt, NotifyUpdate, managerVars, inputVars
<1>14. ASSUME NEW p \in PhaseIds, body[p] = "run", WaitForPrompt(p), UNCHANGED managerVars
      PROVE  UpdateNotMissed'
  BY <1>14 DEF WaitForPrompt, Returns, managerVars, inputVars
<1>15. ASSUME NEW p \in PhaseIds, body[p] = "run", WaitTimesOut(p), UNCHANGED managerVars
      PROVE  UpdateNotMissed'
  BY <1>15 DEF WaitTimesOut, managerVars, inputVars
<1>16. ASSUME NEW p \in PhaseIds, body[p] = "run", WakeUp(p), UNCHANGED managerVars
      PROVE  UpdateNotMissed'
  BY <1>16 DEF WakeUp, Returns, managerVars, inputVars
<1>17. ASSUME NEW id \in Ids, PostLooksUp(id) PROVE UpdateNotMissed'
  BY <1>17 DEF PostLooksUp, managerVars, inputVars
<1>18. ASSUME NEW id \in callers, CallerAnswers(id), UNCHANGED managerVars
      PROVE  UpdateNotMissed'
  BY <1>18 DEF CallerAnswers, Respond, InTime, RemovesPrompt, NotifyUpdate,
     managerVars, inputVars
<1>19. ASSUME NEW id \in callers, ConsoleEnds(id), UNCHANGED managerVars
      PROVE  UpdateNotMissed'
  BY <1>19 DEF ConsoleEnds, managerVars, inputVars
<1>20. CASE ObserverRegisters /\ UNCHANGED managerVars
  BY <1>20 DEF ObserverRegisters, managerVars, inputVars
<1>21. CASE ObserverReads /\ UNCHANGED managerVars
  BY <1>21 DEF ObserverReads, managerVars, inputVars
<1>22. CASE ObserverReturns /\ UNCHANGED managerVars
  BY <1>22 DEF ObserverReturns, managerVars, inputVars
<1>23. CASE ObserverTimesOut /\ UNCHANGED managerVars
  BY <1>23 DEF ObserverTimesOut, managerVars, inputVars
<1>24. CASE UNCHANGED vars
  BY <1>24 DEF vars, managerVars, inputVars
<1>25. QED
  BY <1>1, <1>2, <1>3, <1>4, <1>5, <1>6, <1>7, <1>8, <1>9, <1>10, <1>11, <1>12, <1>13,
     <1>14, <1>15, <1>16, <1>17, <1>18, <1>19, <1>20, <1>21, <1>22, <1>23, <1>24 DEF
     Next, Executor, Prompts, Answers, Observes

---------------------------------------------------------------------------
LEMMA ManagerInit == Init => RunInv /\ ReadyInv /\ PlugInv
<1> SUFFICES ASSUME Init PROVE RunInv /\ ReadyInv /\ PlugInv
  OBVIOUS
<1>1. RunInv
  BY PhaseFacts DEF Init, InputInit, RunInv, Started
<1>2. ReadyInv
  BY DEF Init, ReadyInv
<1>3. ToSet(plugs) = {} /\ IsInjective(plugs) /\ Len(plugs) = 0
  BY EmptyFacts DEF Init
<1>4. PlugInv
  BY <1>3 DEF Init, PlugInv, Registered
<1>5. QED
  BY <1>1, <1>2, <1>4

LEMMA InputsInit == Init => MineInv /\ OwnInv /\ AnswerInv
BY IdFacts DEF Init, InputInit, MineInv, OwnInv, AnswerInv, AnswerIsOwn, AnswerReturned

LEMMA LastInit == Init => NoPromptLeft /\ UpdateNotMissed
BY DEF Init, InputInit, NoPromptLeft, UpdateNotMissed, Types

IInv ==
  /\ TypeInv /\ RunInv /\ ReadyInv /\ PlugInv /\ MineInv /\ OwnInv
  /\ AnswerInv /\ NoPromptLeft /\ UpdateNotMissed

LEMMA Inductive == Spec => []IInv
<1>1. Init => IInv
  BY TypeInit, ManagerInit, InputsInit, LastInit DEF IInv
<1>2. IInv /\ [Next]_vars => IInv'
  BY TypeStep, RunStep, ReadyStep, PlugStep, MineStep, OwnStep, AnswerStep, NoPromptStep,
     UpdateStep DEF IInv
<1>3. QED
  BY <1>1, <1>2, PTL DEF Spec

(* Whatever the plugs, phases, answers and kills: every variable keeps its *)
(* type and _plugs_by_type holds a plug once.                              *)
THEOREM TypeCorrect == Spec => []TypeOK
<1>1. IInv => TypeOK
  <2> SUFFICES ASSUME IInv PROVE TypeOK
    OBVIOUS
  <2>1. Registered \subseteq Types
    BY SeqFacts DEF IInv, TypeInv, ManagerType, Registered
  <2>2. event \in BOOLEAN
    BY DEF IInv, TypeInv, InputType
  <2>3. QED
    BY <2>1, <2>2 DEF IInv, TypeInv, InputType, ManagerType, PlugInv, TypeOK
<1>2. QED
  BY <1>1, Inductive, PTL

(* UserInput.prompt: a phase that was not killed gets the answer to its    *)
(* own prompt and no other, gets it when there is one, and waits only for  *)
(* a prompt that can still be answered.                                    *)
THEOREM PromptsAreAnswered == Spec => []PromptsAnswered
<1>1. IInv => PromptsAnswered
  BY DEF IInv, AnswerInv, OwnInv, PromptsAnswered, WaitersAnswerable
<1>2. QED
  BY <1>1, Inductive, PTL

(* PlugManager: a phase that was not killed finds its plugs alive, each    *)
(* plug that was made is torn down exactly once, and no prompt outlives    *)
(* the tear down of UserInput.                                             *)
THEOREM PlugsLiveOnce == Spec => []PlugLife
<1>1. IInv => PlugLife
  <2> SUFFICES ASSUME IInv PROVE PlugLife
    OBVIOUS
  <2>1. PhasePlugsLive
    <3> SUFFICES ASSUME NEW p \in PhaseIds \ killed, body[p] = "run",
                        NEW t \in (IF ex = "in_trigger" THEN TriggerPlugs ELSE Types)
                 PROVE  inst[t] = "live" /\ t \in Registered
      BY DEF PhasePlugsLive
    <3>1. ex \in {"in_trigger", "phases"}
      BY DEF IInv, RunInv
    <3>2. t \in Types /\ t \in Registered
      BY <3>1, PlugAssumption DEF IInv, ReadyInv, Types
    <3>3. thread[t] = "off"
      BY <3>1, <3>2 DEF IInv, PlugInv
    <3>4. QED
      BY <3>2, <3>3 DEF IInv, PlugInv, TypeInv, ManagerType
  <2>2. TornDownOnce
    <3>1. ex = "done" => Registered = {}
      BY EmptyFacts DEF IInv, PlugInv, Registered
    <3>2. QED
      BY <3>1 DEF IInv, PlugInv, TornDownOnce
  <2>3. QED
    BY <2>1, <2>2 DEF IInv, PlugLife
<1>2. QED
  BY <1>1, Inductive, PTL

(* asdict_with_event: no update is lost between the observer's look at the *)
(* plug and its wait for the event.                                        *)
THEOREM NoUpdateMissed == Spec => []UpdateNotMissed
BY Inductive, PTL DEF IInv
====

---- MODULE ConfigurationProofs ----
(***************************************************************************)
(* The configuration under any number of threads, keys, loads and nested   *)
(* wrappers: its three look-ups agree, what was found present is still     *)
(* there when it is read, and save_and_restore restores.                   *)
(***************************************************************************)
EXTENDS Configuration, FiniteSetTheorems, TLAPS

LEMMA ConstantFacts ==
  /\ Inputs \subseteq Dicts /\ Flags \subseteq Dicts /\ Files \subseteq Dicts \cup {None}
  /\ Empty \in Dicts
  /\ \A v \in Values : v # None
  /\ None # Default
BY ConfigAssumption DEF Dicts, Empty

\* What a call of load*() may still write is among the keys it was given.
CallInv ==
  \A t \in Threads :
    /\ call[t] \in Calls
    /\ \A k \in call[t].todo : call[t].dict[k] \in Values
    /\ call[t].op \in {"has", "injected", "unset"} => call[t].key \in Keys

TypeInv ==
  /\ declared \in [Keys -> {"no", "bare", "default"}]
  /\ flags \in Dicts /\ file \in Dicts \cup {None} /\ loaded \in Dicts /\ base \in Dicts
  /\ lock \in Threads \cup {None} /\ calls \in 0..MaxCalls
  /\ frames \in [Threads -> Seq(Dicts)]
  /\ \A t \in Threads : Len(frames[t]) <= MaxDepth
  /\ mixed \in BOOLEAN
  /\ call \in [Threads -> Calls] /\ CallInv

\* A thread that leaves the wrapper that was entered last.
LEMMA LeaveLast ==
  ASSUME NEW s \in Seq(Threads), s # <<>>, NEW t \in Threads, Last(s) = t
  PROVE  RemoveAt(s, SelectLastInSeq(s, LAMBDA u : u = t)) = Front(s)
<1> DEFINE I == {i \in 1..Len(s) : s[i] = t}
<1>1. Len(s) \in I /\ I \subseteq 1..Len(s)
  BY DEF Last
<1>2. Max(I) = Len(s)
  BY <1>1 DEF Max
<1>3. SelectLastInSeq(s, LAMBDA u : u = t) = IF I # {} THEN Max(I) ELSE 0
  BY DEF SelectLastInSeq
<1>4. SelectLastInSeq(s, LAMBDA u : u = t) = Len(s)
  BY <1>1, <1>2, <1>3
<1>5. RemoveAt(s, Len(s)) = Front(s)
  BY DEF RemoveAt, Front
<1>6. QED
  BY <1>4, <1>5

LEMMA SeqFacts ==
  ASSUME NEW S, NEW s \in Seq(S)
  PROVE  /\ Len(s) \in Nat /\ (s = <<>> <=> Len(s) = 0)
         /\ \A i \in 1..Len(s) : s[i] \in S
OBVIOUS

LEMMA AppendFacts ==
  ASSUME NEW S, NEW s \in Seq(S), NEW x \in S
  PROVE  /\ Append(s, x) \in Seq(S) /\ Append(s, x) # <<>>
         /\ Len(Append(s, x)) = Len(s) + 1
         /\ \A i \in 1..Len(s) : Append(s, x)[i] = s[i]
         /\ Append(s, x)[Len(s) + 1] = x
OBVIOUS

LEMMA FrontFacts ==
  ASSUME NEW S, NEW s \in Seq(S), s # <<>>
  PROVE  /\ Front(s) \in Seq(S) /\ Len(Front(s)) = Len(s) - 1
         /\ \A i \in 1..(Len(s) - 1) : Front(s)[i] = s[i]
         /\ Len(s) \in Nat \ {0}
<1>1. Len(s) \in Nat \ {0}
  OBVIOUS
<1>2. Front(s) \in Seq(S)
  BY DEF Front
<1>3. Len(Front(s)) = Len(s) - 1
  <2>1. \A m \in Nat : m <= Len(s) => Len(SubSeq(s, 1, m)) = m
    OBVIOUS
  <2>2. Len(s) - 1 \in Nat
    BY <1>1
  <2>3. Len(s) - 1 <= Len(s)
    BY <1>1
  <2>4. QED
    BY <2>1, <2>2, <2>3, Zenon DEF Front
<1>4. ASSUME NEW i \in 1..(Len(s) - 1) PROVE Front(s)[i] = s[i]
  BY DEF Front
<1>5. QED
  BY <1>1, <1>2, <1>3, <1>4

LEMMA IdleFacts == Idle \in Calls /\ Idle.todo = {} /\ Idle.op = "idle" /\ ~Idle.lost
BY ConstantFacts DEF Idle, Calls

LEMMA GivenFacts ==
  \A d \in Dicts : Given(d) \subseteq Keys /\ \A k \in Given(d) : d[k] \in Values
BY DEF Given, Dicts

LEMMA WrittenFacts ==
  ASSUME NEW d \in Dicts, NEW c \in Calls, NEW k \in Keys, c.dict[k] \in Values
  PROVE  /\ Written(d, c, k) \in Dicts
         /\ \A j \in Keys : d[j] # None => Written(d, c, k)[j] # None
BY ConstantFacts DEF Written, Dicts

LEMMA MarkLostFacts ==
  ASSUME CallInv, MarkLost
  PROVE  /\ CallInv' /\ call' \in [Threads -> Calls]
         /\ \A t \in Threads :
              /\ call'[t].op = call[t].op /\ call'[t].key = call[t].key
              /\ call'[t].lost = (call[t].lost \/ call[t].op = "has")
<1>1. ASSUME NEW t \in Threads
      PROVE  /\ call'[t] \in Calls /\ call'[t].todo = call[t].todo
             /\ call'[t].dict = call[t].dict
             /\ call'[t].op = call[t].op /\ call'[t].key = call[t].key
             /\ call'[t].lost = (call[t].lost \/ call[t].op = "has")
  <2> DEFINE c == call[t]
             b == c.lost \/ c.op = "has"
  <2>1. c \in Calls /\ b \in BOOLEAN
    BY DEF CallInv, Calls
  <2>2. call'[t] = [c EXCEPT !.lost = b]
    BY DEF MarkLost
  <2> HIDE DEF c, b
  <2>3. /\ [c EXCEPT !.lost = b] \in Calls
        /\ \A f \in {"op", "todo", "dict", "key"} : [c EXCEPT !.lost = b][f] = c[f]
        /\ [c EXCEPT !.lost = b].lost = b
    BY <2>1 DEF Calls
  <2>4. QED
    BY <2>2, <2>3 DEF c, b
<1>2. QED
  BY <1>1 DEF CallInv, MarkLost

LEMMA TypeInvInit == Init => TypeInv
<1> SUFFICES ASSUME Init PROVE TypeInv
  OBVIOUS
<1>1. mixed \in BOOLEAN
  BY DEF Init
<1>2. loaded \in Dicts /\ base \in Dicts /\ flags \in Dicts /\ file \in Dicts \cup {None}
  BY ConstantFacts DEF Init
<1>3. CallInv /\ call \in [Threads -> Calls]
  BY IdleFacts DEF Init, CallInv
<1>4. declared \in [Keys -> {"no", "bare", "default"}] /\ calls \in 0..MaxCalls
  BY ConfigAssumption DEF Init
<1>5. /\ frames \in [Threads -> Seq(Dicts)] /\ \A t \in Threads : Len(frames[t]) <= MaxDepth
      /\ lock \in Threads \cup {None}
  BY ConfigAssumption DEF Init
<1>6. QED
  BY <1>1, <1>2, <1>3, <1>4, <1>5 DEF TypeInv

LEMMA TypeInvStep == TypeInv /\ [Next]_vars => TypeInv'
<1> SUFFICES ASSUME TypeInv, [Next]_vars PROVE TypeInv'
  OBVIOUS
<1> USE ConfigAssumption, ConstantFacts, IdleFacts DEF TypeInv
<1>1. ASSUME NEW t \in Threads, NEW k \in Keys, NEW d \in {"bare", "default"}, Declare(t, k, d) PROVE TypeInv'
  BY <1>1 DEF Declare, history, CallInv
<1>2. ASSUME NEW t \in Threads, NEW k \in Keys, NEW v \in Values, LoadFlagValues(t, k, v) PROVE TypeInv'
  BY <1>2 DEF LoadFlagValues, CanCall, history, CallInv, Dicts
<1>3. ASSUME NEW t \in Threads, NEW d \in Inputs, NEW o \in BOOLEAN, NEW a \in BOOLEAN, Load(t, d, o, a) PROVE TypeInv'
  <2> DEFINE c == [Idle EXCEPT !.op = "load", !.todo = Given(d), !.dict = d, !.override = o,
                               !.allow = a]
  <2>1. c \in Calls /\ c.op = "load" /\ c.todo = Given(d) /\ c.dict = d
    BY GivenFacts DEF Idle, Calls
  <2>2. call' = [call EXCEPT ![t] = c]
    BY <1>3 DEF Load
  <2> HIDE DEF c
  <2>3. call' \in [Threads -> Calls] /\ CallInv'
    BY <2>1, <2>2, GivenFacts DEF CallInv
  <2>4. QED
    BY <1>3, <2>3 DEF Load, CanCall, history
<1>4. ASSUME NEW t \in Threads, NEW k \in Keys, LoadKey(t, k) PROVE TypeInv'
  <2>1. call[t] \in Calls /\ call[t].dict[k] \in Values
    BY <1>4 DEF LoadKey, CallInv
  <2>2. loaded' \in Dicts /\ base' \in Dicts
    BY <1>4, <2>1, WrittenFacts DEF LoadKey
  <2> DEFINE c == [call[t] EXCEPT !.todo = call[t].todo \ {k}]
  <2>3. /\ c \in Calls /\ c.todo \subseteq call[t].todo /\ c.dict = call[t].dict
        /\ c.op = call[t].op /\ c.key = call[t].key
    BY <2>1 DEF Calls
  <2>4. call' = [call EXCEPT ![t] = c]
    BY <1>4 DEF LoadKey
  <2> HIDE DEF c
  <2>5. call' \in [Threads -> Calls] /\ CallInv'
    BY <2>3, <2>4 DEF CallInv
  <2>6. QED
    BY <1>4, <2>2, <2>5 DEF LoadKey
<1>5. ASSUME NEW t \in Threads, EndLoad(t) PROVE TypeInv'
  BY <1>5 DEF EndLoad, history, CallInv
<1>6. ASSUME NEW t \in Threads, Reset(t) PROVE TypeInv'
  <2>1. CallInv' /\ call' \in [Threads -> Calls]
    BY <1>6, MarkLostFacts DEF Reset
  <2>2. QED
    BY <1>6, <2>1 DEF Reset, CanCall
<1>7. ASSUME NEW t \in Threads, NEW d \in Inputs, EnterWrapper(t, d) PROVE TypeInv'
  <2> DEFINE c == [Idle EXCEPT !.op = "wrap", !.todo = Given(d), !.dict = d]
  <2>1. c \in Calls /\ c.op = "wrap" /\ c.todo = Given(d) /\ c.dict = d
    BY GivenFacts DEF Idle, Calls
  <2>2. call' = [call EXCEPT ![t] = c]
    BY <1>7 DEF EnterWrapper
  <2> HIDE DEF c
  <2>3. call' \in [Threads -> Calls] /\ CallInv'
    BY <2>1, <2>2, GivenFacts DEF CallInv
  <2>4. frames' \in [Threads -> Seq(Dicts)] /\ \A u \in Threads : Len(frames'[u]) <= MaxDepth
    BY <1>7 DEF EnterWrapper
  <2>5. mixed' \in BOOLEAN
    BY <1>7 DEF EnterWrapper
  <2>6. QED
    BY <1>7, <2>3, <2>4, <2>5 DEF EnterWrapper, CanCall
<1>8. ASSUME NEW t \in Threads, LoadInWrapper(t) PROVE TypeInv'
  <2> DEFINE c == [call[t] EXCEPT !.op = "load"]
  <2>1. call[t] \in Calls
    BY DEF CallInv
  <2>2. c \in Calls /\ c.todo = call[t].todo /\ c.dict = call[t].dict /\ c.op = "load"
    BY <2>1 DEF Calls
  <2>3. call' = [call EXCEPT ![t] = c]
    BY <1>8 DEF LoadInWrapper
  <2> HIDE DEF c
  <2>4. call' \in [Threads -> Calls] /\ CallInv'
    BY <2>2, <2>3 DEF CallInv
  <2>5. QED
    BY <1>8, <2>4 DEF LoadInWrapper, history
<1>9. ASSUME NEW t \in Threads, LeaveWrapper(t) PROVE TypeInv'
  <2>1. CallInv' /\ call' \in [Threads -> Calls]
    BY <1>9, MarkLostFacts DEF LeaveWrapper
  <2>2. /\ loaded' \in Dicts /\ frames' \in [Threads -> Seq(Dicts)]
        /\ \A u \in Threads : Len(frames'[u]) <= MaxDepth
    BY <1>9 DEF LeaveWrapper, Last, Front
  <2>3. mixed' \in BOOLEAN
    BY <1>9 DEF LeaveWrapper
  <2>4. QED
    BY <1>9, <2>1, <2>2, <2>3 DEF LeaveWrapper
<1>10. ASSUME NEW t \in Threads, NEW k \in Keys, Inject(t, k) PROVE TypeInv'
  <2> DEFINE c == [Idle EXCEPT !.op = "has", !.key = k]
  <2>1. c \in Calls /\ c.todo = {} /\ c.key = k
    BY DEF Idle, Calls
  <2>2. call' = [call EXCEPT ![t] = c] \/ call' = [call EXCEPT ![t] = Idle]
    BY <1>10 DEF Inject
  <2> HIDE DEF c
  <2>3. call' \in [Threads -> Calls]
    BY <2>1, <2>2
  <2>4. CallInv'
    BY <2>1, <2>2 DEF CallInv
  <2>5. QED
    BY <1>10, <2>3, <2>4 DEF Inject, CanCall, history
<1>11. ASSUME NEW t \in Threads, InjectValue(t) PROVE TypeInv'
  <2> DEFINE v == GetItem(call[t].key)
             c == [call[t] EXCEPT !.op = IF v = None THEN "unset" ELSE "injected", !.got = v]
  <2>1. call[t] \in Calls /\ call[t].key \in Keys
    BY <1>11 DEF InjectValue, CallInv
  <2>2. v \in Values \cup {Default, None}
    BY <2>1 DEF GetItem, Dicts
  <2>3. call' = [call EXCEPT ![t] = c]
    BY <1>11 DEF InjectValue
  <2> HIDE DEF v
  <2>4. c \in Calls /\ c.todo = call[t].todo /\ c.dict = call[t].dict /\ c.key = call[t].key
    BY <2>1, <2>2 DEF Calls
  <2> HIDE DEF c
  <2>5. call' \in [Threads -> Calls] /\ CallInv'
    BY <2>1, <2>3, <2>4 DEF CallInv
  <2>6. QED
    BY <1>11, <2>5 DEF InjectValue, history
<1>12. ASSUME NEW t \in Threads, Return(t) PROVE TypeInv'
  BY <1>12 DEF Return, history, CallInv
<1>13. CASE UNCHANGED vars
  BY <1>13 DEF vars, CallInv
<1>14. QED
  BY <1>1, <1>2, <1>3, <1>4, <1>5, <1>6, <1>7, <1>8, <1>9, <1>10, <1>11, <1>12, <1>13
     DEF Next

(* Configuration.TypeOK: what the tables, the calls in progress and the    *)
(* saved values hold.                                                      *)
THEOREM TypeCorrect == Spec => []TypeOK
<1>1. TypeInv => TypeOK
  <2> SUFFICES ASSUME TypeInv PROVE TypeOK
    OBVIOUS
  <2>1. \A t \in Threads : Len(frames[t]) \in 0..MaxDepth
                           /\ \A i \in DOMAIN frames[t] : frames[t][i] \in Dicts
    BY ConfigAssumption DEF TypeInv
  <2>2. QED
    BY <2>1 DEF TypeInv, TypeOK
<1>2. QED
  BY <1>1, TypeInvInit, TypeInvStep, PTL DEF Spec

---------------------------------------------------------------------------
(* A key that __contains__ found keeps its value until somebody resets or  *)
(* leaves a wrapper.                                                       *)

FoundInv ==
  \A t \in Threads :
    /\ call[t].op = "has" /\ ~call[t].lost => HasValue(call[t].key)
    /\ call[t].op = "unset" => call[t].lost

LEMMA HasValueKept ==
  ASSUME NEW k \in Keys, HasValue(k),
         declared[k] # "no" => declared'[k] = declared[k],
         flags[k] # None => flags'[k] # None, loaded[k] # None => loaded'[k] # None
  PROVE  HasValue(k)'
BY DEF HasValue

LEMMA HasValueGets == TypeInv => \A k \in Keys : HasValue(k) <=> GetItem(k) # None
BY ConstantFacts DEF TypeInv, HasValue, GetItem, Dicts

LEMMA FoundInvStep == TypeInv /\ FoundInv /\ [Next]_vars => FoundInv'
<1> SUFFICES ASSUME TypeInv, FoundInv, [Next]_vars PROVE FoundInv'
  OBVIOUS
<1>1. \A u \in Threads : call[u] \in Calls /\ (call[u].op = "has" => call[u].key \in Keys)
  BY DEF TypeInv, CallInv
<1> USE IdleFacts
<1>2. ASSUME NEW t \in Threads, NEW k \in Keys, NEW d \in {"bare", "default"}, Declare(t, k, d) PROVE FoundInv'
  BY <1>2, <1>1, HasValueKept DEF Declare, FoundInv, TypeInv
<1>3. ASSUME NEW t \in Threads, NEW k \in Keys, NEW v \in Values, LoadFlagValues(t, k, v) PROVE FoundInv'
  BY <1>3, <1>1, HasValueKept, ConstantFacts DEF LoadFlagValues, FoundInv, TypeInv, Dicts
<1>4. ASSUME NEW t \in Threads, NEW d \in Inputs, NEW o \in BOOLEAN, NEW a \in BOOLEAN, Load(t, d, o, a) PROVE FoundInv'
  BY <1>4, <1>1, HasValueKept DEF Load, FoundInv, TypeInv, CallInv, history, Idle
<1>5. ASSUME NEW t \in Threads, NEW k \in Keys, LoadKey(t, k) PROVE FoundInv'
  <2>1. call[t] \in Calls /\ call[t].dict[k] \in Values
    BY <1>5 DEF LoadKey, TypeInv, CallInv
  <2>2. \A j \in Keys : loaded[j] # None => loaded'[j] # None
    BY <1>5, <2>1, WrittenFacts DEF LoadKey, TypeInv
  <2>3. \A u \in Threads : /\ call'[u].op = call[u].op /\ call'[u].lost = call[u].lost
                           /\ call'[u].key = call[u].key
    BY <1>5, <1>1 DEF LoadKey, TypeInv, Calls
  <2>4. QED
    BY <1>5, <1>1, <2>2, <2>3, HasValueKept DEF LoadKey, FoundInv
<1>6. ASSUME NEW t \in Threads, EndLoad(t) PROVE FoundInv'
  BY <1>6, <1>1, HasValueKept DEF EndLoad, FoundInv, TypeInv
<1>7. ASSUME NEW t \in Threads, Reset(t) PROVE FoundInv'
  BY <1>7, MarkLostFacts DEF Reset, FoundInv, TypeInv
<1>8. ASSUME NEW t \in Threads, NEW d \in Inputs, EnterWrapper(t, d) PROVE FoundInv'
  BY <1>8, <1>1, HasValueKept DEF EnterWrapper, FoundInv, TypeInv, CallInv, Idle
<1>9. ASSUME NEW t \in Threads, LoadInWrapper(t) PROVE FoundInv'
  BY <1>9, <1>1, HasValueKept DEF LoadInWrapper, FoundInv, TypeInv, Calls
<1>10. ASSUME NEW t \in Threads, LeaveWrapper(t) PROVE FoundInv'
  BY <1>10, MarkLostFacts DEF LeaveWrapper, FoundInv, TypeInv
<1>11. ASSUME NEW t \in Threads, NEW k \in Keys, Inject(t, k) PROVE FoundInv'
  BY <1>11, <1>1, HasValueKept DEF Inject, FoundInv, TypeInv, Idle, HasValue
<1>12. ASSUME NEW t \in Threads, InjectValue(t) PROVE FoundInv'
  <2>1. call[t].lost \/ GetItem(call[t].key) # None
    BY <1>12, <1>1, HasValueGets DEF InjectValue, FoundInv
  <2>2. QED
    BY <1>12, <1>1, <2>1, HasValueKept DEF InjectValue, FoundInv, TypeInv, Calls
<1>13. ASSUME NEW t \in Threads, Return(t) PROVE FoundInv'
  BY <1>13, <1>1, HasValueKept DEF Return, FoundInv, TypeInv
<1>14. CASE UNCHANGED vars
  BY <1>14, <1>1, HasValueKept DEF vars, FoundInv
<1>15. QED
  BY <1>2, <1>3, <1>4, <1>5, <1>6, <1>7, <1>8, <1>9, <1>10, <1>11, <1>12, <1>13, <1>14
     DEF Next

(* __contains__, __getitem__ and _asdict compute the same answer from the  *)
(* declarations, the flags, the loaded values and the defaults, and the    *)
(* two look-ups of inject_positional_args agree unless a reset or the end  *)
(* of a wrapper came in between.                                           *)
THEOREM LookupsDoAgree == Spec => []LookupsAgree
<1>1. Init => FoundInv
  BY IdleFacts DEF Init, FoundInv
<1>2. TypeInv /\ FoundInv => LookupsAgree
  <2> SUFFICES ASSUME TypeInv, FoundInv, NEW k \in Keys
               PROVE  /\ HasValue(k) <=> GetItem(k) # None
                      /\ declared[k] # "no" => AsDict[k] = GetItem(k)
                      /\ GetItem(k) # None => flags[k] \in {None, GetItem(k)}
                      /\ \A t \in Threads : call[t].op = "unset" => call[t].lost
    BY DEF LookupsAgree
  <2>1. AsDict[k] = LET d == IF declared[k] = "default" THEN Default ELSE None
                        e == IF loaded[k] # None THEN loaded[k] ELSE d
                    IN  IF declared[k] # "no" /\ flags[k] # None THEN flags[k] ELSE e
    BY DEF AsDict
  <2>2. declared[k] # "no" => AsDict[k] = GetItem(k)
    BY <2>1 DEF GetItem, TypeInv
  <2>3. GetItem(k) # None => flags[k] \in {None, GetItem(k)}
    BY DEF GetItem
  <2>4. QED
    BY <2>2, <2>3, HasValueGets DEF FoundInv
<1>3. QED
  BY <1>1, <1>2, TypeInvInit, TypeInvStep, FoundInvStep, PTL DEF Spec

---------------------------------------------------------------------------
(* save_and_restore.  As long as wrappers are left last in, first out, a   *)
(* thread has one saved configuration for each of its open wrappers, and   *)
(* the outermost of all wrappers saved the values that nobody's wrapper    *)
(* had touched.                                                            *)

Positions(s, t) == {i \in 1..Len(s) : s[i] = t}

LEMMA PositionsAppend ==
  ASSUME NEW s \in Seq(Threads), NEW t \in Threads, NEW u \in Threads, IsFiniteSet(Positions(s, u))
  PROVE  /\ IsFiniteSet(Positions(Append(s, t), u))
         /\ Cardinality(Positions(Append(s, t), u))
              = IF u = t THEN Cardinality(Positions(s, u)) + 1 ELSE Cardinality(Positions(s, u))
<1>1. CASE u = t
  <2>1. \A i : i \in Positions(Append(s, t), u) <=> i \in Positions(s, u) \/ i = Len(s) + 1
    BY <1>1, AppendFacts, SeqFacts DEF Positions
  <2>2. Positions(Append(s, t), u) = Positions(s, u) \cup {Len(s) + 1}
    BY <2>1
  <2>3. Len(s) + 1 \notin Positions(s, u)
    BY SeqFacts DEF Positions
  <2>4. QED
    BY <1>1, <2>2, <2>3, FS_AddElement
<1>2. CASE u # t
  <2>1. \A i : i \in Positions(Append(s, t), u) <=> i \in Positions(s, u)
    BY <1>2, AppendFacts, SeqFacts DEF Positions
  <2>2. Positions(Append(s, t), u) = Positions(s, u)
    BY <2>1
  <2>3. QED
    BY <1>2, <2>2
<1>3. QED
  BY <1>1, <1>2

LEMMA PositionsFront ==
  ASSUME NEW s \in Seq(Threads), s # <<>>, NEW u \in Threads, IsFiniteSet(Positions(s, u))
  PROVE  /\ IsFiniteSet(Positions(Front(s), u))
         /\ Cardinality(Positions(Front(s), u))
              = IF u = Last(s) THEN Cardinality(Positions(s, u)) - 1 ELSE Cardinality(Positions(s, u))
<1>1. \A i : i \in Positions(Front(s), u) <=> i \in Positions(s, u) /\ i # Len(s)
  BY FrontFacts, SeqFacts DEF Positions
<1>2. Positions(Front(s), u) = Positions(s, u) \ {Len(s)}
  BY <1>1
<1>3. Len(s) \in Positions(s, u) <=> u = Last(s)
  BY FrontFacts DEF Positions, Last
<1>4. QED
  BY <1>2, <1>3, FS_RemoveElement

StackInv ==
  ~mixed =>
    /\ open \in Seq(Threads)
    /\ \A t \in Threads : IsFiniteSet(Positions(open, t))
                             /\ Cardinality(Positions(open, t)) = Len(frames[t])
    /\ open = <<>> => loaded = base
    /\ open # <<>> => frames[open[1]][1] = base

LEMMA StackFacts ==
  ASSUME StackInv, ~mixed, TypeInv
  PROVE  /\ open = <<>> => \A t \in Threads : frames[t] = <<>>
         /\ open # <<>> => open[1] \in Threads /\ frames[open[1]] # <<>>
         /\ Len(open) = 1 => Len(frames[open[1]]) = 1
         /\ Len(open) > 1 /\ Last(open) = open[1] => Len(frames[open[1]]) > 1
<1> USE DEF StackInv, TypeInv
<1>1. ASSUME open = <<>>, NEW t \in Threads PROVE frames[t] = <<>>
  <2>1. Positions(open, t) = {}
    BY <1>1 DEF Positions
  <2>2. QED
    BY <2>1, FS_EmptySet
<1>2. ASSUME open # <<>> PROVE open[1] \in Threads /\ frames[open[1]] # <<>>
  <2>1. open[1] \in Threads /\ 1 \in Positions(open, open[1])
    BY <1>2 DEF Positions
  <2>2. Cardinality(Positions(open, open[1])) # 0
    BY <2>1, FS_EmptySet
  <2>3. QED
    BY <2>1, <2>2
<1>3. ASSUME Len(open) = 1 PROVE Len(frames[open[1]]) = 1
  <2>1. open[1] \in Threads
    <3>1. open \in Seq(Threads) /\ 1 \in 1..Len(open)
      BY <1>3
    <3>2. QED
      BY <3>1, SeqFacts
  <2>2. \A i : i \in Positions(open, open[1]) <=> i = 1
    BY <1>3 DEF Positions
  <2>3. Positions(open, open[1]) = {1}
    BY <2>2
  <2>4. QED
    BY <2>1, <2>3, FS_Singleton
<1>4. ASSUME Len(open) > 1, Last(open) = open[1] PROVE Len(frames[open[1]]) > 1
  <2> DEFINE P == Positions(open, open[1])
  <2>1. open[1] \in Threads /\ 1 \in P /\ Len(open) \in P \ {1}
    BY <1>4 DEF Positions, Last
  <2>2. Cardinality(P \ {1}) = Cardinality(P) - 1 /\ IsFiniteSet(P \ {1})
    BY <2>1, FS_RemoveElement
  <2>3. Cardinality(P \ {1}) # 0 /\ Cardinality(P \ {1}) \in Nat
    BY <2>1, <2>2, FS_EmptySet, FS_CardinalityType
  <2>4. QED
    BY <2>1, <2>2, <2>3
<1>5. QED
  BY <1>1, <1>2, <1>3, <1>4

\* Steps that enter and leave no wrapper.
LEMMA StackKept ==
  ASSUME StackInv, UNCHANGED <<open, mixed, frames>>,
         ~mixed /\ open # <<>> => base' = base,
         ~mixed /\ open = <<>> /\ loaded = base => loaded' = base'
  PROVE  StackInv'
BY DEF StackInv, Positions

LEMMA StackEnter ==
  ASSUME TypeInv, StackInv, NEW t \in Threads, ~mixed',
         frames' = [frames EXCEPT ![t] = Append(@, loaded)], open' = Append(open, t),
         mixed' = (mixed \/ ~Free), base' = base
  PROVE  StackInv'
<1>1. ~mixed
  OBVIOUS
<1> USE DEF StackInv, TypeInv
<1>2. open' \in Seq(Threads) /\ open' # <<>> /\ Len(open') = Len(open) + 1
  BY <1>1
<1>3. ASSUME NEW u \in Threads
      PROVE  /\ IsFiniteSet(Positions(open', u)) /\ Cardinality(Positions(open', u)) = Len(frames'[u])
  <2>1. Len(frames'[u]) = IF u = t THEN Len(frames[u]) + 1 ELSE Len(frames[u])
    BY AppendFacts
  <2>2. QED
    BY <2>1, <1>1, PositionsAppend
<1>4. frames'[open'[1]][1] = base'
  <2>1. CASE open = <<>>
    BY <2>1, <1>1, StackFacts
  <2>2. CASE open # <<>>
    <3>1. open'[1] = open[1] /\ open[1] \in Threads /\ frames[open[1]] # <<>>
      BY <2>2, <1>1, StackFacts
    <3>2. frames'[open[1]][1] = frames[open[1]][1]
      BY <3>1
    <3>3. QED
      BY <2>2, <3>1, <3>2, <1>1
  <2>3. QED
    BY <2>1, <2>2
<1>5. QED
  BY <1>2, <1>3, <1>4

LEMMA StackLeave ==
  ASSUME TypeInv, StackInv, NEW t \in Threads, LeaveWrapper(t), ~mixed'
  PROVE  StackInv'
<1>1. ~mixed /\ Last(open) = t
  BY DEF LeaveWrapper
<1>2. open \in Seq(Threads) /\ open # <<>>
  BY <1>1, StackFacts DEF StackInv, LeaveWrapper
<1>3. /\ open' = Front(open) /\ frames' = [frames EXCEPT ![t] = Front(@)]
      /\ loaded' = Last(frames[t]) /\ base' = base /\ frames[t] # <<>>
  BY <1>1, <1>2, LeaveLast DEF LeaveWrapper
<1>4. /\ open' \in Seq(Threads) /\ Len(open') = Len(open) - 1
      /\ \A i \in 1..Len(open') : open'[i] = open[i]
  BY <1>2, <1>3, FrontFacts
<1>5. Len(open) \in Nat \ {0} /\ Len(open') \in Nat
  BY <1>2, <1>4, FrontFacts, SeqFacts
<1> USE DEF StackInv, TypeInv
<1>6. ASSUME NEW u \in Threads
      PROVE  /\ IsFiniteSet(Positions(open', u)) /\ Cardinality(Positions(open', u)) = Len(frames'[u])
  <2>1. Len(frames'[u]) = IF u = t THEN Len(frames[u]) - 1 ELSE Len(frames[u])
    BY <1>3, FrontFacts
  <2>2. QED
    BY <2>1, <1>1, <1>2, <1>3, PositionsFront
<1>7. open' = <<>> => loaded' = base'
  <2> SUFFICES ASSUME open' = <<>> PROVE loaded' = base'
    OBVIOUS
  <2>1. Len(open) = 1 /\ open[1] = t
    <3>1. Len(open') = 0
      OBVIOUS
    <3>2. Len(open) = 1
      BY <3>1, <1>5, <1>4
    <3>3. QED
      BY <3>2, <1>1 DEF Last
  <2>2. Len(frames[t]) = 1 /\ frames[t][1] = base
    BY <2>1, <1>1, <1>2, StackFacts
  <2>3. QED
    BY <2>2, <1>3 DEF Last
<1>8. open' # <<>> => frames'[open'[1]][1] = base'
  <2> SUFFICES ASSUME open' # <<>> PROVE frames'[open'[1]][1] = base'
    OBVIOUS
  <2>1. Len(open) > 1 /\ open'[1] = open[1] /\ open[1] \in Threads
    BY <1>2, <1>4
  <2>2. frames[open[1]][1] = base
    BY <1>1, <1>2
  <2>3. CASE open[1] = t
    <3>1. Len(frames[t]) > 1
      BY <2>1, <2>3, <1>1, StackFacts
    <3>2. QED
      BY <2>1, <2>2, <2>3, <3>1, <1>3 DEF Front
  <2>4. CASE open[1] # t
    BY <2>1, <2>2, <2>4, <1>3
  <2>5. QED
    BY <2>3, <2>4
<1>9. QED
  BY <1>4, <1>6, <1>7, <1>8

LEMMA StackInvStep == TypeInv /\ StackInv /\ [Next]_vars => StackInv'
<1> SUFFICES ASSUME TypeInv, StackInv, [Next]_vars PROVE StackInv'
  OBVIOUS
<1>1. ASSUME NEW t \in Threads, NEW k \in Keys, NEW d \in {"bare", "default"}, Declare(t, k, d) PROVE StackInv'
  BY <1>1, StackKept DEF Declare, history
<1>2. ASSUME NEW t \in Threads, NEW k \in Keys, NEW v \in Values, LoadFlagValues(t, k, v) PROVE StackInv'
  BY <1>2, StackKept DEF LoadFlagValues, history
<1>3. ASSUME NEW t \in Threads, NEW d \in Inputs, NEW o \in BOOLEAN, NEW a \in BOOLEAN, Load(t, d, o, a) PROVE StackInv'
  BY <1>3, StackKept DEF Load, history
<1>4. ASSUME NEW t \in Threads, NEW k \in Keys, LoadKey(t, k) PROVE StackInv'
  BY <1>4, StackKept DEF LoadKey, history
<1>5. ASSUME NEW t \in Threads, EndLoad(t) PROVE StackInv'
  BY <1>5, StackKept DEF EndLoad, history
<1>6. ASSUME NEW t \in Threads, Reset(t) PROVE StackInv'
  BY <1>6, StackKept DEF Reset, history
<1>7. ASSUME NEW t \in Threads, NEW d \in Inputs, EnterWrapper(t, d) PROVE StackInv'
  <2>1. CASE mixed'
    BY <2>1 DEF StackInv
  <2>2. CASE ~mixed'
    BY <1>7, <2>2, StackEnter DEF EnterWrapper
  <2>3. QED
    BY <2>1, <2>2
<1>8. ASSUME NEW t \in Threads, LoadInWrapper(t) PROVE StackInv'
  BY <1>8, StackKept DEF LoadInWrapper, history
<1>9. ASSUME NEW t \in Threads, LeaveWrapper(t) PROVE StackInv'
  <2>1. CASE mixed'
    BY <2>1 DEF StackInv
  <2>2. CASE ~mixed'
    BY <1>9, <2>2, StackLeave
  <2>3. QED
    BY <2>1, <2>2
<1>10. ASSUME NEW t \in Threads, NEW k \in Keys, Inject(t, k) PROVE StackInv'
  BY <1>10, StackKept DEF Inject, history
<1>11. ASSUME NEW t \in Threads, InjectValue(t) PROVE StackInv'
  BY <1>11, StackKept DEF InjectValue, history
<1>12. ASSUME NEW t \in Threads, Return(t) PROVE StackInv'
  BY <1>12, StackKept DEF Return, history
<1>13. CASE UNCHANGED vars
  BY <1>13, StackKept DEF vars, history
<1>14. QED
  BY <1>1, <1>2, <1>3, <1>4, <1>5, <1>6, <1>7, <1>8, <1>9, <1>10, <1>11, <1>12, <1>13
     DEF Next

(* save_and_restore: once the last wrapper is left the configuration holds *)
(* what the calls outside every wrapper loaded, for wrappers of any number *)
(* of threads nested to any depth, if they are left in the order opposite  *)
(* to that in which they were entered and no load is cut in two.           *)
THEOREM WrappersRestore == Spec => []Restored
<1>1. Init => StackInv
  <2> SUFFICES ASSUME Init PROVE StackInv
    OBVIOUS
  <2>1. \A t \in Threads : Positions(open, t) = {}
    BY DEF Init, Positions
  <2>2. \A t \in Threads : IsFiniteSet(Positions(open, t)) /\ Cardinality(Positions(open, t)) = 0
    BY <2>1, FS_EmptySet
  <2>3. \A t \in Threads : Len(frames[t]) = 0
    BY DEF Init
  <2>4. open \in Seq(Threads) /\ open = <<>> /\ loaded = base
    BY DEF Init
  <2>5. QED
    BY <2>2, <2>3, <2>4 DEF StackInv
<1>2. StackInv => Restored
  BY DEF StackInv, Restored
<1>3. QED
  BY <1>1, <1>2, TypeInvInit, TypeInvStep, StackInvStep, PTL DEF Spec
====

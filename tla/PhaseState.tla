----------------------------- MODULE PhaseState -----------------------------
(***************************************************************************)
(* A phase's measurements, attachments and diagnoses, from the values the  *)
(* phase body sets to the records of the test.                             *)
(* Sources: openhtf/core/measurements.py, openhtf/core/test_state.py       *)
(* (PhaseState, and TestState where it keeps records), test_record.py and  *)
(* openhtf/core/diagnoses_lib.py. What a value is worth: Validators.       *)
(*                                                                         *)
(* Three threads share a running phase's state without a lock: the body    *)
(* sets values; a reader (the station server's watcher) converts the state *)
(* to base types; the test executor finalizes the phase, also when a body  *)
(* that timed out is still alive.                                          *)
(***************************************************************************)
EXTENDS FiniteSets, Validators

CONSTANTS
    Declared,       \* for each phase, the names of its measurements
    Dimensioned,    \* names of dimensioned measurements
    Transformed,    \* names with a transform_fn
    ValidatorsOf,   \* for each name, its validators
    Conditional,    \* for each name, those that the diagnosis "res" adds (validate_on)
    AllowFail,      \* names with allow_fail
    Coords,         \* coordinates of dimensioned measurements
    Values,         \* what a body can measure
    Results,        \* what a body can return or raise
    Returns,        \* what a phase diagnoser can return: sequences of "res" (a
                    \* diagnosis), "fail", "internal" or "invalid"
    AlwaysFail,     \* the diagnosers' always_fail
    AllowUnset,     \* CONF.allow_unset_measurements
    StopOnFail,     \* phases with stop_on_measurement_fail
    MaxSets,        \* for each phase, a bound on what its body sets
    MaxReads        \* bound on the reader's conversions

Phases == 1..Len(Declared)
Names == UNION {Declared[p] : p \in Phases}

(* The validators that the measurement named n can have. *)
Suitable(n) == IF n \in Dimensioned THEN PivotValidators ELSE ScalarValidators

ASSUME NamesAssumption ==
    /\ Len(Declared) \in Nat /\ Dimensioned \cup Transformed \cup AllowFail \subseteq Names
    /\ \A n \in Names :
         ValidatorsOf[n] \in Seq(Suitable(n)) /\ Conditional[n] \in Seq(Suitable(n))
    /\ Values \subseteq MeasuredValues
    /\ Returns \subseteq Seq({"res", "fail", "internal", "invalid"})
    /\ StopOnFail \subseteq Phases /\ MaxSets \in [Phases -> Nat] /\ MaxReads \in Nat

VARIABLES
    state,      \* the PhaseState of each phase
    upd,        \* the sets that _update_measurements has been, per phase
    body,       \* the body thread of each phase: pc, measurement, reference
    epc,        \* where the executor is in running_phase_context
    phase,      \* the phase that it runs, or ran last
    recorded,   \* phases in test_record.phases
    diagnoses,  \* test_record.diagnoses, a set of results
    store,      \* results in the DiagnosesStore
    outcome,    \* test_record.outcome
    marginal,   \* test_record.marginal
    reader      \* the reader's pc, phase, set and remaining names

vars == <<state, upd, body, epc, phase, recorded, diagnoses, store, outcome, marginal,
          reader>>

(* PhaseExecutionOutcome.is_terminal; "LIMIT" stands for a REPEAT that hit the limit. *)
Terminal == {"STOP", "EXC", "TIMEOUT", "KILLED"}
EndsTest == Terminal \cup {"LIMIT"}

(* A new Measurement, with the conditional validators of results known so far. *)
Measurement(n) ==
    [value |-> <<>>,        \* stored values: <<coordinate, value, transformed>>
     base |-> <<>>,         \* their base types, cached while set
     rebuild |-> FALSE,     \* _cached_basetype_values is None
     overridden |-> {},     \* history: coordinates set more than once
     outcome |-> "UNSET", marginal |-> FALSE,
     validators |-> ValidatorsOf[n] \o IF "res" \in store THEN Conditional[n] ELSE <<>>,
     cb |-> TRUE,           \* _notification_cb is set
     shown |-> <<>>, shownOutcome |-> "UNSET"]     \* Measurement._cached

(* PhaseState.from_descriptor and its __attrs_post_init__. *)
FromDescriptor(p) ==
    [m |-> [n \in Declared[p] |-> Measurement(n)], result |-> "none", outcome |-> "none",
     marginal |-> FALSE, failures |-> {}, attachments |-> {}, sets |-> 0,
     zombie |-> FALSE]      \* history: finalized while its body was alive

Init ==
    /\ state = <<>> /\ upd = [p \in Phases |-> <<{}>>]
    /\ body = [p \in Phases |-> [pc |-> "off", name |-> "none", ref |-> 0, coord |-> "none"]]
    /\ epc = "next" /\ phase = 0 /\ recorded = <<>>
    /\ diagnoses = {} /\ store = {} /\ outcome = "none" /\ marginal = FALSE
    /\ reader = [pc |-> "idle", phase |-> 0, ref |-> 0, size |-> 0, todo |-> {}, reads |-> 0]

-----------------------------------------------------------------------------
(* Measurement. *)

ValuesOf(x) == [i \in DOMAIN x.value |-> x.value[i][2]]

(* Mutant: the validators that a diagnosis adds are not applied. *)
M_Judgement(x) == Call(x.validators[1], ValuesOf(x))

(* all() over the validators, in Measurement.validate. *)
Judgement(x) == All([i \in DOMAIN x.validators |-> Call(x.validators[i], ValuesOf(x))])

(* any() over those with is_marginal. *)
Marginality(x) ==
    LET each == [i \in DOMAIN x.validators |-> IsMarginal(x.validators[i], ValuesOf(x))]
        i == SelectInSeq(each, LAMBDA d : d # "fail")
    IN  IF i = 0 THEN "fail" ELSE each[i]

(* validate() raises: a validator did, or, once the value has passed, its is_marginal. *)
Raises(x) ==
    \/ Judgement(x) = "raise"
    \/ Judgement(x) = "pass" /\ Marginality(x) = "raise"

(* Mutant: the cached dict is not updated. *)
M_Validate(x) ==
    LET passes == Judgement(x) = "pass" /\ ~Raises(x)
    IN  [x EXCEPT !.outcome = IF passes THEN "PASS" ELSE "FAIL",
                  !.marginal = @ \/ (passes /\ Marginality(x) = "pass")]

(* Measurement.validate; marginal is only ever set. *)
Validate(x) ==
    LET passes == Judgement(x) = "pass" /\ ~Raises(x)
        o == IF passes THEN "PASS" ELSE "FAIL"
    IN  [x EXCEPT !.outcome = o, !.shownOutcome = o,
                  !.marginal = @ \/ (passes /\ Marginality(x) = "pass")]

(* Measurement.as_base_types, with basetype_value. The list in the dict is the
   cached list itself: it grows with it until an override drops the cache. *)
AsBaseTypes(x) ==
    LET b == IF x.rebuild THEN x.value ELSE x.base
    IN  IF x.value = <<>> THEN x
        ELSE [x EXCEPT !.base = b, !.rebuild = FALSE, !.shown = b]

(* MeasuredValue.set: transform, store, cache. *)
SetScalar(n, x, v) ==
    LET stored == << <<"scalar", v, n \in Transformed>> >>
    IN  [x EXCEPT !.value = stored, !.base = stored]

HasCoord(x, c) == \E i \in DOMAIN x.value : x.value[i][1] = c

(* DimensionedMeasuredValue.__setitem__ first sees to the cache, with the value
   as given, *)
CacheItem(x, c, v) ==
    IF HasCoord(x, c)
      THEN [x EXCEPT !.base = <<>>, !.rebuild = TRUE, !.overridden = @ \cup {c}]
      ELSE IF x.rebuild THEN x
      ELSE LET b == Append(x.base, <<c, v, FALSE>>)
           IN  [x EXCEPT !.base = b, !.shown = IF @ = <<>> THEN @ ELSE b]

(* and then stores the transformed value at its place, or as the last. *)
StoreItem(n, x, c, v) ==
    LET item == <<c, v, n \in Transformed>>
    IN  [x EXCEPT !.value = IF HasCoord(x, c)
                              THEN [i \in DOMAIN @ |-> IF @[i][1] = c THEN item ELSE @[i]]
                              ELSE Append(@, item)]

-----------------------------------------------------------------------------
(* The body of phase p. It may go on after its phase has been finalized. *)

At(p, pc) == body[p].pc = pc
Goto(p, pc) == body' = [body EXCEPT ![p].pc = pc]
CanSet(p) == At(p, "run") /\ state[p].sets < MaxSets[p]
PutMeas(p, n, x) == state' = [state EXCEPT ![p].m[n] = x, ![p].sets = @ + 1]
ExecutorUnchanged == UNCHANGED <<epc, phase, recorded, diagnoses, store, outcome, marginal>>

(* Collection.__setitem__: set, validate, notify. A validator that raises ends
   the statement, and the callback is not called. *)
SetItem(p, n, v) ==
    /\ CanSet(p) /\ n \in Declared[p] \ Dimensioned
    /\ LET x == Validate(SetScalar(n, state[p].m[n], v))
       IN  /\ PutMeas(p, n, x)
           /\ body' = [body EXCEPT ![p].pc = IF Raises(x) \/ ~x.cb THEN "run" ELSE "load",
                                   ![p].name = n]
    /\ UNCHANGED <<upd, reader>> /\ ExecutorUnchanged

(* Collection.__getitem__, then the first part of __setitem__ on its result. *)
SetDimensioned(p, n, c, v) ==
    /\ CanSet(p) /\ n \in Declared[p] \cap Dimensioned
    /\ PutMeas(p, n, CacheItem(state[p].m[n], c, v))
    /\ body' = [body EXCEPT ![p] = [pc |-> "store", name |-> n, ref |-> 0,
                                    coord |-> <<c, v>>]]
    /\ UNCHANGED <<upd, reader>> /\ ExecutorUnchanged

(* The value is stored; notify_value_set makes the outcome PARTIALLY_SET. *)
StoreDimensioned(p) ==
    /\ At(p, "store")
    /\ LET n == body[p].name
           x == StoreItem(n, state[p].m[n], body[p].coord[1], body[p].coord[2])
       IN  /\ state' = [state EXCEPT ![p].m[n] = [x EXCEPT !.outcome = "PARTIALLY_SET"]]
           /\ body' = [body EXCEPT ![p].pc = IF x.cb THEN "load" ELSE "run",
                                   ![p].coord = "none"]
    /\ UNCHANGED <<upd, reader>> /\ ExecutorUnchanged

(* PhaseState._notify: load _update_measurements, add the name. *)
NotifyLoad(p) ==
    /\ At(p, "load")
    /\ body' = [body EXCEPT ![p].pc = "add", ![p].ref = Len(upd[p])]
    /\ UNCHANGED <<state, upd, reader>> /\ ExecutorUnchanged

NotifyAdd(p) ==
    /\ At(p, "add")
    /\ upd' = [upd EXCEPT ![p][body[p].ref] = @ \cup {body[p].name}]
    /\ body' = [body EXCEPT ![p].pc = "run", ![p].ref = 0]
    /\ UNCHANGED <<state, reader>> /\ ExecutorUnchanged

(* Collection.set_measurement_outcome_to_skipped: ValueError when it is set. *)
SkipMeasurement(p, n) ==
    /\ CanSet(p) /\ n \in Declared[p] /\ state[p].m[n].value = <<>>
    /\ PutMeas(p, n, [state[p].m[n] EXCEPT !.outcome = "SKIPPED"])
    /\ UNCHANGED <<upd, body, reader>> /\ ExecutorUnchanged

(* Mutant: the attachment is made later, by a thread of its own. *)
M_Attach(p, a) ==
    /\ p <= phase /\ state[p].sets < MaxSets[p] /\ a \notin state[p].attachments
    /\ state' = [state EXCEPT ![p].attachments = @ \cup {a}, ![p].sets = @ + 1]
    /\ UNCHANGED <<upd, body, reader>> /\ ExecutorUnchanged

(* PhaseState.attach: DuplicateAttachmentError for a name that is taken. *)
Attach(p, a) ==
    /\ CanSet(p) /\ a \notin state[p].attachments
    /\ state' = [state EXCEPT ![p].attachments = @ \cup {a}, ![p].sets = @ + 1]
    /\ UNCHANGED <<upd, body, reader>> /\ ExecutorUnchanged

(* The body returns or raises. *)
BodyEnds(p) ==
    /\ At(p, "run")
    /\ \E r \in Results :
         state' = IF state[p].result = "none" THEN [state EXCEPT ![p].result = r] ELSE state
    /\ Goto(p, "end")
    /\ UNCHANGED <<upd, reader>> /\ ExecutorUnchanged

-----------------------------------------------------------------------------
(* PhaseState.as_base_types in another thread. *)

ReadLoad ==
    /\ reader.pc = "idle" /\ reader.reads < MaxReads
    /\ epc \notin {"next", "done"}
    /\ reader' = [reader EXCEPT !.pc = "swap", !.phase = phase, !.ref = Len(upd[phase]),
                                !.reads = @ + 1]
    /\ UNCHANGED <<state, upd, body>> /\ ExecutorUnchanged

ReadSwap ==
    /\ reader.pc = "swap"
    /\ upd' = [upd EXCEPT ![reader.phase] = Append(@, {})]
    /\ LET names == upd[reader.phase][reader.ref]
       IN  reader' = [reader EXCEPT !.pc = "each", !.todo = names, !.size = Cardinality(names)]
    /\ UNCHANGED <<state, body>> /\ ExecutorUnchanged

(* The next name; a set that has grown makes the iteration raise. *)
ReadEach ==
    /\ reader.pc = "each"
    /\ \/ /\ \/ reader.todo = {}
             \/ Cardinality(upd[reader.phase][reader.ref]) # reader.size
          /\ reader' = [reader EXCEPT !.pc = "idle", !.todo = {}, !.size = 0, !.ref = 0]
          /\ UNCHANGED state
       \/ /\ Cardinality(upd[reader.phase][reader.ref]) = reader.size
          /\ \E n \in reader.todo :
               /\ reader' = [reader EXCEPT !.todo = @ \ {n}]
               /\ state' = [state EXCEPT ![reader.phase].m[n] = AsBaseTypes(@)]
    /\ UNCHANGED <<upd, body>> /\ ExecutorUnchanged

-----------------------------------------------------------------------------
(* running_phase_context, in the executor's thread. *)

ThreadsUnchanged == UNCHANGED <<upd, reader>>

(* The remaining phases are not run after a terminal one. *)
Ended == \E p \in ToSet(recorded) : state[p].result \in EndsTest

StartPhase ==
    /\ epc = "next" /\ phase < Len(Declared) /\ ~Ended
    /\ phase' = phase + 1
    /\ state' = Append(state, FromDescriptor(phase + 1))
    /\ body' = [body EXCEPT ![phase + 1].pc = "run"]
    /\ epc' = "running"
    /\ ThreadsUnchanged /\ UNCHANGED <<recorded, diagnoses, store, outcome, marginal>>

(* The body has ended, or the phase timed out and its body is left behind. *)
PhaseEnds ==
    /\ epc = "running"
    /\ \/ At(phase, "end") /\ UNCHANGED state
       \/ /\ ~At(phase, "end") /\ "TIMEOUT" \in Results
          /\ state' = [state EXCEPT ![phase].result = "TIMEOUT", ![phase].zombie = TRUE]
    /\ epc' = "measurements"
    /\ ThreadsUnchanged /\ UNCHANGED <<body, phase, recorded, diagnoses, store, outcome, marginal>>

FinalMeasurement(x, skipped) ==
    LET y == [x EXCEPT !.cb = FALSE,
                       !.outcome = IF skipped /\ @ = "UNSET" THEN "SKIPPED" ELSE @]
    IN  IF y.outcome = "PARTIALLY_SET" THEN Validate(y) ELSE y

(* _finalize_measurements; a validator's exception becomes the phase's result. *)
FinalizeMeasurements ==
    /\ epc = "measurements"
    /\ LET s == state[phase]
           raised == \E n \in DOMAIN s.m :
                        s.m[n].outcome = "PARTIALLY_SET" /\ Raises(s.m[n])
       IN  state' = [state EXCEPT
             ![phase].m = [n \in DOMAIN @ |-> FinalMeasurement(@[n], s.result = "SKIP")],
             ![phase].result = IF raised /\ @ \notin Terminal THEN "EXC" ELSE @]
    /\ epc' = "outcome"
    /\ ThreadsUnchanged /\ UNCHANGED <<body, phase, recorded, diagnoses, store, outcome, marginal>>

(* Mutant: an UNSET measurement does not fail the phase. *)
M_MeasurementsPass(m) ==
    \A n \in DOMAIN m :
        \/ m[n].outcome \in {"PASS", "SKIPPED", "UNSET"}
        \/ m[n].outcome = "FAIL" /\ n \in AllowFail

MeasurementsPass(m) ==
    \A n \in DOMAIN m :
        \/ m[n].outcome \in {"PASS", "SKIPPED"}
        \/ m[n].outcome = "FAIL" /\ n \in AllowFail
        \/ m[n].outcome = "UNSET" /\ AllowUnset

(* _set_prediagnosis_phase_outcome. *)
PrediagnosisOutcome(s) ==
    CASE s.result \in EndsTest -> "ERROR"
      [] s.result \in {"REPEAT", "SKIP"} -> "SKIP"
      [] s.result \in {"FAIL_SUBTEST", "FAIL_AND_CONTINUE"} -> "FAIL"
      [] OTHER -> IF MeasurementsPass(s.m) THEN "PASS" ELSE "FAIL"

SetPrediagnosisOutcome ==
    /\ epc = "outcome"
    /\ LET s == state[phase]
           o == PrediagnosisOutcome(s)
           stop == s.result = "CONTINUE" /\ o = "FAIL" /\ phase \in StopOnFail
       IN  state' = [state EXCEPT ![phase].outcome = o,
                        ![phase].result = IF stop THEN "STOP" ELSE @,
                        ![phase].marginal = o = "PASS" /\ \E n \in DOMAIN s.m : s.m[n].marginal]
    /\ epc' = "diagnose"
    /\ ThreadsUnchanged /\ UNCHANGED <<body, phase, recorded, diagnoses, store, outcome, marginal>>

(* DiagnosesManager._convert_result yields until an element is refused: one of
   another type, or an internal one that always_fail would make a failure. *)
Refused(d) == d = "invalid" \/ (d = "internal" /\ AlwaysFail)
Yielded(ret) ==
    {ret[i] : i \in {j \in DOMAIN ret : \A k \in 1..j : ~Refused(ret[k])}}
Failing(d) == d = "fail" \/ AlwaysFail

(* Internal diagnoses are not saved to the test record. *)
InTestRecord(d) == d # "internal"

(* _execute_phase_diagnosers, with one diagnoser. *)
ExecutePhaseDiagnosers ==
    /\ epc = "diagnose"
    /\ \E ret \in IF state[phase].result \in {"KILLED", "LIMIT", "REPEAT", "SKIP"}
               THEN {<<>>} ELSE Returns :
         LET added == Yielded(ret)
             raised == \E i \in DOMAIN ret : Refused(ret[i])
         IN  /\ state' = [state EXCEPT
                   ![phase].failures = @ \cup {d \in added : Failing(d)},
                   ![phase].result = IF raised /\ @ \notin Terminal THEN "EXC" ELSE @]
             /\ diagnoses' = diagnoses \cup {d \in added : InTestRecord(d)}
             /\ store' = store \cup added
    /\ epc' = "record"
    /\ ThreadsUnchanged /\ UNCHANGED <<body, phase, recorded, outcome, marginal>>

(* Mutant: a diagnoser's error does not count. *)
M_PostdiagnosisOutcome(s) ==
    IF s.outcome = "PASS" /\ s.failures # {} THEN "FAIL" ELSE s.outcome

(* _set_postdiagnosis_phase_outcome. *)
PostdiagnosisOutcome(s) ==
    IF s.result \in Terminal THEN "ERROR"
    ELSE IF s.outcome = "PASS" /\ s.failures # {} THEN "FAIL"
    ELSE s.outcome

(* The rest of finalize, add_phase_record (whose dict of a measurement is the
   measurement's own) and the end of the context. *)
RecordPhase ==
    /\ epc = "record"
    /\ state' = [state EXCEPT ![phase].outcome = PostdiagnosisOutcome(state[phase]),
                              ![phase].m = [n \in DOMAIN @ |-> AsBaseTypes(@[n])]]
    /\ recorded' = Append(recorded, phase)
    /\ epc' = "next"
    /\ ThreadsUnchanged /\ UNCHANGED <<body, phase, diagnoses, store, outcome, marginal>>

(* TestState.finalize_normally, for a test without subtests. *)
NormalOutcome ==
    LET outcomes == {state[p].outcome : p \in ToSet(recorded)}
    IN  IF "FAIL" \in outcomes THEN "FAIL"
        ELSE IF outcomes = {"SKIP"} THEN "ERROR"
        ELSE IF \E d \in diagnoses : Failing(d) THEN "FAIL"
        ELSE "PASS"

(* finalize_from_phase_outcome, and abort. *)
EarlyOutcome(result) ==
    CASE result = "TIMEOUT" -> "TIMEOUT"
      [] result \in {"STOP", "LIMIT"} -> "FAIL"
      [] result = "KILLED" -> "ABORTED"
      [] OTHER -> "ERROR"

FinalizeTest ==
    /\ epc = "next" /\ (Ended \/ phase = Len(Declared))
    /\ outcome' = IF Ended THEN EarlyOutcome(state[phase].result) ELSE NormalOutcome
    /\ marginal' = (outcome' = "PASS" /\ \E p \in ToSet(recorded) : state[p].marginal)
    /\ epc' = "done"
    /\ ThreadsUnchanged /\ UNCHANGED <<state, body, phase, recorded, diagnoses, store>>

Finished == epc = "done" /\ UNCHANGED vars

BodyStep(p) ==
    \/ \E n \in Names, v \in Values : SetItem(p, n, v)
    \/ \E n \in Names, c \in Coords, v \in Values : SetDimensioned(p, n, c, v)
    \/ \E n \in Names : SkipMeasurement(p, n)
    \/ Attach(p, "log")
    \/ StoreDimensioned(p) \/ NotifyLoad(p) \/ NotifyAdd(p) \/ BodyEnds(p)
ReaderStep == ReadLoad \/ ReadSwap \/ ReadEach
ExecutorStep ==
    \/ StartPhase \/ PhaseEnds \/ FinalizeMeasurements \/ SetPrediagnosisOutcome
    \/ ExecutePhaseDiagnosers \/ RecordPhase \/ FinalizeTest

Next == (\E p \in Phases : BodyStep(p)) \/ ReaderStep \/ ExecutorStep \/ Finished
Spec == Init /\ [][Next]_vars

-----------------------------------------------------------------------------
(* Properties. *)

TypeOK ==
    /\ Len(state) = phase /\ phase \in 0..Len(Declared)
    /\ \A p \in 1..phase : \A n \in Declared[p] :
         /\ state[p].m[n].outcome \in {"UNSET", "PARTIALLY_SET", "PASS", "FAIL", "SKIPPED"}
         /\ n \notin Dimensioned => state[p].m[n].outcome # "PARTIALLY_SET"
                                   /\ Len(state[p].m[n].value) <= 1
    /\ epc \in {"next", "running", "measurements", "outcome", "diagnose", "record", "done"}
    /\ diagnoses \subseteq store
    /\ outcome \in {"none", "PASS", "FAIL", "ERROR", "TIMEOUT", "ABORTED"}

(* A phase is final when it is in the record and no body of it is left. *)
Final(p) == p \in ToSet(recorded) /\ ~state[p].zombie

(* measurements.py: "Only multidimensional measurements can be 'PARTIALLY_SET', and
   can never be in that state after their respective phase has completed". Stronger:
   the outcome in the record is the validators' verdict on the values in the record,
   whatever was set, overridden or skipped on the way. *)
MeasurementsJudged ==
    \A p \in Phases : Final(p) => \A n \in Declared[p] :
        LET x == state[p].m[n]
        IN  IF x.value = <<>> THEN x.outcome \in {"UNSET", "SKIPPED"}
            ELSE x.outcome = IF \A v \in ToSet(x.validators) : Meets(v, ValuesOf(x))
                               THEN "PASS" ELSE "FAIL"

(* A test passes only on measurements: in every phase of a PASS test that neither
   skipped nor repeated, the values recorded meet every validator (unless allow_fail),
   each measurement has a value or was excused, and no diagnoser failed the phase.
   "Only check marginality for passing measurements": and it is a marginal PASS if one
   of these values is in the marginal band of its limits. *)
PassIsMeasured ==
    outcome = "PASS" => \A p \in Phases : Final(p) /\ state[p].result = "CONTINUE" =>
        /\ state[p].failures = {}
        /\ \A n \in Declared[p] :
             LET x == state[p].m[n]
             IN  \/ n \in AllowFail
                 \/ x.value = <<>> /\ (AllowUnset \/ x.outcome = "SKIPPED")
                 \/ /\ x.value # <<>>
                    /\ \A v \in ToSet(ValidatorsOf[n]) : Meets(v, ValuesOf(x))
                    /\ Marginality(x) = "pass" => marginal

(* Measurement: "marginal: A bool flag indicating if this measurement is marginal if the
   outcome is PASS". A marginal value that is overridden by a better one leaves it set. *)
MarginalIsCurrent ==
    \A p \in Phases : Final(p) => \A n \in Declared[p] :
        LET x == state[p].m[n] IN x.marginal /\ x.outcome = "PASS" => Marginality(x) = "pass"

(* The record written out shows what was measured, with a reader that converts the
   same measurements at any time: the outcome, rows that the measurement has, and,
   unless a coordinate was set twice, all of them in the order they were set. Out of
   its scope: the values of overridden coordinates and of transformed dimensioned
   measurements and the outcome of skipped ones, for which the code's caches go stale;
   and, once a coordinate was overridden, the rows that a reader then makes the cache
   miss. *)
ShowsRow(n, x, row, valueRow) ==
    /\ row[1] = valueRow[1]
    /\ row = valueRow \/ row[1] \in x.overridden \/ n \in Dimensioned \cap Transformed
RecordShowsValues ==
    \A p \in Phases : Final(p) => \A n \in Declared[p] :
        LET x == state[p].m[n]
        IN  /\ x.outcome # "SKIPPED" => x.shownOutcome = x.outcome
            /\ \A i \in DOMAIN x.shown : \E j \in DOMAIN x.value :
                 ShowsRow(n, x, x.shown[i], x.value[j])
            /\ x.overridden = {} =>
                 /\ Len(x.shown) = Len(x.value)
                 /\ \A i \in DOMAIN x.value : ShowsRow(n, x, x.shown[i], x.value[i])

(* DimensionedMeasuredValue: the cache is "set to None if a previous measurement is
   overridden; in such a case, the list is fully reconstructed": the record shows the
   last value of a coordinate. A reader that converts between the reset of the cache
   and the store of the value brings back the old one, for good. *)
RecordShowsLatest ==
    \A p \in Phases : Final(p) => \A n \in Declared[p] \ Transformed :
        state[p].m[n].shown = state[p].m[n].value

(* Every failure that a phase's diagnosers found, also before one of them raised,
   reaches the test's record and the store that branches and conditional validators
   ask; a test that ends normally then does not pass. A diagnoser that raises leaves
   the phase in error. *)
FailuresReported ==
    \A p \in Phases : Final(p) =>
        /\ state[p].failures \subseteq diagnoses \cap store
        /\ state[p].failures # {} => outcome # "PASS"
        /\ state[p].result \in EndsTest => state[p].outcome = "ERROR"

(* "The test is done at this point, no further updates": a final record does not
   change, although a reader may still be converting the phase it belongs to. *)
RecordsFrozen ==
    [][\A p \in Phases : Final(p) => state'[p] = state[p]]_vars

(* The same for every record of a test that has its outcome, that of a phase whose
   body is still alive among them: what was measured stays as it is. *)
FinishedTestKept ==
    [][outcome # "none" =>
         \A p \in ToSet(recorded) : \A n \in Declared[p] :
             state'[p].m[n].value = state[p].m[n].value]_vars

=============================================================================

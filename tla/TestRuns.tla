------------------------------ MODULE TestRuns ------------------------------
(***************************************************************************)
(* The conversion of a test record into a TestRun: names of parameters,    *)
(* statuses, failure codes, and the flat parameters made from dimensioned  *)
(* measurements.                                                           *)
(* Source: openhtf/output/proto/test_runs_converter.py.                    *)
(*                                                                         *)
(* A name is the sequence of its parts and the underscores appended to it. *)
(***************************************************************************)
EXTENDS Integers, Sequences, FiniteSets, SequencesExt, FiniteSetsExt

CONSTANT MaxParams  \* MAX_PARAMS_PER_MEASUREMENT

Param(parts) == [parts |-> parts, underscores |-> 0]

(* _ensure_unique_parameter_name. *)
EnsureUnique(name, used) ==
    LET Longer(k) == [name EXCEPT !.underscores = @ + k]
    IN  Longer(Min({k \in 0..Cardinality(used) : Longer(k) \notin used}))

(* OUTCOME_MAP, the status of the test (_populate_header), the level of a log line. *)
OutcomeMap(outcome) == IF outcome \in {"TIMEOUT", "ABORTED"} THEN "ERROR" ELSE outcome
TestStatus(record) == IF record.marginal THEN "MARGINAL_PASS" ELSE OutcomeMap(record.outcome)
LogLevel(level) ==
    LET above == {l \in {10, 20, 30, 40, 50} : level <= l}
    IN  IF above = {} THEN 0 ELSE Min(above)

(* _extract_parameters: the status of a measurement. *)
IsSet(m) == m.value # {} \/ m.rows # <<>>
ParamStatus(m) ==
    IF ~IsSet(m) THEN "ERROR"
    ELSE IF m.marginal THEN "MARGINAL_PASS"
    ELSE IF m.outcome = "PASS" THEN "PASS" ELSE "FAIL"

(* A measurement without a value that neither passed nor is marginal is left at that. *)
IsLeft(m) == ~IsSet(m) /\ ~m.marginal /\ m.outcome # "PASS"

(* _mangle_measurement: one parameter for each row, named after its coordinates. *)
Mangle(name, m, mangled) ==
    LET Step(known, row) == known \cup {EnsureUnique(Param(name.parts \o Front(row)), known)}
    IN  FoldLeft(Step, mangled, SubSeq(m.rows, 1, Min({MaxParams, Len(m.rows)})))

(* One measurement of the loop. *)
AddMeasurement(s, name, m) ==
    LET unique == EnsureUnique(name, s.used)
        added == [s EXCEPT !.used = @ \cup {unique},
                           !.parameters = Append(@, [name |-> unique, status |-> ParamStatus(m)])]
        curve == m.dimensions # <<>>
    IN  IF IsLeft(m) THEN added
        ELSE [added EXCEPT
                !.info = IF curve THEN Append(@, Param(<<"multidim">> \o name.parts)) ELSE @,
                !.mangled = IF curve THEN Mangle(name, m, @) ELSE @,
                !.failure_codes = IF ParamStatus(m) = "FAIL" THEN Append(@, unique) ELSE @]

(* _extract_attachments. *)
AddAttachment(s, name) ==
    LET unique == EnsureUnique(name, s.used)
    IN  [s EXCEPT !.used = @ \cup {unique}, !.info = Append(@, unique)]

(* One phase of _extract_parameters: attachments and measurements as sorted lists of names,
   or of pairs of a name and a measurement. *)
AddPhase(s, phase) ==
    LET Measure(t, item) == AddMeasurement(t, item[1], item[2])
    IN  FoldLeft(Measure, FoldLeft(AddAttachment, s, phase.attachments), phase.measurements)

(* _attach_json, and the copies of _populate_header. *)
RecordJson == Param(<<"OpenHTF_record.json">>)
PopulateHeader(record) ==
    [status |-> TestStatus(record), failure_codes |-> record.outcome_details,
     phases |-> [i \in DOMAIN record.phases |-> record.phases[i].name],
     info |-> IF record.config THEN <<Param(<<"config">>)>> ELSE <<>>]

(* test_run_from_test_record. A mangled parameter keeps its name even if it is in use. *)
TestRunFromTestRecord(record) ==
    LET header == PopulateHeader(record)
        attached == [used |-> {RecordJson}, parameters |-> <<>>, mangled |-> {},
                     info |-> Append(header.info, RecordJson),
                     failure_codes |-> header.failure_codes]
        run == FoldLeft(AddPhase, attached, record.phases)
    IN  [status |-> header.status, phases |-> header.phases,
         parameters |-> run.parameters, info |-> run.info,
         mangled |-> run.mangled, failure_codes |-> run.failure_codes,
         logs |-> [i \in DOMAIN record.log_records |-> LogLevel(record.log_records[i])]]
=============================================================================

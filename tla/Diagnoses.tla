----------------------------- MODULE Diagnoses ------------------------------
(***************************************************************************)
(* Diagnosers, what becomes of the diagnoses they return, and the store.   *)
(* Sources: openhtf/core/diagnoses_lib.py, test_executor.py                *)
(* (_execute_test_diagnosers), test_state.py (PhaseState.add_diagnosis).   *)
(***************************************************************************)
EXTENDS Integers, Sequences, SequencesExt, Functions, TLC

(* Diagnosis(...); serial tells apart diagnoses of the same result. *)
Diagnosis(result, isFailure, isInternal, serial) ==
    [result |-> result, isFailure |-> isFailure, isInternal |-> isInternal, serial |-> serial]
CanConstruct(diag) == ~(diag.isInternal /\ diag.isFailure)

(* What is no Diagnosis, in a list of them. *)
NoDiagnosis == [result |-> "other", isFailure |-> FALSE, isInternal |-> FALSE, serial |-> 0]

(* PhaseDiagnoser and TestDiagnoser: the results of its enum, always_fail, its
   function if it has one, and its name. *)
NewDiagnoser(results, alwaysFail, func, name) ==
    [results |-> results, alwaysFail |-> alwaysFail, func |-> func, name |-> name]

(* __call__, as a decorator: not on one that has a function. *)
CanDecorate(diagnoser) == diagnoser.func = "none"
Decorated(diagnoser, func) ==
    [diagnoser EXCEPT !.func = func, !.name = IF @ = "none" THEN func ELSE @]

-----------------------------------------------------------------------------
(* DiagnosesStore: the diagnoses in order, the latest of each result. *)

EmptyStore == [all |-> <<>>, byResult |-> <<>>]
AddToStore(store, diag) ==
    [all |-> Append(store.all, diag), byResult |-> (diag.result :> diag) @@ store.byResult]
HasDiagnosisResult(store, result) == result \in DOMAIN store.byResult
GetDiagnosis(store, result) ==
    IF HasDiagnosisResult(store, result) THEN <<store.byResult[result]>> ELSE <<>>

-----------------------------------------------------------------------------
(* DiagnosesManager. A diagnoser returns nothing, one diagnosis, a list, or something
   that is neither, or it raises ("neither"). *)

Return(form, items) == [form |-> form, items |-> items]

(* _verify_and_fix_diagnosis: always_fail makes a new, failing Diagnosis. *)
Fixed(diag, diagnoser) ==
    IF diagnoser.alwaysFail THEN [diag EXCEPT !.isFailure = TRUE] ELSE diag
Verified(diag, diagnoser) ==
    diag # NoDiagnosis /\ diag.result \in diagnoser.results /\ CanConstruct(Fixed(diag, diagnoser))

(* _convert_result is a generator: it yields up to the element it raises on. *)
Converted(ret, diagnoser) ==
    LET bad == SelectInSeq(ret.items, LAMBDA d : ~Verified(d, diagnoser))
        good == IF bad = 0 THEN ret.items ELSE SubSeq(ret.items, 1, bad - 1)
    IN  [yields |-> [i \in DOMAIN good |-> Fixed(good[i], diagnoser)],
         raises |-> bad # 0 \/ ret.form = "neither"]

(* What diagnosers add to: the test record, the phase record, the store. *)
NewRun == [record |-> <<>>, failures |-> <<>>, results |-> <<>>, store |-> EmptyStore,
           outcome |-> "none", unit |-> "none"]

(* One diagnosis of a phase: PhaseState.add_diagnosis, TestRecord.add_diagnosis unless it
   is internal, and the store. *)
AddPhaseDiagnosis(run, diag) ==
    [run EXCEPT !.failures = IF diag.isFailure THEN Append(@, diag.result) ELSE @,
                !.results = IF diag.isFailure THEN @ ELSE Append(@, diag.result),
                !.record = IF diag.isInternal THEN @ ELSE Append(@, diag),
                !.store = AddToStore(@, diag)]
ExecutePhaseDiagnoser(run, ret, diagnoser) ==
    FoldLeft(AddPhaseDiagnosis, run, Converted(ret, diagnoser).yields)

(* One diagnosis of the test. *)
AddTestDiagnosis(run, diag) ==
    [run EXCEPT !.record = Append(@, diag), !.store = AddToStore(@, diag)]

(* execute_test_diagnoser refuses internal diagnoses; TestExecutor._execute_test_diagnoser
   keeps the exception as the test's outcome, unless that is terminal already. *)
ExecuteTestDiagnoser(run, ret, diagnoser) ==
    LET c == Converted(ret, diagnoser)
        bad == SelectInSeq(c.yields, LAMBDA d : d.isInternal)
        added == IF bad = 0 THEN c.yields ELSE SubSeq(c.yields, 1, bad - 1)
        after == FoldLeft(AddTestDiagnosis, run, added)
    IN  IF (c.raises \/ bad # 0) /\ run.outcome # "terminal"
          THEN [after EXCEPT !.outcome = "terminal", !.unit = diagnoser.name]
          ELSE after

=============================================================================

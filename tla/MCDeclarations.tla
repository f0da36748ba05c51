--------------------------- MODULE MCDeclarations ---------------------------
(* Declarations and diagnoses against what they are to do, on small inputs. *)
EXTENDS Integers, Sequences, SequencesExt, FiniteSets, TLC

LOCAL D == INSTANCE Declarations
LOCAL G == INSTANCE Diagnoses

-----------------------------------------------------------------------------
(* The calls of a chain, and what follows it. *)

LOCAL Calls == {"dimension", "dimensions", "bad_dimension", "transform", "bad_transform",
          "validator", "in_range", "bad_range", "unknown", "validate_on", "bad_validate_on",
          "units", "with_args", "with_reserved", "show", "set"}
LOCAL Range5 == D!RangeTemplate(<<D!NumberLimit(0)>>, <<D!Place("limit")>>, TRUE)
LOCAL Inverted == D!RangeTemplate(<<D!NumberLimit(5)>>, <<D!NumberLimit(0)>>, FALSE)
LOCAL Registered == {"in_range"}

LOCAL Applied(m, call) ==
    CASE call = "dimension" -> D!WithDimensions(m, <<D!FromString("s", {"V"})>>)
      [] call = "dimensions" ->
           D!WithDimensions(m, <<D!FromString("V", {"V"}), D!FromUnitDescriptor("Hz")>>)
      [] call = "bad_dimension" -> D!WithDimensions(m, <<D!Dimension("x", "bad")>>)
      [] call = "transform" -> D!WithTransform(m, "round")
      [] call = "bad_transform" -> D!WithTransform(m, "bad")
      [] call = "validator" -> D!WithValidator(m, Range5)
      [] call = "in_range" -> D!GetAttr(m, "in_range", Registered, Range5)
      [] call = "bad_range" -> D!GetAttr(m, "in_range", Registered, Inverted)
      [] call = "unknown" -> D!GetAttr(m, "in_rang", Registered, Range5)
      [] call = "validate_on" -> D!ValidateOn(m, <<<<"res", Range5>>>>)
      [] call = "bad_validate_on" -> D!ValidateOn(m, <<<<"res", Range5>>, <<"res", D!NotCallable>>>>)
      [] call = "units" -> D!WithUnits(m, "V")
      [] call = "with_args" -> D!MeasurementWithArgs(m, [k |-> "volts"], [limit |-> 5])
      [] call = "with_reserved" ->
           D!MeasurementWithArgs(m, [k |-> "set_measurement_outcome_to_skipped"], [limit |-> 5])
      [] call = "show" -> D!ShowMeasurement(m)
      [] call = "set" -> [m |-> [m EXCEPT !.value.set = TRUE], raised |-> FALSE]

(* One call after others; broken: some call raised and left a change behind. *)
LOCAL Follow(s, call) ==
    LET r == Applied(s.m, call)
    IN  [m |-> r.m, broken |-> s.broken \/ (r.raised /\ r.m # s.m),
         cause |-> IF r.raised /\ r.m # s.m THEN <<call, s.m.value.set>> ELSE s.cause]
LOCAL Chain(calls) ==
    FoldLeft(Follow, [m |-> D!NewMeasurement(<<D!Hole("k")>>), broken |-> FALSE, cause |-> <<>>],
             calls)

(* Whatever the order of the calls: the value object has the dimensions and the transform
   declared, what is shown of validators and dimensions is current, the reserved name is
   refused, and a call that raises changes nothing; but validate_on keeps what came
   first, and dimensions or a transform stay when a value was set before. *)
ASSUME DeclareAssumption ==
    \A calls \in SeqOf(Calls, 4) :
        LET s == Chain(calls)
            m == s.m
        IN  /\ s.broken \/ (m.value.dims = Len(m.dimensions) /\ m.value.transform = m.transform)
            /\ s.broken \/ m.cached = <<>>
                 \/ /\ m.cached[1].validators = m.validators
                    /\ m.cached[1].conditional = m.conditional
                    /\ m.cached[1].dimensions = m.dimensions
            /\ m.name \notin D!Reserved
            /\ s.broken => s.cause[1] = "bad_validate_on" \/ s.cause[2]

(* Limits filled in, at once or in turn, judge as the numbers would. *)
ASSUME FillAssumption ==
    LET limits == {<<>>, <<D!NumberLimit(0)>>, <<D!NumberLimit(3)>>, <<D!Place("low")>>, <<D!Place("high")>>}
        args == {[low |-> a, high |-> b] : a, b \in {0, 3}}
        plain(limit, k) ==
            [i \in DOMAIN limit |-> IF limit[i].form = "place" THEN k[limit[i].key] ELSE limit[i].n]
        values == {D!Number(n) : n \in -1..4} \cup {D!Other(t) : t \in {"nan", "None", "text"}}
    IN  \A min, max \in limits, k \in args :
          LET v == D!RangeTemplate(min, max, TRUE)
              filled == D!RangeWithArgs(v, k)
              inTurn == D!RangeWithArgs(D!RangeWithArgs(v, [low |-> k.low]), [high |-> k.high])
              reference == D!InRange(plain(min, k), plain(max, k), <<>>, <<>>)
          IN  D!CanDeclareRange(v) =>
                /\ inTurn = filled
                /\ \A value \in values :
                     D!TemplateCall(filled, value) = D!InRangeCall(reference, value)

(* Rows have a column for each dimension and one for the value, as a data frame has
   names for them, and different coordinates address different rows. *)
ASSUME CoordinatesAssumption ==
    LET coordinates == {D!Single(t, x) : t \in {"number", "text"}, x \in {"a", "b"}}
                         \cup {D!Several(t, s) : t \in {"tuple", "list"}, s \in SeqOf({"a", "b"}, 3)}
    IN  \A dims \in 1..3 :
          LET accepted == {c \in coordinates : D!CanAddress(c, dims)}
              m == Applied(D!NewMeasurement(<<>>), IF dims = 1 THEN "dimension" ELSE "dimensions").m
          IN  /\ accepted # {}
              /\ \A c \in accepted : Len(D!Row(c, dims, "value")) = dims + 1
              /\ dims <= 2 => Len(D!Columns(m)) = dims + 1
              /\ \A c, d \in accepted : D!Key(c, dims) = D!Key(d, dims) => c = d

(* A collection can be iterated over exactly when every name gives a value, and a
   name is set as a whole or by coordinates, never both. *)
ASSUME CollectionAssumption ==
    LET values == [dims : 0..1, set : BOOLEAN]
    IN  \A c \in [{"s", "d"} -> values] :
          /\ ~D!IterRaises(c) <=>
               \A n \in DOMAIN c : D!GetItem(c, n) # "MeasurementNotSetError"
                                    /\ (c[n].dims > 0 => c[n].set)
          /\ \A n \in {"s", "d", "x"} :
               /\ ~D!SetItemRaises(c, n) <=> D!GetItem(c, n) \in {"value", "MeasurementNotSetError"}
               /\ n \in DOMAIN c /\ D!Immutable(c[n]).value = "None" <=>
                    D!GetItem(c, n) = "MeasurementNotSetError"

-----------------------------------------------------------------------------
(* Diagnosers that return up to two diagnoses, one after the other. *)

LOCAL Diagnosers ==
    {G!Decorated(G!NewDiagnoser({"r"}, fail, "none", "none"), "f") : fail \in BOOLEAN}
LOCAL Made == {d \in {G!Diagnosis(r, f, i, n) : r \in {"r", "q"}, f, i \in BOOLEAN, n \in 1..2} :
                 G!CanConstruct(d)}
LOCAL Returns2 == {G!Return("list", s) : s \in SeqOf(Made \cup {G!NoDiagnosis}, 2)}
                    \cup {G!Return("neither", <<>>)}

(* The test record holds the diagnoses of the store but the internal ones, in order; the
   store answers with the latest; always_fail lets nothing pass that is no failure. *)
LOCAL Consistent(run) ==
    /\ run.record = SelectSeq(run.store.all, LAMBDA d : ~d.isInternal)
    /\ \A r \in {"r", "q"} :
         LET of == SelectSeq(run.store.all, LAMBDA d : d.result = r)
         IN  G!GetDiagnosis(run.store, r) = IF of = <<>> THEN <<>> ELSE <<Last(of)>>

(* Whatever a phase's diagnoser and then a test's return, the records agree, and what
   the test's diagnoser returns is recorded, all of it, or the test ends with its error. *)
ASSUME DiagnosesAssumption ==
    \A d, e \in Diagnosers, first, second \in Returns2 :
        LET phased == G!ExecutePhaseDiagnoser(G!NewRun, first, d)
            run == G!ExecuteTestDiagnoser(phased, second, e)
        IN  /\ ~G!CanDecorate(d)
            /\ Consistent(phased) /\ Consistent(run)
            /\ Len(phased.failures) + Len(phased.results) = Len(phased.store.all)
            /\ d.alwaysFail => phased.results = <<>>
            /\ \/ run.outcome = "terminal" /\ run.unit = "f"
               \/ Len(run.record) = Len(phased.record) + Len(second.items)

=============================================================================

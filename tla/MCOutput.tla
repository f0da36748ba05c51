------------------------------ MODULE MCOutput ------------------------------
(***************************************************************************)
(* What the output of a test record promises, evaluated by TLC on small    *)
(* records.                                                                *)
(***************************************************************************)
EXTENDS Integers, Sequences, FiniteSets, SequencesExt, FiniteSetsExt, Functions, TLC

LOCAL Mfg == INSTANCE MfgEvent WITH MaxTotalAttachmentBytes <- 3, MaxParams <- 2
LOCAL Out == INSTANCE Output WITH MaxUploadAttempts <- 3

-----------------------------------------------------------------------------
(* MfgEvent. *)

PlainMeasurement(outcome, marginal, allow) ==
    [dimensions |-> <<>>, units |-> <<>>, outcome |-> outcome, marginal |-> marginal,
     allow_fail |-> allow, value |-> {}, rows |-> <<>>, validators |-> <<>>]
DimensionedMeasurement(rows, units, outcome, marginal) ==
    [PlainMeasurement(outcome, marginal, FALSE) EXCEPT
        !.dimensions = <<"x">>, !.units = units, !.rows = rows]
File(size) == [data |-> size, size |-> size, mimetype |-> "text/plain"]
PhaseRecord(outcome, measurements, attachments) ==
    [name |-> "phase", outcome |-> outcome, measurements |-> measurements,
     attachments |-> attachments]

Passed == PlainMeasurement("PASS", FALSE, FALSE)
Curve == DimensionedMeasurement(<<<<2, 7>>, <<1, 8>>>>, <<>>, "PASS", FALSE)

(* Phases with up to two measurements and two attachments. *)
NameA == Mfg!Name(1, 0)
NameB == Mfg!Name(2, 1)
SomePhases ==
    {PhaseRecord("PASS", ms, as) :
        ms \in UNION {[names -> {Passed, Curve}] : names \in SUBSET {NameA, NameB}},
        as \in {[n \in names |-> File(1)] : names \in SUBSET {NameA, NameB}}}

AllKeys(phases, field) ==
    UNION {{<<i, n>> : n \in DOMAIN phases[i][field]} : i \in DOMAIN phases}

(* UniqueNameMaker: names that carry no number are unique after the conversion, nothing is
   lost by it, and to convert again changes nothing. *)
ASSUME UniqueAssumption ==
    \A p, q \in SomePhases :
        LET before == <<p, q, p>>
            after == Mfg!Uniquize(Mfg!ConvertMultidim(before))
            Names(field) == {key[2] : key \in AllKeys(after, field)}
            curves == {key \in AllKeys(before, "measurements") :
                        before[key[1]].measurements[key[2]].dimensions # <<>>}
        IN  /\ Cardinality(Names("measurements"))
                 = Cardinality(AllKeys(before, "measurements")) - Cardinality(curves)
            /\ Cardinality(Names("attachments"))
                 = Cardinality(AllKeys(before, "attachments")) + Cardinality(curves)
            /\ Mfg!Uniquize(Mfg!ConvertMultidim(after)) = after

(* Measurements as phases leave them: only a measurement that passed is marginal, and one
   is unset exactly if it has no value. *)
Outcomes == {"PASS", "FAIL", "UNSET", "SKIPPED"}
FinishedMeasurements ==
    {[PlainMeasurement(o, g, f) EXCEPT !.value = v] :
        o \in Outcomes, g \in BOOLEAN, f \in BOOLEAN, v \in {{}, {1}}}
Leavable(m) == /\ m.marginal => m.outcome = "PASS"
               /\ m.outcome \in {"PASS", "FAIL"} <=> m.value # {}
Record(outcome, phases) ==
    [outcome |-> outcome, marginal |-> FALSE, outcome_details |-> <<>>, log_records |-> <<>>,
     assembly_events |-> <<>>, config |-> TRUE, phases |-> phases]

(* Both converters: a measurement has a failure code exactly if it is reported as FAIL or
   ERROR, but for what the test allows: a phase that was skipped, a failure that is
   allowed (MfgEvent), a measurement without a value (TestRun). *)
ASSUME FailureCodesAssumption ==
    \A m \in {x \in FinishedMeasurements : Leavable(x)}, o \in {"PASS", "FAIL", "SKIP"} :
        LET mfg == Mfg!MfgEventFromTestRecord(
                    Record("FAIL", <<PhaseRecord(o, (NameA :> m), (NameA :> File(1)))>>),
                    FALSE, {})
            name == Mfg!Param(<<"a">>)
            run == Mfg!TestRunFromTestRecord(
                    Record("FAIL", <<[name |-> "phase", attachments |-> <<name>>,
                                      measurements |-> <<<<name, m>>>>]>>))
        IN  /\ NameA \in ToSet(mfg.failure_codes)
                 <=> /\ mfg.measurements[1].status \in {"FAIL", "ERROR"}
                     /\ o # "SKIP" /\ ~(m.allow_fail /\ m.outcome = "FAIL")
            /\ run.failure_codes # <<>> <=> run.parameters[1].status = "FAIL"
            /\ m.outcome # "SKIPPED" =>
                 run.parameters[1].status = mfg.measurements[1].status

(* attachment_to_multidim_measurement gives the dimensioned measurement back, its rows
   sorted; without rows it raises. *)
ASSUME RoundTripAssumption ==
    \A rows \in SeqOf({<<1, 8>>, <<2, 7>>}, 2), units \in {<<>>, <<"V">>},
       o \in {"PASS", "FAIL", "UNSET"}, g \in BOOLEAN :
        LET m == DimensionedMeasurement(rows, units, o, g /\ o = "PASS")
            a == Mfg!MultidimToAttachment(NameA, m)
        IN  IF rows = <<>> THEN ~Mfg!CanReverse(a)
            ELSE LET back == Mfg!AttachmentToMultidim(a)
                 IN  /\ \A f \in DOMAIN back \ {"rows"} : back[f] = m[f]
                     /\ ToSet(back.rows) = ToSet(rows) /\ Len(back.rows) = Len(rows)
                     /\ \A i, j \in DOMAIN rows : i < j => back.rows[i][1] <= back.rows[j][1]

(* The events of a record with a cache of what the earlier ones uploaded. *)
RECURSIVE UploadCycles(_, _)
UploadCycles(record, cache) ==
    LET event == Mfg!MfgEventFromTestRecord(record, TRUE, cache)
        sent == {a \in ToSet(event.attachments) : a.data # {}}
    IN  <<event>> \o (IF event.partial
                        THEN UploadCycles(record, cache \cup
                                {<<a.name, (CHOOSE x \in a.data : TRUE).size>> : a \in sent})
                        ELSE <<>>)

(* copy_attachments: partial uploads end, together they send every attachment once, and no
   event but one with a single attachment exceeds the limit. *)
ASSUME PartialAssumption ==
    \A sizes \in SeqOf(1..4, 4) :
        LET files == [n \in {Mfg!Name(i, 0) : i \in DOMAIN sizes} |-> File(sizes[n.stem])]
            events == UploadCycles(Record("PASS", <<PhaseRecord("PASS", <<>>, files)>>), {})
            Sent(e) == SelectSeq(e.attachments, LAMBDA a : a.data # {})
            sent == FlattenSeq([i \in DOMAIN events |-> Sent(events[i])])
        IN  /\ Len(sent) = Len(sizes) /\ {a.name : a \in ToSet(sent)} = DOMAIN files
            /\ \A i \in DOMAIN events : events[i].bytes > 3 => Len(Sent(events[i])) = 1
            /\ {a.name : a \in ToSet(Last(events).attachments)} = DOMAIN files

(* _ensure_unique_parameter_name: attachments and measurements get different names, though
   they are named alike or after another's coordinates; the flat parameters do too among
   themselves, at most MaxParams for each measurement. *)
ASSUME ParametersAssumption ==
    LET curve == Mfg!Param(<<"a">>)   \* with a value at 2 ...
        other == Mfg!Param(<<"a", "2">>) \* ... and a measurement of the name that gives
        rows == <<<<"2", 7>>, <<"3", 7>>, <<"4", 7>>>>
        items == {<<curve, DimensionedMeasurement(rows, <<>>, "PASS", FALSE)>>, <<other, Passed>>,
                  <<curve, [Passed EXCEPT !.value = {1}]>>}
        phases == {[name |-> "phase", attachments |-> as, measurements |-> ms] :
                     as \in {<<>>, <<curve>>, <<other>>}, ms \in SeqOf(items, 2)}
    IN  \A p, q \in phases :
            LET run == Mfg!TestRunFromTestRecord(Record("PASS", <<p, q>>))
                named == SelectSeq(run.info, LAMBDA n : n.parts \in {<<"a">>, <<"a", "2">>})
                           \o [i \in DOMAIN run.parameters |-> run.parameters[i].name]
                curves == SelectSeq(p.measurements \o q.measurements,
                                    LAMBDA item : item[2].dimensions # <<>>)
            IN  /\ IsInjective(named)
                /\ Len(named) = Len(p.attachments \o q.attachments)
                                  + Len(p.measurements \o q.measurements)
                /\ Cardinality(run.mangled) = 2 * Len(curves)

-----------------------------------------------------------------------------
(* Output. *)

(* Values two levels deep, of every kind; a list's elements are "a" and "b". *)
Leaves == {Out!Leaf(k) : k \in {"base", "unset", "enum", "real", "nan", "other"}}
Nested(values) ==
    {[kind |-> k, parts |-> p] : k \in {"fields", "record", "dict", "list", "tuple"},
                                 p \in [{"a", "b"} -> values]}
Single(kind, value) == [kind |-> kind, parts |-> [k \in {"a"} |-> value]]
SomeValues ==
    Leaves \cup Nested(Leaves)
      \cup Nested({Out!Leaf("nan"), Single("tuple", Out!Leaf("nan")),
                   Single("record", Out!Leaf("unset"))})

RECURSIVE IsPlain(_, _)
IsPlain(v, kinds) ==
    v.kind \in kinds /\ \A k \in DOMAIN v.parts : IsPlain(v.parts[k], kinds)
RECURSIVE KeysOf(_)
KeysOf(v) ==
    (IF v.kind = "dict" THEN DOMAIN v.parts ELSE {})
      \cup UNION {KeysOf(v.parts[k]) : k \in DOMAIN v.parts}

(* convert_to_base_types: the result is made of built-in types alone, without tuples if
   they are to be lists and without the ignored keys, and is safe for JSON; a dictionary is
   so even if that is not asked for. *)
ASSUME BaseTypesAssumption ==
    \A v \in SomeValues :
        LET w == Out!ConvertToBaseTypes(v, {"b"}, "list", TRUE)
            unsafe == Out!ConvertToBaseTypes(v, {}, "list", FALSE)
        IN  /\ IsPlain(w, {"base", "float", "dict", "list"}) /\ "b" \notin KeysOf(w)
            /\ unsafe.kind = "dict" => IsPlain(unsafe, {"base", "float", "dict", "list"})

(* send_mfg_inspector_data: every failure but the last is retried, nothing is sent after
   an answer that settles it, and only failures alone end in the empty result. *)
ASSUME UploadAssumption ==
    \A responses \in [1..3 -> {"exception", "unparsable", "200", "400", "500"}] :
        LET sent == Out!SendData(responses)
            failed == {i \in 1..3 : responses[i] \notin {"200", "400"}}
        IN  /\ 1..(sent.requests - 1) \subseteq failed
            /\ sent.result = "{}" <=> failed = 1..3
            /\ sent.result = "result" => responses[sent.requests] = "200"

(* MfgInspector._convert: what is saved or uploaded is the conversion of the record at
   hand, also after a conversion that raised, if PARAMS tell the records apart. *)
ASSUME InspectorAssumption ==
    \A calls \in [1..3 -> (1..2) \X BOOLEAN] :
        LET Rec(i) == [number |-> calls[i][1], params |-> calls[i][1]]
            After[i \in 0..3] ==
                IF i = 0 THEN Out!SetConverter(Out!NewInspector(TRUE))
                ELSE Out!Converted(After[i - 1], Rec(i), calls[i][2])
        IN  \A i \in 1..3 : \/ Out!ConvertRaises(After[i - 1], Rec(i), calls[i][2])
                            \/ After[i].proto = {calls[i][1]}

(* The callbacks of a record with attachments: the conversion to an MfgEvent works unless
   the record was written as JSON, or its attachments were closed, before. *)
ASSUME CallbacksAssumption ==
    \A callbacks \in SeqOf({"json", "mfg_event", "close"}, 3), files \in {{}, {"a"}} :
        LET record == Out!AddPhaseRecord(Out!NewRecord, [outcome |-> "PASS", attachments |-> files])
            Before(i) == {callbacks[j] : j \in 1..(i - 1)}
        IN  "mfg_event" \in Out!OutputCallbacks(record, callbacks).raised
              <=> /\ files # {}
                  /\ \E i \in DOMAIN callbacks :
                        callbacks[i] = "mfg_event" /\ Before(i) \cap {"json", "close"} # {}

(* The base types of a record show the outcomes its phases had when they were added, which
   are those of the record but for a failure that was forgiven later. *)
ASSUME CachedAssumption ==
    \A outcomes \in [1..3 -> {"PASS", "FAIL"}], forgiven \in SUBSET (1..3) :
        LET Add(record, i) ==
                LET added == Out!AddPhaseRecord(record, [outcome |-> outcomes[i], attachments |-> {}])
                IN  IF i \in forgiven THEN Out!ForgiveLast(added) ELSE added
            record == FoldLeft(Add, Out!NewRecord, <<1, 2, 3>>)
        IN  \A i \in 1..3 :
                Out!AsBaseTypes(record)[i].outcome = record.phases[i].outcome <=> i \notin forgiven

(* A file has its old or its complete contents, whatever raises, after atomic_write; after
   OutputToFile only if nothing does. *)
ASSUME FilesAssumption ==
    \A n \in 0..3 :
        LET old == <<0>>  new == <<1, 2, 3>>
        IN  /\ Out!FileAfterAtomicWrite(old, new, n) \in {old, new}
            /\ Out!FileAfterOutput(old, new, n) \in {old, new} <=> n = 3
=============================================================================

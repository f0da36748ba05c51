------------------------------ MODULE MfgEvent ------------------------------
(***************************************************************************)
(* The conversion of a test record into an MfgEvent: unique names, the     *)
(* attachments that dimensioned measurements become (and the way back),    *)
(* statuses and failure codes, and attachments uploaded in several events. *)
(* Source: openhtf/output/proto/mfg_event_converter.py.                    *)
(*                                                                         *)
(* A value that may be missing is a set of at most one element.            *)
(***************************************************************************)
EXTENDS TestRuns, Functions

CONSTANT MaxTotalAttachmentBytes  \* MAX_TOTAL_ATTACHMENT_BYTES

-----------------------------------------------------------------------------
(* Names: `multidim` times the prefix "multidim_", a stem, the numbers appended with an
   underscore, and an extension; stems and extensions are numbers, 0 for no extension. *)

Name(stem, ext) == [multidim |-> 0, stem |-> stem, numbers |-> <<>>, ext |-> ext]
Multidim(name) == [name EXCEPT !.multidim = @ + 1]
Numbered(name, k) == [name EXCEPT !.numbers = Append(@, k)]

(* The order of strings: the end, then ".", then "_". *)
Precedes(a, b) ==
    \/ a.multidim < b.multidim
    \/ /\ a.multidim = b.multidim
       /\ \/ a.stem < b.stem
          \/ /\ a.stem = b.stem
             /\ \/ a.numbers # b.numbers /\ IsPrefix(a.numbers, b.numbers)
                \/ \E i \in DOMAIN a.numbers \cap DOMAIN b.numbers :
                      /\ a.numbers[i] < b.numbers[i]
                      /\ \A j \in 1..(i - 1) : a.numbers[j] = b.numbers[j]
                \/ a.numbers = b.numbers /\ a.ext < b.ext
SortedNames(names) == SetToSortSeq(names, Precedes)

-----------------------------------------------------------------------------
(* UniqueNameMaker, made with the names `all` (a sequence), after those in `seen`. *)

CountIn(all, name) == Cardinality({i \in DOMAIN all : all[i] = name})

MakeUnique(all, seen, name) ==
    IF CountIn(all, name) = 1 THEN name ELSE Numbered(name, CountIn(seen, name))

(* The names of one dictionary of every phase, phase by phase. *)
AllNames(dicts) == FlattenSeq([i \in DOMAIN dicts |-> SortedNames(DOMAIN dicts[i])])
Places(dicts) ==
    FlattenSeq([i \in DOMAIN dicts |->
        LET names == SortedNames(DOMAIN dicts[i]) IN [k \in DOMAIN names |-> <<i, names[k]>>]])

(* d[new] = d.pop(old): what was at the new name is lost. *)
Moved(dict, old, new) ==
    [n \in (DOMAIN dict \ {old}) \cup {new} |-> IF n = new THEN dict[old] ELSE dict[n]]

(* One of the two loops of phase_uniquizer. *)
Renamed(dicts, all) ==
    LET Step(s, place) ==
            [seen |-> Append(s.seen, place[2]),
             dicts |-> [s.dicts EXCEPT ![place[1]] =
                          Moved(@, place[2], MakeUnique(all, s.seen, place[2]))]]
    IN  FoldLeft(Step, [seen |-> <<>>, dicts |-> dicts], Places(dicts)).dicts

-----------------------------------------------------------------------------
(* Measurements and attachments. A measurement has the units of its dimensions, empty if
   `dimensions` is None, and the rows <<coordinates, value>> or the one value set. *)

Statuses == [PASS |-> "PASS", FAIL |-> "FAIL", UNSET |-> "ERROR",
             PARTIALLY_SET |-> "ERROR", SKIPPED |-> "SKIPPED"]
(* _measurement_outcome_to_test_run_status_name. *)
Status(m) == IF m.marginal THEN "MARGINAL_PASS" ELSE Statuses[m.outcome]

(* The reverse, a pair of outcome and marginal. *)
OutcomeOf(status) ==
    CASE status \in {"PASS", "MARGINAL_PASS"} -> <<"PASS", status = "MARGINAL_PASS">>
      [] status = "ERROR" -> <<"UNSET", FALSE>>
      [] OTHER -> <<status, FALSE>>

(* sorted(rows, key=x[0]): by the first coordinate, equal ones as they were. *)
SortedRows(rows) ==
    LET order == SetToSortSeq(DOMAIN rows,
                    LAMBDA i, j : rows[i][1] < rows[j][1] \/ (rows[i][1] = rows[j][1] /\ i < j))
    IN  [k \in DOMAIN order |-> rows[order[k]]]

(* multidim_measurement_to_attachment; its size grows with the rows. *)
MultidimToAttachment(name, m) ==
    [data |-> [outcome |-> Status(m), name |-> name,
               dimensions |-> m.dimensions \o m.units,
               value |-> IF m.rows = <<>> THEN {} ELSE {SortedRows(m.rows)}],
     size |-> 1 + Len(m.rows), mimetype |-> "MULTIDIM_JSON"]

(* attachment_to_multidim_measurement iterates over the value: there must be one. *)
CanReverse(attachment) == attachment.data.value # {}
AttachmentToMultidim(attachment) ==
    LET data == attachment.data
        rows == CHOOSE v \in data.value : TRUE
        hasUnits == Len(data.dimensions) = Len(rows[1])
    IN  [dimensions |-> IF hasUnits THEN Front(data.dimensions) ELSE data.dimensions,
         units |-> IF hasUnits THEN <<Last(data.dimensions)>> ELSE <<>>,
         outcome |-> OutcomeOf(data.outcome)[1], marginal |-> OutcomeOf(data.outcome)[2],
         rows |-> rows]

(* The names that attachments have and that dimensioned measurements will get. *)
AttachmentNames(phases) ==
    AllNames([i \in DOMAIN phases |-> phases[i].attachments])
      \o FlattenSeq([i \in DOMAIN phases |->
            LET ms == phases[i].measurements
                names == SortedNames({n \in DOMAIN ms : ms[n].dimensions # <<>>})
            IN  [k \in DOMAIN names |-> Multidim(names[k])]])

(* convert_multidim_measurements. *)
ConvertMultidim(phases) ==
    LET all == AttachmentNames(phases)
        Step(s, place) ==
            LET i == place[1]
                m == s.phases[i].measurements[place[2]]
                name == MakeUnique(all, s.seen, Multidim(place[2]))
            IN  IF m.dimensions = <<>> THEN s
                ELSE [seen |-> Append(s.seen, Multidim(place[2])),
                      phases |-> [s.phases EXCEPT
                        ![i].attachments =
                            [n \in DOMAIN @ \cup {name} |->
                                IF n = name THEN MultidimToAttachment(name, m) ELSE @[n]],
                        ![i].measurements = Restrict(@, DOMAIN @ \ {place[2]})]]
    IN  FoldLeft(Step, [seen |-> <<>>, phases |-> phases],
                 Places([i \in DOMAIN phases |-> phases[i].measurements])).phases

(* phase_uniquizer. *)
Uniquize(phases) ==
    LET ms == [i \in DOMAIN phases |-> phases[i].measurements]
        renamedMs == Renamed(ms, AllNames(ms))
        renamedAs == Renamed([i \in DOMAIN phases |-> phases[i].attachments],
                             AttachmentNames(phases))
    IN  [i \in DOMAIN phases |-> [phases[i] EXCEPT !.measurements = renamedMs[i],
                                                    !.attachments = renamedAs[i]]]

-----------------------------------------------------------------------------
(* The event. *)

(* _copy_unidimensional_measurement: what becomes a failure code. *)
IsFailure(phase, m) ==
    /\ m.outcome \notin {"PASS", "SKIPPED"}
    /\ ~(m.outcome = "FAIL" /\ m.allow_fail)
    /\ phase.outcome # "SKIP"

(* ... and the rest of it: limits are copied only with a value; of several range validators
   the last one that has a limit counts. *)
LastLimit(validators, side) ==
    LET given == SelectSeq(validators, LAMBDA v : v.kind = "range" /\ v[side] # {})
    IN  IF given = <<>> THEN {} ELSE Last(given)[side]
Sides == {"minimum", "maximum", "marginal_minimum", "marginal_maximum"}
MfgMeasurement(phase, name, m) ==
    [name |-> name, tag |-> phase.name, status |-> Status(m), value |-> m.value,
     limits |-> [side \in Sides |->
                    IF m.value = {} THEN {} ELSE LastLimit(m.validators, side)]]

(* PhaseCopier.copy_measurements. *)
CopyMeasurements(phases) ==
    FlattenSeq([i \in DOMAIN phases |->
        LET names == SortedNames(DOMAIN phases[i].measurements)
        IN  [k \in DOMAIN names |->
                MfgMeasurement(phases[i], names[k], phases[i].measurements[names[k]])]])
FailureCodes(phases) ==
    FlattenSeq([i \in DOMAIN phases |->
        SortedNames({n \in DOMAIN phases[i].measurements :
                        IsFailure(phases[i], phases[i].measurements[n])})])

(* PhaseCopier.copy_attachments. `cache` has the (name, size) of what was uploaded; it is
   used, and the limit observed, only with `partial`. *)
CopyAttachments(phases, partial, cache) ==
    LET places == Places([i \in DOMAIN phases |-> phases[i].attachments])
        Step(s, place) ==
            LET a == phases[place[1]].attachments[place[2]]
            IN  CASE partial /\ <<place[2], a.size>> \in cache ->
                        [s EXCEPT !.attachments = Append(@, [name |-> place[2], data |-> {}])]
                  [] partial /\ s.copied /\ s.bytes + a.size > MaxTotalAttachmentBytes
                       /\ <<place[2], a.size>> \notin cache ->
                        [s EXCEPT !.complete = FALSE]
                  [] OTHER ->
                        [s EXCEPT !.attachments = Append(@, [name |-> place[2], data |-> {a}]),
                                  !.bytes = @ + a.size, !.copied = TRUE]
    IN  FoldLeft(Step, [attachments |-> <<>>, bytes |-> 0, copied |-> FALSE, complete |-> TRUE],
                 places)

(* _populate_basic_data. *)
BasicData(record) ==
    [status |-> TestStatus(record), failure_codes |-> record.outcome_details,
     phases |-> [i \in DOMAIN record.phases |-> record.phases[i].name],
     logs |-> [i \in DOMAIN record.log_records |-> LogLevel(record.log_records[i])]]

(* _attach_record_as_json, _attach_argv and _attach_config. *)
Info(record) ==
    <<"OpenHTF_record.json", "argv">> \o (IF record.config THEN <<"config">> ELSE <<>>)

(* mfg_event_from_test_record. *)
MfgEventFromTestRecord(record, partial, cache) ==
    LET basic == BasicData(record)
        phases == Uniquize(ConvertMultidim(record.phases))
        copied == CopyAttachments(phases, partial, cache)
    IN  [status |-> basic.status, phases |-> basic.phases, logs |-> basic.logs,
         failure_codes |-> basic.failure_codes \o FailureCodes(phases),
         assembly_events |-> IF basic.status = "PASS" THEN record.assembly_events ELSE <<>>,
         measurements |-> CopyMeasurements(phases), info |-> Info(record),
         attachments |-> copied.attachments, bytes |-> copied.bytes,
         partial |-> ~copied.complete]
=============================================================================

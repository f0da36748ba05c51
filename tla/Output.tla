------------------------------- MODULE Output -------------------------------
(***************************************************************************)
(* What happens to a finished test record: its conversion into base types  *)
(* with the copies the record caches, and the output callbacks that write  *)
(* it to a file or upload it, in the order in which they were added.       *)
(* Sources: openhtf/util/data.py, openhtf/core/test_record.py,             *)
(* openhtf/output/callbacks/__init__.py, json_factory.py,                  *)
(* mfg_inspector.py, openhtf/util/atomic_write.py.                         *)
(***************************************************************************)
EXTENDS Integers, Sequences, FiniteSets, SequencesExt, FiniteSetsExt, Functions, TLC

CONSTANT MaxUploadAttempts  \* _MAX_UPLOAD_ATTEMPTS

-----------------------------------------------------------------------------
(* convert_to_base_types. A value has a kind, its parts (keys and values) or none, and, for
   a number, whether it is finite. *)

Leaf(kind) == [kind |-> kind, parts |-> <<>>]
Base == Leaf("base")  \* a bool, int, bytes, str or None

(* Objects with fields become dictionaries, and an enum is known by its name; of a
   RecordClass, fields without a value are left out. *)
Unwrapped(obj) ==
    CASE obj.kind = "fields" -> [obj EXCEPT !.kind = "dict"]
      [] obj.kind = "record" ->
            [kind |-> "dict",
             parts |-> RestrictValues(obj.parts, LAMBDA v : v.kind # "unset")]
      [] obj.kind \in {"enum", "unset"} -> Base
      [] OTHER -> obj

RECURSIVE ConvertToBaseTypes(_, _, _, _)
ConvertToBaseTypes(obj, ignoreKeys, tupleType, jsonSafe) ==
    LET o == Unwrapped(obj)
        Parts(safe, keys) ==
            [k \in keys |-> ConvertToBaseTypes(o.parts[k], ignoreKeys, tupleType, safe)]
    IN  CASE obj.kind = "as_base_types" -> obj.parts[1]
          [] o.kind = "base" -> o
          [] o.kind = "dict" ->  \* json_safe is not passed on
                [kind |-> "dict", parts |-> Parts(TRUE, DOMAIN o.parts \ ignoreKeys)]
          [] o.kind \in {"list", "tuple"} ->
                [kind |-> IF o.kind = "tuple" THEN tupleType ELSE "list",
                 parts |-> Parts(jsonSafe, DOMAIN o.parts)]
          [] o.kind = "real" -> Leaf("float")
          [] o.kind = "nan" -> IF jsonSafe THEN Base ELSE o
          [] OTHER -> Base

-----------------------------------------------------------------------------
(* TestRecord: phases and, converted when each was added, their base types. An attachment
   is shown by its type and digest ("base"); in `cached` it may also be the Attachment. *)

NewRecord == [phases |-> <<>>, cached |-> <<>>, open |-> TRUE]

(* PhaseRecord.as_base_types. *)
PhaseAsBaseTypes(phase) ==
    [outcome |-> phase.outcome, attachments |-> [n \in phase.attachments |-> "base"]]
AddPhaseRecord(record, phase) ==
    [record EXCEPT !.phases = Append(@, phase), !.cached = Append(@, PhaseAsBaseTypes(phase))]

(* PhaseExecutor._should_repeat, of the last phase. *)
ForgiveLast(record) == [record EXCEPT !.phases[Len(record.phases)].outcome = "SKIP"]

(* TestRecord.as_base_types hands out the cached phases themselves. *)
AsBaseTypes(record) == record.cached
IsBaseTypes(phases) == \A i \in DOMAIN phases : Range(phases[i].attachments) \subseteq {"base"}

(* convert_test_record_to_json with inline_attachments: the Attachments go into the cache. *)
Inlined(record) ==
    [record EXCEPT !.cached =
        [i \in DOMAIN @ |->
            [@[i] EXCEPT !.attachments = [n \in record.phases[i].attachments |-> "raw"] @@ @]]]
HasAttachments(record) == \E i \in DOMAIN record.phases : record.phases[i].attachments # {}

-----------------------------------------------------------------------------
(* Files. OutputToFile writes to a temporary file that Atomic.close() moves, also when the
   serialisation has raised after `written` of the chunks; util's atomic_write does not. *)

FileAfterOutput(before, chunks, written) == SubSeq(chunks, 1, written)
FileAfterAtomicWrite(before, chunks, written) ==
    IF written = Len(chunks) THEN chunks ELSE before

-----------------------------------------------------------------------------
(* MfgInspector. *)

(* _send_mfg_inspector_request, by what the server does. *)
Request(response) ==
    CASE response \in {"exception", "unparsable"} -> "UploadFailedError"
      [] response = "200" -> "result"
      [] response = "400" -> "InvalidTestRunError"
      [] OTHER -> "UploadFailedError"

(* send_mfg_inspector_data: the requests it makes of those the server would answer, and
   what comes of them. *)
SendData(responses) ==
    LET ends == {i \in 1..MaxUploadAttempts : Request(responses[i]) # "UploadFailedError"}
    IN  IF ends = {} THEN [requests |-> MaxUploadAttempts, result |-> "{}"]
        ELSE [requests |-> Min(ends), result |-> Request(responses[Min(ends)])]

(* An instance: its converter, and the cached proto (of which record) with the parameters
   of the record it was made from. *)
NewInspector(credentials) ==
    [converter |-> FALSE, credentials |-> credentials, proto |-> {}, params |-> {}]
SetConverter(inspector) == [inspector EXCEPT !.converter = TRUE]
CanSave(inspector, pattern) == inspector.converter /\ pattern
CanUpload(inspector) == inspector.converter /\ inspector.credentials

(* _convert of a record with a number and PARAMS; `raises` if the converter does. *)
IsCached(inspector, record) == inspector.proto # {} /\ inspector.params = {record.params}
Converted(inspector, record, raises) ==
    IF IsCached(inspector, record) \/ raises THEN inspector
    ELSE [inspector EXCEPT !.proto = {record.number}, !.params = {record.params}]
ConvertRaises(inspector, record, raises) == ~IsCached(inspector, record) /\ raises

-----------------------------------------------------------------------------
(* The callbacks of one record in their order. Each gets the same record, and those that
   raise are logged (Test.execute). *)

(* mfg_event_from_test_record attaches the record as JSON, whose encoder knows no
   Attachment, and reads the data of the attachments. (How it renames them is in MfgEvent.) *)
MfgRaises(record) ==
    \/ ~IsBaseTypes(AsBaseTypes(record))
    \/ HasAttachments(record) /\ ~record.open

OutputCallback(s, callback) ==
    CASE callback = "json" ->
            LET raises == HasAttachments(s.record) /\ ~s.record.open
            IN  [s EXCEPT !.record = Inlined(@),
                          !.raised = IF raises THEN @ \cup {callback} ELSE @]
      [] callback = "mfg_event" ->
            [s EXCEPT !.raised = IF MfgRaises(s.record) THEN @ \cup {callback} ELSE @]
      [] callback = "close" -> [s EXCEPT !.record.open = FALSE]
OutputCallbacks(record, callbacks) ==
    FoldLeft(OutputCallback, [record |-> record, raised |-> {}], callbacks)
=============================================================================

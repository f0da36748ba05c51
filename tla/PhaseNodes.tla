----------------------------- MODULE PhaseNodes -----------------------------
(***************************************************************************)
(* How a test is put together: phases out of functions and decorators,     *)
(* sequences, subtests, branches and groups out of phases, and the checks  *)
(* before it is executed.                                                  *)
(* Sources: openhtf/core/phase_descriptor.py, phase_collections.py,        *)
(* phase_group.py, phase_branches.py, phase_nodes.py, base_plugs.py,       *)
(* openhtf/plugs/__init__.py (plug), diagnoses_lib.py, test_descriptor.py. *)
(*                                                                         *)
(* Nodes are nested records; every operation returns a new one, as the     *)
(* copies of the code do. Where the code raises, an operator says when it  *)
(* does not.                                                               *)
(***************************************************************************)
EXTENDS Integers, Sequences, FiniteSets, SequencesExt, TLC

-----------------------------------------------------------------------------
(* Names, with places for keyword arguments: a sequence of pieces, empty for None. *)

Text(s) == [hole |-> FALSE, s |-> s]
Hole(key) == [hole |-> TRUE, s |-> key]

(* util.format_string, with partial_format. *)
FormatString(name, kwargs) ==
    [i \in DOMAIN name |-> IF name[i].hole /\ name[i].s \in DOMAIN kwargs
                             THEN Text(kwargs[name[i].s]) ELSE name[i]]

-----------------------------------------------------------------------------
(* Phases. *)

NoArgs == <<>>

(* PhaseOptions(): "None" for an option that is not given, False included. *)
OptionNames == {"timeout_s", "run_if", "requires_state", "force_repeat", "repeat_limit",
                "repeat_on_timeout", "repeat_on_measurement_fail", "stop_on_measurement_fail",
                "run_under_pdb", "phase_name_case"}
DefaultOptions == [o \in OptionNames |-> IF o = "phase_name_case" THEN "KEEP" ELSE "None"]

(* A function with its parameters, of which the last `defaults` have a default. *)
Function(params, defaults, varargs, varkw) ==
    [kind |-> "callable", params |-> params, defaults |-> defaults,
     varargs |-> varargs, varkw |-> varkw]

(* PhaseDescriptor.wrap_or_copy, of a function or a phase. *)
WrapOrCopy(x) ==
    IF x.kind = "phase" THEN x
    ELSE [kind |-> "phase", func |-> x, name |-> <<>>, options |-> DefaultOptions,
          plugs |-> <<>>, measurements |-> <<>>, diagnosers |-> <<>>,
          kwargs |-> NoArgs, captured |-> FALSE, nodes |-> <<>>]

(* PhaseOptions.__call__: what is given replaces, and the case of names always does. *)
WithOptions(name, options, x) ==
    [WrapOrCopy(x) EXCEPT
        !.name = IF name # <<>> THEN name ELSE @,
        !.options = [o \in OptionNames |->
                        IF options[o] # "None" THEN options[o] ELSE @[o]]]

(* A plug class with the names of the classes it is a subclass of; a placeholder for it. *)
PlugClass(name, bases, auto) ==
    [name |-> name, bases |-> bases \cup {name}, auto |-> auto, placeholder |-> FALSE]
Placeholder(class) == [class EXCEPT !.placeholder = TRUE]
PhasePlug(name, class, update) == [name |-> name, cls |-> class, update |-> update]

NamesOf(s) == {s[i].name : i \in DOMAIN s}

(* plug() and measures() refuse a name the phase has. *)
CanPlug(plugs, x) == NamesOf(plugs) \cap NamesOf(WrapOrCopy(x).plugs) = {}
Plug(plugs, x) == [WrapOrCopy(x) EXCEPT !.plugs = @ \o plugs]
CanMeasure(measurements, x) ==
    ToSet(measurements) \cap ToSet(WrapOrCopy(x).measurements) = {}
Measures(measurements, x) == [WrapOrCopy(x) EXCEPT !.measurements = @ \o measurements]

(* A diagnoser of a phase or a test, its result_type (an enum: a set of values, empty if
   it is not set) and whether it has a function. *)
Diagnoser(level, enum, run) == [level |-> level, enum |-> enum, run |-> run]

(* check_diagnosers. *)
CheckDiagnosers(diagnosers, level) ==
    \A i \in DOMAIN diagnosers :
        diagnosers[i].level = level /\ diagnosers[i].enum # {} /\ diagnosers[i].run

(* diagnose(). *)
Diagnose(diagnosers, x) == [WrapOrCopy(x) EXCEPT !.diagnosers = @ \o diagnosers]

(* PhaseDescriptor.with_args: unknown arguments are ignored. *)
PhaseWithArgs(phase, kwargs) ==
    LET known == {k \in DOMAIN kwargs : k \in ToSet(phase.func.params) \/ phase.func.varkw}
    IN  [phase EXCEPT !.name = FormatString(@, kwargs),
                      !.kwargs = [k \in known |-> kwargs[k]] @@ @,
                      !.measurements = [i \in DOMAIN @ |-> FormatString(@[i], kwargs)]]

(* PhaseDescriptor.with_plugs: a substitute is a subclass, and what it replaces is a
   placeholder or declares auto_placeholder. *)
AcceptSubstitute(phase, subplugs) ==
    \A i \in DOMAIN phase.plugs :
        LET p == phase.plugs[i]
        IN  p.name \in DOMAIN subplugs =>
              (p.cls.placeholder \/ p.cls.auto) /\ p.cls.name \in subplugs[p.name].bases
ClassNames(subplugs) == [k \in DOMAIN subplugs |-> subplugs[k].name]
PhaseWithPlugs(phase, subplugs) ==
    IF NamesOf(phase.plugs) \cap DOMAIN subplugs = {} THEN phase
    ELSE [phase EXCEPT
            !.plugs = [i \in DOMAIN @ |->
                IF @[i].name \in DOMAIN subplugs
                  THEN [@[i] EXCEPT !.cls = subplugs[phase.plugs[i].name]] ELSE @[i]],
            !.name = FormatString(@, ClassNames(subplugs)),
            !.measurements = [i \in DOMAIN @ |-> FormatString(@[i], ClassNames(subplugs))]]

(* PhaseDescriptor.__call__: the keywords, and whether the TestApi comes first. *)
Keywords(phase) ==
    LET n == Len(phase.func.params)
    IN  {phase.func.params[i] : i \in (n - phase.func.defaults + 1)..n}
          \cup DOMAIN phase.kwargs
          \cup {p.name : p \in {q \in ToSet(phase.plugs) : q.update}}
PassesApi(phase) ==
    \/ phase.func.varargs
    \/ phase.func.varkw /\ phase.func.params # <<>>
    \/ Len(phase.func.params) > Cardinality(Keywords(phase))

-----------------------------------------------------------------------------
(* Collections. A group's nodes are its setup, main and teardown. *)

SequenceTypes == {"sequence", "subtest", "branch"}
None == [kind |-> "none", nodes |-> <<>>]
List(items) == [kind |-> "list", nodes |-> items]
Collection(kind, name, nodes) ==
    [kind |-> kind, name |-> name, nodes |-> nodes, when |-> "-", action |-> "-"]

(* phase_collections._recursive_flatten, with copies; it raises on what is not a node. *)
RECURSIVE Flatten(_)
Flatten(x) ==
    CASE x.kind = "list" -> FlattenSeq([i \in DOMAIN x.nodes |-> Flatten(x.nodes[i])])
      [] x.kind = "callable" -> <<WrapOrCopy(x)>>
      [] OTHER -> <<x>>

(* DiagnosisCondition and its check; with one result it is what the walk asks of "diag". *)
DiagnosisCondition(on, results) == [on |-> on, results |-> results]
ConditionHolds(c, store) ==
    LET all == \A d \in c.results : d \in store
        any == \E d \in c.results : d \in store
    IN  CASE c.on = "ALL" -> all [] c.on = "ANY" -> any
          [] c.on = "NOT_ALL" -> ~all [] c.on = "NOT_ANY" -> ~any
When(c) == IF c.on \in {"ALL", "ANY"} THEN "DIAG" ELSE "NOT_DIAG"

(* The constructors. *)
PhaseSequence(args) == Collection("sequence", <<>>, Flatten(List(args)))
Subtest(name, args) == Collection("subtest", name, Flatten(List(args)))
BranchSequence(condition, args) ==
    [Collection("branch", <<>>, Flatten(List(args))) EXCEPT !.when = When(condition)]
Checkpoint(when, action) ==
    [Collection("checkpoint", <<>>, <<>>) EXCEPT !.when = when, !.action = action]

(* _initialize_group_sequence: a sequence of any type is taken as it is. *)
GroupSequenceOf(x) ==
    CASE x = None \/ x = List(<<>>) -> None
      [] x.kind \in SequenceTypes -> x
      [] OTHER -> PhaseSequence(<<x>>)
PhaseGroup(setup, main, teardown) ==
    Collection("group", <<>>,
        <<GroupSequenceOf(setup), GroupSequenceOf(main), GroupSequenceOf(teardown)>>)

(* PhaseGroup.with_context. *)
WithContext(setup, teardown, phases) ==
    LET wrap(x) == IF x = None \/ x = List(<<>>) THEN None ELSE PhaseSequence(<<x>>)
    IN  PhaseGroup(wrap(setup), PhaseSequence(phases), wrap(teardown))

(* PhaseSequence.combine, PhaseGroup.combine and wrap. *)
CombineSequences(s, t) ==
    IF s.nodes \o t.nodes = <<>> THEN None ELSE Collection("sequence", <<>>, s.nodes \o t.nodes)
Combine(g, h) ==
    Collection("group", <<>>, [i \in 1..3 |-> CombineSequences(g.nodes[i], h.nodes[i])])
Wrap(g, main) == Combine(g, PhaseGroup(None, main, None))

(* with_args, with_plugs and load_code_info of a phase, as values. *)
Change(op, with) == [op |-> op, with |-> with]
OnPhase(phase, change) ==
    CASE change.op = "with_args" -> PhaseWithArgs(phase, change.with)
      [] change.op = "with_plugs" -> PhaseWithPlugs(phase, change.with)
      [] OTHER -> [phase EXCEPT !.captured = TRUE]

(* The same of a collection or a checkpoint, which is also what apply_to_all_phases does
   with a function. *)
ChangedName(name, change) ==
    CASE change.op = "with_args" -> FormatString(name, change.with)
      [] change.op = "with_plugs" -> FormatString(name, ClassNames(change.with))
      [] OTHER -> name
RECURSIVE Changed(_, _)
ChangedGroup(group, change) ==
    [group EXCEPT !.name = ChangedName(@, change),
                  !.nodes = [i \in 1..3 |-> IF @[i] = None THEN None ELSE Changed(@[i], change)]]
Changed(node, change) ==
    CASE node.kind = "phase" -> OnPhase(node, change)
      [] node.kind = "group" -> ChangedGroup(node, change)
      [] OTHER -> [node EXCEPT !.name = ChangedName(@, change),
                               !.nodes = [i \in DOMAIN @ |-> Changed(@[i], change)]]

(* filter_by_type: a group's own sequences are not yielded, only what is in them. *)
RECURSIVE FilterByType(_, _)
FilterGroup(group, kinds) ==
    FlattenSeq([i \in 1..3 |-> FilterByType(group.nodes[i], kinds)])
FilterByType(sequence, kinds) ==
    FlattenSeq([i \in DOMAIN sequence.nodes |->
        LET n == sequence.nodes[i]
        IN  (IF n.kind \in kinds THEN <<n>> ELSE <<>>)
              \o (IF n.kind = "group" THEN FilterGroup(n, kinds) ELSE FilterByType(n, kinds))])
AllPhases(node) == FilterByType(node, {"phase"})

-----------------------------------------------------------------------------
(* Test.__init__, and the checks of Test.execute and of PlugManager(). *)

Test(nodes) == PhaseSequence(<<List(nodes)>>)

(* check_for_duplicate_subtest_names. *)
DuplicateSubtests(test) ==
    LET subtests == FilterByType(test, {"subtest"})
    IN  \E i, j \in DOMAIN subtests : i < j /\ subtests[i].name = subtests[j].name

(* check_for_duplicate_results: two enums that share a value. *)
DuplicateResults(test, testDiagnosers) ==
    LET enums == {d.enum : d \in UNION ({ToSet(p.diagnosers) : p \in ToSet(AllPhases(test))}
                                          \cup {ToSet(testDiagnosers)})}
    IN  \E e, f \in enums : e # f /\ e \cap f # {}

(* TestDescriptor.plug_types, none of which may be a placeholder. *)
PlugTypes(test) == UNION {{q.cls : q \in ToSet(p.plugs)} : p \in ToSet(AllPhases(test))}
CanExecute(test, testDiagnosers) ==
    /\ ~DuplicateResults(test, testDiagnosers)
    /\ ~DuplicateSubtests(test)
    /\ \A c \in PlugTypes(test) : ~c.placeholder

-----------------------------------------------------------------------------
(* The nodes as TestExecutor walks them: numbered from the root, with kids. A group's
   sequences are run as plain ones, whatever their type. *)

RECURSIVE Layout(_, _)
LayoutKids(nodes, at) ==
    FoldLeft(LAMBDA acc, n :
                IF n.kind = "none" THEN [acc EXCEPT !.kids = Append(@, 0)]
                ELSE [kids |-> Append(acc.kids, at + Len(acc.laid)),
                      laid |-> acc.laid \o Layout(n, at + Len(acc.laid))],
             [kids |-> <<>>, laid |-> <<>>], nodes)
Layout(node, at) ==
    LET parts == IF node.kind # "group" THEN node.nodes
                 ELSE [i \in 1..3 |-> IF node.nodes[i] = None THEN None
                                      ELSE [node.nodes[i] EXCEPT !.kind = "sequence"]]
        below == LayoutKids(parts, at + 1)
    IN  <<[node |-> node, kids |-> below.kids]>> \o below.laid

Tree(test) ==
    LET laid == Layout(test, 1)
        walk(n, kids) ==
            IF n.kind = "phase"
              THEN [kind |-> "phase", kids |-> <<>>, when |-> "-", action |-> "-",
                    diagnosed |-> n.diagnosers # <<>>]
              ELSE [kind |-> n.kind, kids |-> kids, when |-> n.when, action |-> n.action,
                    diagnosed |-> FALSE]
    IN  [i \in DOMAIN laid |-> walk(laid[i].node, laid[i].kids)]

=============================================================================

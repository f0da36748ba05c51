--------------------------- MODULE MCTestExecutor ---------------------------
(* Small tests for TestExecutor, one for each way of nesting, put together with the
   constructors of PhaseNodes; and the constructors against what they are to do. *)
EXTENDS TestExecutor, PhaseNodes, MCDeclarations

P == Function(<<"test">>, 0, FALSE, FALSE)
Res == {"res"}
DiagP == Diagnose(<<Diagnoser("phase", Res, TRUE)>>, P)
OnRes == DiagnosisCondition("ANY", Res)
NotOnRes == DiagnosisCondition("NOT_ANY", Res)
Sub(s, nodes) == Subtest(<<Text(s)>>, nodes)

(* A group in the main part of a group. *)
NestedGroups == Test(<<PhaseGroup(P, List(<<P, PhaseGroup(None, P, P)>>), P), P>>)

(* A group in a group's setup and one in its teardown. *)
GroupsAround ==
    Test(<<PhaseGroup(PhaseGroup(P, None, P), P, List(<<PhaseGroup(None, P, P), P>>))>>)

(* A subtest with a group and an inner subtest, and a phase after it. *)
Subtests ==
    Test(<<Sub("outer", <<P,
               PhaseGroup(P, List(<<P, Checkpoint("SUBTEST", "FAIL_SUBTEST")>>), P),
               Sub("inner", <<P, Checkpoint("LAST", "STOP")>>),
               P>>),
           P>>)

(* Branches on a diagnosis, with checkpoints, one of them before any phase and
   one in a teardown. *)
Branches ==
    Test(<<Checkpoint("DIAG", "STOP"), DiagP,
           BranchSequence(OnRes, <<P, Checkpoint("LAST", "STOP")>>),
           BranchSequence(NotOnRes, <<P, Checkpoint("ALL", "FAIL_SUBTEST")>>),
           PhaseGroup(None, P, List(<<BranchSequence(OnRes, <<P>>), Checkpoint("ALL", "STOP")>>))>>)

(* A branch inside a subtest, with a sequence in it. *)
SubtestBranch ==
    Test(<<Sub("s", <<DiagP, BranchSequence(NotOnRes, <<PhaseSequence(<<P>>)>>), P>>),
           Checkpoint("ALL", "STOP")>>)

(* A subtest that a checkpoint fails before there is a phase. *)
NoPhases == Test(<<Sub("s", <<Checkpoint("NOT_DIAG", "FAIL_SUBTEST"), BranchSequence(OnRes, <<P>>)>>)>>)

(* A group inside the teardown of a group, all in a subtest. *)
GroupInTeardown == Test(<<Sub("s", <<PhaseGroup(None, P, PhaseGroup(None, P, P))>>)>>)

MCTrees == {Tree(t) : t \in {NestedGroups, GroupsAround, Subtests, Branches, SubtestBranch,
                           NoPhases}}
TeardownTrees == {Tree(GroupInTeardown)}

-----------------------------------------------------------------------------
(* Phases, and collections of them two deep. *)

Base == PlugClass("base", {}, FALSE)
Auto == PlugClass("auto", {"base"}, TRUE)
Real == PlugClass("real", {"base", "auto"}, FALSE)
Q == Plug(<<PhasePlug("a", Placeholder(Base), TRUE)>>, Function(<<"test", "a">>, 0, FALSE, FALSE))
R == Measures(<<<<Text("m"), Hole("x")>>>>,
              Diagnose(<<Diagnoser("phase", {"res", "other"}, TRUE)>>,
                       Function(<<"test", "x">>, 0, FALSE, FALSE)))
Numbered == <<Text("s"), Hole("x")>>

Shallow == {P, Q, R, Checkpoint("ALL", "STOP")}
Flat == SeqOf(Shallow, 2)
Deep == {PhaseSequence(args) : args \in Flat}
          \cup {Subtest(name, args) : name \in {<<Text("s")>>, Numbered}, args \in SeqOf({P, R}, 1)}
          \cup {BranchSequence(OnRes, args) : args \in SeqOf({Q}, 1)}
SmallGroups ==
    {PhaseGroup(s, m, t) : s \in {None, List(<<P>>)},
                                 m \in {List(args) : args \in SeqOf({Q, R}, 2)} \cup {Sub("s", <<P>>)},
                                 t \in {None, List(<<Sub("s", <<R>>)>>)}}
Tests == {Test(<<a, b>>) : a, b \in Deep \cup SmallGroups}
Changes == {Change("with_args", [x |-> "1"]), Change("with_plugs", [a |-> Real]),
            Change("load_code_info", NoArgs)}

(* However the arguments are nested in lists, a sequence has them all, in order; a group
   made with a context or combined with another loses none of its phases. *)
ASSUME OrderAssumption ==
    /\ \A a \in Flat, b \in Deep :
         /\ PhaseSequence(<<List(a), List(<<List(<<b>>)>>)>>) = PhaseSequence(a \o <<b>>)
         /\ \A t \in {None, List(<<R>>)} :
              AllPhases(Test(<<WithContext(List(a), t, <<b>>)>>))
                = AllPhases(PhaseSequence(a \o <<b>> \o t.nodes))
    /\ \A g, h \in SmallGroups :
         /\ \A part \in 1..3 : AllPhases(Combine(g, h).nodes[part])
                                 = AllPhases(g.nodes[part]) \o AllPhases(h.nodes[part])
         /\ AllPhases(Test(<<Wrap(g, List(<<h>>))>>))
              = AllPhases(PhaseSequence(g.nodes[1].nodes \o g.nodes[2].nodes \o <<h>> \o g.nodes[3].nodes))

(* A change of a test is the change of each of its phases, in the same shape. *)
ASSUME ChangeAssumption ==
    \A t \in Tests, c \in Changes :
        LET before == AllPhases(t)
            after == AllPhases(Changed(t, c))
        IN  /\ after = [i \in DOMAIN before |-> OnPhase(before[i], c)]
            /\ [i \in DOMAIN Tree(t) |-> Tree(t)[i].kids]
                 = [i \in DOMAIN Tree(t) |-> Tree(Changed(t, c))[i].kids]

(* What is walked: every phase once and in order; and the check for duplicates finds any
   two subtests of the walk that share a name. *)
ASSUME WalkAssumption ==
    \A t \in Tests :
        LET laid == Layout(t, 1)
            ofKind(k) == SelectSeq(laid, LAMBDA l : l.node.kind = k)
        IN  /\ IsTree(Tree(t))
            /\ [i \in DOMAIN ofKind("phase") |-> ofKind("phase")[i].node] = AllPhases(t)
            /\ DuplicateSubtests(t) <=>
                 \E i, j \in DOMAIN laid :
                     /\ i < j /\ laid[i].node.kind = "subtest" /\ laid[j].node.kind = "subtest"
                     /\ laid[i].node.name = laid[j].node.name

(* with_plugs replaces every placeholder it names, so that the test can be executed. *)
ASSUME PlugsAssumption ==
    \A t \in Tests : \A sub \in {Auto, Real} :
        LET s == Changed(t, Change("with_plugs", [a |-> sub]))
        IN  /\ \A p \in ToSet(AllPhases(t)) : AcceptSubstitute(p, [a |-> sub])
            /\ PlugTypes(s) = {sub} \/ PlugTypes(t) = {}
            /\ CanExecute(s, <<>>) <=> ~DuplicateSubtests(t) /\ ~DuplicateResults(t, <<>>)

(* A function whose first parameter is for the TestApi, or that has none for it, is called
   with every parameter bound once. *)
ASSUME CallAssumption ==
    \A takesApi, varargs, varkw \in BOOLEAN : \A rest \in {<<>>, <<"a">>, <<"a", "b">>} :
    \A given \in SUBSET {"a", "b", "c"} : \A defaults \in 0..Len(rest) :
        LET f == Function((IF takesApi THEN <<"test">> ELSE <<>>) \o rest, defaults, varargs, varkw)
            phase == PhaseWithArgs(WrapOrCopy(f), [k \in given |-> "1"])
            wellFormed == /\ \A i \in 1..(Len(rest) - defaults) : rest[i] \in given
                          /\ varargs \/ (varkw /\ f.params # <<>>) => takesApi
        IN  wellFormed =>
              /\ PassesApi(phase) <=> takesApi \/ varargs
              /\ ToSet(rest) \subseteq Keywords(phase) /\ "test" \notin Keywords(phase)
              /\ Keywords(phase) \subseteq ToSet(rest) \/ varkw

(* A decorator around another keeps what the inner one set; and a condition on one
   result is what TestExecutor makes of it. *)
ASSUME DecoratorsAssumption ==
    /\ \A o, i \in OptionNames \ {"phase_name_case"} :
         LET inner == WithOptions(<<>>, [DefaultOptions EXCEPT ![i] = "1"], P)
             both == WithOptions(<<>>, [DefaultOptions EXCEPT ![o] = "2"], inner)
         IN  both.options[o] = "2" /\ (o # i => both.options[i] = "1")
    /\ \A c \in {DiagnosisCondition(on, Res) : on \in {"ALL", "ANY", "NOT_ALL", "NOT_ANY"}} :
         \A store \in SUBSET Res : ConditionHolds(c, store) <=> (When(c) = "DIAG" <=> store # {})
=============================================================================

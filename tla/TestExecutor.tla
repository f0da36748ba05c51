---------------------------- MODULE TestExecutor ----------------------------
(***************************************************************************)
(* TestExecutor._execute_node: the recursive walk over the phase nodes of  *)
(* a test (phases, checkpoints, sequences, subtests, branches and groups), *)
(* with the abort flags changing under it.                                 *)
(* Sources: openhtf/core/test_executor.py, phase_executor.py,              *)
(* phase_branches.py, phase_group.py, phase_collections.py, test_state.py. *)
(*                                                                         *)
(* The recursion is an explicit stack of frames. One phase, with its       *)
(* repetitions, is a start and a finish; module PhaseExecutor has the      *)
(* thread-level detail of that.                                            *)
(***************************************************************************)
EXTENDS Integers, Sequences, SequencesExt

CONSTANTS
    Trees,              \* the tests to run, see IsTree
    Results,            \* what phases do, a subset of PhaseEnds
    StopOnFirstFailure, \* TestOptions.stop_on_first_failure
    MaxAborts           \* bound on the number of Ctrl-C

(* How a phase ends for the walk: its PhaseExecutionOutcome together with the
   PhaseOutcome of its last record. DECLINED (by run_if) and CANCELLED (the
   executor is stopping) leave no record; SKIPPED is skip_phase's. *)
Recorded == [PASS |-> "PASS", FAIL |-> "FAIL", FAIL_SUBTEST |-> "FAIL", SKIP |-> "SKIP",
             SKIPPED |-> "SKIP", STOP |-> "ERROR", EXC |-> "ERROR", TIMEOUT |-> "ERROR"]
PhaseEnds == DOMAIN Recorded \cup {"DECLINED", "CANCELLED"}
IsTerminal(e) == e \in {"STOP", "EXC", "TIMEOUT", "CANCELLED"}

SequenceKinds == {"sequence", "subtest", "branch"}

(* A node of tree t; its kids are node numbers, and 0 in a group stands for a missing
   sequence. *)
NodeType(t) == [kind : SequenceKinds \cup {"group", "phase", "checkpoint"},
                kids : Seq(0..Len(t)),
                when : {"LAST", "ALL", "SUBTEST", "DIAG", "NOT_DIAG", "-"},
                action : {"STOP", "FAIL_SUBTEST", "-"},
                diagnosed : BOOLEAN]

IsNode(t, n) ==
    /\ \A k \in 1..Len(t[n].kids) :
         LET c == t[n].kids[k]
         IN  c > n \/ (c = 0 /\ t[n].kind = "group")
    /\ t[n].kind = "group" =>
         /\ Len(t[n].kids) = 3
         /\ \A k \in 1..3 : t[n].kids[k] # 0 => t[t[n].kids[k]].kind = "sequence"
    /\ t[n].kind \in {"phase", "checkpoint"} => t[n].kids = <<>>
    /\ t[n].kind = "branch" => t[n].when \in {"DIAG", "NOT_DIAG"}
    /\ t[n].kind = "checkpoint" => t[n].when # "-" /\ t[n].action # "-"

(* Numbered in preorder: each node but the root is in an earlier one, and all that
   is in a node comes before its next sibling. *)
InOrder(t) ==
    /\ \A c \in 2..Len(t) : \E n \in 1..(c - 1) : \E k \in 1..Len(t[n].kids) : t[n].kids[k] = c
    /\ \A n \in 1..Len(t) : \A k \in 1..Len(t[n].kids) :
         LET c == t[n].kids[k]
         IN  c # 0 =>
               /\ \A j \in 1..(k - 1) : t[n].kids[j] < c
               /\ \A m \in (n + 1)..(c - 1) : \A j \in 1..Len(t[m].kids) : t[m].kids[j] < c

(* A tree is the sequence of its nodes, the root first. *)
IsTree(t) ==
    /\ t \in Seq(NodeType(t))
    /\ Len(t) > 0 /\ t[1].kind = "sequence"
    /\ \A n \in 1..Len(t) : IsNode(t, n)
    /\ InOrder(t)

ASSUME ConstantsAssumption ==
    /\ \A t \in Trees : IsTree(t)
    /\ Results \subseteq PhaseEnds \ {"SKIPPED", "CANCELLED"}
    /\ StopOnFirstFailure \in BOOLEAN
    /\ MaxAborts \in Nat

VARIABLES
    tree,           \* the test's phase_sequence
    stack,          \* the frames of _execute_sequence, _execute_phase_group, ...
    ctl,            \* what the executor does next with the top frame
    ends,           \* history: how each phase node ended
    phases,         \* test_record.phases
    subtest,        \* outcome of the SubtestRecord of each subtest
    records,        \* the subtest, branch and checkpoint records of the test
    diag,           \* the diagnosis result is in the DiagnosesStore
    lastOutcome,    \* _last_outcome
    testOutcome,    \* test_record.outcome
    abort, fullAbort, aborts

walkVars == <<tree, stack, ctl>>
recordVars == <<ends, phases, subtest, records, diag, lastOutcome, testOutcome>>
abortVars == <<abort, fullAbort, aborts>>
vars == <<walkVars, recordVars, abortVars>>

Nodes == 1..Len(tree)
Kind(n) == tree[n].kind
Kids(n) == tree[n].kids
Top == stack[Len(stack)]
Below == SubSeq(stack, 1, Len(stack) - 1)

Call(n, s, td) == [op |-> "call", node |-> n, sub |-> s, td |-> td]
Return(r) == [op |-> "return", ret |-> r]
Loop == [op |-> "loop"]

Rets == {"CONTINUE", "TERMINAL"}
Frame == [node : Nodes, i : Nat, ret : Rets, sub : {0} \cup Nodes, td : BOOLEAN, skip : BOOLEAN]
Control == [op : {"call", "run"}, node : Nodes, sub : {0} \cup Nodes, td : BOOLEAN]
             \cup [op : {"return"}, ret : Rets] \cup [op : {"loop", "finish", "done"}]
SubtestOutcomes == {"NONE", "PASS", "FAIL", "STOP"}

(* No frame is beyond the kids of its node, and no phase has two records. *)
TypeOK ==
    /\ tree \in Trees
    /\ stack \in Seq(Frame)
    /\ \A k \in 1..Len(stack) : stack[k].i <= Len(Kids(stack[k].node))
    /\ ctl \in Control
    /\ ends \in [Nodes -> PhaseEnds \cup {"NONE"}]
    /\ phases \in Seq([sub : {0} \cup Nodes, outcome : {"PASS", "FAIL", "SKIP", "ERROR"}])
    /\ Len(phases) <= Len(tree)
    /\ subtest \in [Nodes -> SubtestOutcomes]
    /\ records \in [Nodes -> SubtestOutcomes \cup {"SKIP", "TAKEN", "NOT_TAKEN", "CONTINUE",
                                                  "FAIL_SUBTEST", "EXC"}]
    /\ diag \in BOOLEAN
    /\ lastOutcome \in PhaseEnds \cup {"NONE"}
    /\ testOutcome \in {"NONE", "PASS", "FAIL", "ERROR", "TIMEOUT", "ABORTED"}
    /\ abort \in BOOLEAN /\ fullAbort \in BOOLEAN /\ aborts \in 0..MaxAborts

(* _thread_proc: _execute_node(phase_sequence, None, False). *)
Init ==
    /\ tree \in Trees
    /\ stack = <<>>
    /\ ctl = Call(1, 0, FALSE)
    /\ ends = [n \in Nodes |-> "NONE"]
    /\ phases = <<>>
    /\ subtest = [n \in Nodes |-> "NONE"]
    /\ records = [n \in Nodes |-> "NONE"]
    /\ diag = FALSE /\ lastOutcome = "NONE" /\ testOutcome = "NONE"
    /\ abort = FALSE /\ fullAbort = FALSE /\ aborts = 0

-----------------------------------------------------------------------------
(* Helpers. *)

MoreCritical(r1, r2) == IF "TERMINAL" \in {r1, r2} THEN "TERMINAL" ELSE "CONTINUE"

(* subtest_rec and subtest_rec.is_fail *)
IsFail(s) == s # 0 /\ subtest[s] = "FAIL"

Calling(kind) == ctl.op = "call" /\ Kind(ctl.node) = kind

Push(s, skip) ==
    /\ stack' = Append(stack, [node |-> ctl.node, i |-> 0, ret |-> "CONTINUE",
                               sub |-> s, td |-> ctl.td, skip |-> skip])
    /\ ctl' = Loop

(* The teardown lock is held while a teardown sequence is on the stack. *)
TeardownLocked == \E k \in 1..Len(stack) : stack[k].td /\ Kind(stack[k].node) \in SequenceKinds

-----------------------------------------------------------------------------
(* Collections. *)

(* _execute_sequence of a plain sequence. *)
ExecuteSequence ==
    /\ Calling("sequence")
    /\ Push(ctl.sub, FALSE)
    /\ UNCHANGED <<tree, recordVars, abortVars>>

(* Mutant: a subtest inside a failed one starts afresh. *)
M_ExecuteSubtest ==
    /\ Calling("subtest")
    /\ subtest' = [subtest EXCEPT ![ctl.node] = "PASS"]
    /\ Push(ctl.node, FALSE)
    /\ UNCHANGED <<tree, ends, phases, records, diag, lastOutcome, testOutcome, abortVars>>

(* _subtest_context and the start of _execute_subtest. *)
ExecuteSubtest ==
    /\ Calling("subtest")
    /\ subtest' = [subtest EXCEPT ![ctl.node] = IF IsFail(ctl.sub) THEN "FAIL" ELSE "PASS"]
    /\ Push(ctl.node, FALSE)
    /\ UNCHANGED <<tree, ends, phases, records, diag, lastOutcome, testOutcome, abortVars>>

(* DiagnosisCondition.check for on_any and on_not_any of one result. *)
Condition(n) == IF tree[n].when = "DIAG" THEN diag ELSE ~diag

(* _execute_phase_branch: not run under a failed subtest, which leaves no
   record; not taken; taken. *)
ExecutePhaseBranch ==
    /\ Calling("branch")
    /\ \/ /\ ~ctl.td /\ IsFail(ctl.sub)
          /\ ctl' = Return("CONTINUE")
          /\ UNCHANGED <<stack, records>>
       \/ /\ ctl.td \/ ~IsFail(ctl.sub)
          /\ ~Condition(ctl.node)
          /\ records' = [records EXCEPT ![ctl.node] = "NOT_TAKEN"]
          /\ ctl' = Return("CONTINUE")
          /\ UNCHANGED stack
       \/ /\ ctl.td \/ ~IsFail(ctl.sub)
          /\ Condition(ctl.node)
          /\ Push(ctl.sub, FALSE)
          /\ UNCHANGED records
    /\ UNCHANGED <<tree, ends, phases, subtest, diag, lastOutcome, testOutcome, abortVars>>

(* _execute_phase_group, up to its first sequence. *)
ExecutePhaseGroup ==
    /\ Calling("group")
    /\ Push(ctl.sub, IsFail(ctl.sub))
    /\ UNCHANGED <<tree, recordVars, abortVars>>

(* The end of a sequence, which is also the end of its subtest or branch. *)
FinishSequence(r) ==
    LET n == Top.node
    IN  /\ stack' = Below
        /\ ctl' = Return(r)
        /\ subtest' = IF Kind(n) = "subtest" /\ r = "TERMINAL"
                        THEN [subtest EXCEPT ![n] = "STOP"] ELSE subtest
        /\ records' = CASE Kind(n) = "subtest" -> [records EXCEPT ![n] = subtest'[n]]
                        [] Kind(n) = "branch" -> [records EXCEPT ![n] = "TAKEN"]
                        [] OTHER -> records

(* The next node of the top sequence. *)
NextNode(td) ==
    /\ ctl' = Call(Kids(Top.node)[Top.i + 1], Top.sub, td)
    /\ stack' = [stack EXCEPT ![Len(stack)].i = @ + 1]
    /\ UNCHANGED <<subtest, records>>

InSequence == stack # <<>> /\ Kind(Top.node) \in SequenceKinds
AtEnd == Top.i = Len(Kids(Top.node))

(* _execute_abortable_sequence: one turn of the loop. *)
AbortableSequence ==
    /\ ctl.op = "loop" /\ InSequence /\ ~Top.td
    /\ \/ AtEnd /\ FinishSequence("CONTINUE")
       \/ ~AtEnd /\ abort /\ FinishSequence("TERMINAL")
       \/ ~AtEnd /\ ~abort /\ NextNode(FALSE)
    /\ UNCHANGED <<tree, ends, phases, diag, lastOutcome, testOutcome, abortVars>>

(* _execute_teardown_sequence: one turn of the loop. *)
TeardownSequence ==
    /\ ctl.op = "loop" /\ InSequence /\ Top.td
    /\ \/ AtEnd /\ FinishSequence(Top.ret)
       \/ ~AtEnd /\ fullAbort /\ FinishSequence("TERMINAL")
       \/ ~AtEnd /\ ~fullAbort /\ NextNode(TRUE)
    /\ UNCHANGED <<tree, ends, phases, diag, lastOutcome, testOutcome, abortVars>>

(* A node of the top sequence has returned: a terminal one ends an abortable
   sequence, a teardown sequence remembers it and goes on. *)
ReturnToSequence ==
    /\ ctl.op = "return" /\ InSequence
    /\ IF ~Top.td /\ ctl.ret = "TERMINAL"
         THEN FinishSequence("TERMINAL")
         ELSE /\ stack' = [stack EXCEPT ![Len(stack)].ret = MoreCritical(@, ctl.ret)]
              /\ ctl' = Loop
              /\ UNCHANGED <<subtest, records>>
    /\ UNCHANGED <<tree, ends, phases, diag, lastOutcome, testOutcome, abortVars>>

InGroup == stack # <<>> /\ Kind(Top.node) = "group"

(* Mutant: the teardown is run like the other two sequences. *)
M_GroupSequence ==
    /\ ctl.op = "loop" /\ InGroup
    /\ LET part == Top.i + 1
           n == Kids(Top.node)[part]
       IN  /\ stack' = [stack EXCEPT ![Len(stack)].i = part]
           /\ ctl' = IF n = 0 THEN Return("CONTINUE") ELSE Call(n, Top.sub, Top.td)
    /\ UNCHANGED <<tree, recordVars, abortVars>>

(* _execute_phase_group: run its next sequence, if it has one. The teardown is
   run in the abortable way, which records skips, when the group was not
   entered. *)
GroupSequence ==
    /\ ctl.op = "loop" /\ InGroup
    /\ LET part == Top.i + 1
           n == Kids(Top.node)[part]
       IN  /\ stack' = [stack EXCEPT ![Len(stack)].i = part]
           /\ ctl' = IF n = 0 THEN Return("CONTINUE")
                     ELSE Call(n, Top.sub, IF part = 3 THEN ~Top.skip ELSE Top.td)
    /\ UNCHANGED <<tree, recordVars, abortVars>>

(* _execute_phase_group: what it does with a sequence's return. *)
ReturnToGroup ==
    /\ ctl.op = "return" /\ InGroup
    /\ \/ /\ Top.i = 1 /\ ctl.ret = "TERMINAL"
          /\ stack' = Below
          /\ UNCHANGED ctl
       \/ /\ Top.i = 1 /\ ctl.ret = "CONTINUE"
          /\ stack' = [stack EXCEPT ![Len(stack)].skip = @ \/ IsFail(Top.sub)]
          /\ ctl' = Loop
       \/ /\ Top.i = 2
          /\ stack' = [stack EXCEPT ![Len(stack)].ret = ctl.ret]
          /\ ctl' = Loop
       \/ /\ Top.i = 3
          /\ stack' = Below
          /\ ctl' = Return(MoreCritical(Top.ret, ctl.ret))
    /\ UNCHANGED <<tree, recordVars, abortVars>>

-----------------------------------------------------------------------------
(* Phases and checkpoints. *)

(* Mutant: _last_outcome follows every phase. *)
M_KeepOutcome(e) == IF IsTerminal(e) THEN e ELSE "NONE"

(* _last_outcome is set once. *)
KeepOutcome(e) == IF IsTerminal(e) /\ lastOutcome = "NONE" THEN e ELSE lastOutcome

(* FAIL_SUBTEST marks the subtest's record, a terminal outcome ends the walk. *)
Apply(e, s) ==
    /\ lastOutcome' = KeepOutcome(e)
    /\ ctl' = Return(IF IsTerminal(e) THEN "TERMINAL" ELSE "CONTINUE")
    /\ subtest' = IF e = "FAIL_SUBTEST" THEN [subtest EXCEPT ![s] = "FAIL"] ELSE subtest

(* _execute_phase under a failed subtest: skip_phase. *)
SkipPhase ==
    /\ Calling("phase") /\ ~ctl.td /\ IsFail(ctl.sub)
    /\ ends' = [ends EXCEPT ![ctl.node] = "SKIPPED"]
    /\ phases' = Append(phases, [sub |-> ctl.sub, outcome |-> Recorded.SKIPPED])
    /\ ctl' = Return("CONTINUE")
    /\ UNCHANGED <<tree, stack, subtest, records, diag, lastOutcome, testOutcome, abortVars>>

(* _execute_phase: execute_phase is called. *)
StartPhase ==
    /\ Calling("phase") /\ (ctl.td \/ ~IsFail(ctl.sub))
    /\ ctl' = [ctl EXCEPT !.op = "run"]
    /\ UNCHANGED <<tree, stack, recordVars, abortVars>>

(* What can come out of execute_phase: FAIL_SUBTEST outside a subtest is an
   InvalidPhaseResultError; an abort, unless the teardown lock keeps it off, can
   cancel the phase before it has a record. *)
Ends(s) ==
    {IF e = "FAIL_SUBTEST" /\ s = 0 THEN "EXC" ELSE e : e \in Results}
      \cup (IF fullAbort \/ (abort /\ ~TeardownLocked) THEN {"CANCELLED", "EXC"} ELSE {})

(* stop_on_first_failure, applied to the last record, turns the outcome into a
   STOP. *)
WithFirstFailure(e, recs) ==
    IF StopOnFirstFailure /\ Last(recs).outcome = "FAIL" THEN "STOP" ELSE e

(* _execute_phase after execute_phase; with stop_on_first_failure and no record
   the index raises, and the exception unwinds the whole walk. *)
FinishPhase ==
    /\ ctl.op = "run"
    /\ \E e \in Ends(ctl.sub) :
         LET recs == IF e \in DOMAIN Recorded
                       THEN Append(phases, [sub |-> ctl.sub, outcome |-> Recorded[e]])
                       ELSE phases
         IN  /\ phases' = recs
             /\ ends' = [ends EXCEPT ![ctl.node] = e]
             /\ diag' \in {diag, diag \/ (tree[ctl.node].diagnosed /\ e \in DOMAIN Recorded)}
             /\ IF StopOnFirstFailure /\ recs = <<>>
                  THEN /\ ctl' = [op |-> "finish"]
                       /\ stack' = <<>>
                       /\ UNCHANGED <<subtest, lastOutcome>>
                  ELSE /\ Apply(WithFirstFailure(e, recs), ctl.sub)
                       /\ UNCHANGED stack
    /\ UNCHANGED <<tree, records, testOutcome, abortVars>>

(* _check_for_action of the two kinds of checkpoint. *)
CheckForAction(n, s) ==
    CASE tree[n].when = "LAST" -> Last(phases).outcome = "FAIL"
      [] tree[n].when = "SUBTEST" /\ s # 0 ->
           \E k \in 1..Len(phases) : phases[k].sub = s /\ phases[k].outcome = "FAIL"
      [] tree[n].when = "ALL" \/ (tree[n].when = "SUBTEST" /\ s = 0) ->
           \E k \in 1..Len(phases) : phases[k].outcome = "FAIL"
      [] OTHER -> Condition(n)

(* evaluate_checkpoint: NoPhasesFoundError, and FAIL_SUBTEST outside a subtest,
   become an exception outcome. *)
EvaluateCheckpoint(n, s) ==
    IF tree[n].when \in {"LAST", "ALL", "SUBTEST"} /\ phases = <<>> THEN "EXC"
    ELSE IF ~CheckForAction(n, s) THEN "CONTINUE"
    ELSE IF tree[n].action = "FAIL_SUBTEST" /\ s = 0 THEN "EXC"
    ELSE tree[n].action

(* _execute_checkpoint, with skip_checkpoint under a failed subtest. *)
ExecuteCheckpoint ==
    /\ Calling("checkpoint")
    /\ IF ~ctl.td /\ IsFail(ctl.sub)
         THEN /\ records' = [records EXCEPT ![ctl.node] = "SKIP"]
              /\ ctl' = Return("CONTINUE")
              /\ UNCHANGED <<subtest, lastOutcome>>
         ELSE LET e == EvaluateCheckpoint(ctl.node, ctl.sub)
              IN  /\ records' = [records EXCEPT ![ctl.node] = e]
                  /\ Apply(e, ctl.sub)
    /\ UNCHANGED <<tree, stack, ends, phases, diag, testOutcome, abortVars>>

-----------------------------------------------------------------------------
(* The end of the test, and the aborts. *)

(* _execute_node of the root has returned. *)
WalkReturns ==
    /\ ctl.op = "return" /\ stack = <<>>
    /\ ctl' = [op |-> "finish"]
    /\ UNCHANGED <<tree, stack, recordVars, abortVars>>

(* TestState.finalize_normally; the diagnosis of this model is not a failure. *)
NormalOutcome ==
    LET outs == {phases[k].outcome : k \in 1..Len(phases)}
    IN  IF phases = <<>> THEN "PASS"
        ELSE IF "FAIL" \in outs THEN "FAIL"
        ELSE IF outs = {"SKIP"} THEN "ERROR"
        ELSE IF \E n \in Nodes : Kind(n) = "subtest" /\ records[n] = "FAIL" THEN "FAIL"
        ELSE "PASS"

(* _execute_test_teardown; finalize_from_phase_outcome for a terminal outcome. *)
FinalizeTest ==
    /\ ctl.op = "finish"
    /\ testOutcome' =
         IF abort THEN "ABORTED"
         ELSE CASE lastOutcome = "EXC" -> "ERROR"
                [] lastOutcome \in {"TIMEOUT", "CANCELLED"} -> "TIMEOUT"
                [] lastOutcome = "STOP" -> "FAIL"
                [] OTHER -> NormalOutcome
    /\ ctl' = [op |-> "done"]
    /\ UNCHANGED <<tree, stack, ends, phases, subtest, records, diag, lastOutcome, abortVars>>

(* TestExecutor.abort: the second one is a full abort. *)
Abort ==
    /\ aborts < MaxAborts /\ ctl.op # "done"
    /\ aborts' = aborts + 1
    /\ abort' = TRUE
    /\ fullAbort' = abort
    /\ UNCHANGED <<walkVars, recordVars>>

Done == ctl.op = "done" /\ UNCHANGED vars

Next ==
    \/ ExecuteSequence \/ ExecuteSubtest \/ ExecutePhaseBranch \/ ExecutePhaseGroup
    \/ AbortableSequence \/ TeardownSequence \/ ReturnToSequence
    \/ GroupSequence \/ ReturnToGroup
    \/ SkipPhase \/ StartPhase \/ FinishPhase \/ ExecuteCheckpoint
    \/ WalkReturns \/ FinalizeTest \/ Abort \/ Done

Spec == Init /\ [][Next]_vars

-----------------------------------------------------------------------------
(* Properties. *)

Ran(n) == ends[n] \notin {"NONE", "SKIPPED"}
(* The phases that are directly in part p of group g. *)
PartPhases(g, p) ==
    IF Kids(g)[p] = 0 THEN {}
    ELSE {n \in Nodes : Kind(n) = "phase" /\ \E k \in 1..Len(Kids(Kids(g)[p])) :
                                               Kids(Kids(g)[p])[k] = n}
Groups == {n \in Nodes : Kind(n) = "group"}

(* _execute_phase_group: "ensuring if the setup phases all run without error that
   the teardown phases will also run, no matter the errors during the main
   phases": a group one of whose main phases has run has all its teardown phases
   run by the end, unless a second Ctrl-C came. *)
TeardownAfterMain ==
    ctl.op = "done" /\ ~fullAbort =>
        \A g \in Groups : (\E n \in PartPhases(g, 2) : Ran(n)) =>
                            \A n \in PartPhases(g, 3) : Ran(n)

(* The converse: a teardown phase runs only when every setup phase of its group
   ended without a terminal result and without failing the subtest. *)
TeardownOnlyIfEntered ==
    \A g \in Groups : (\E n \in PartPhases(g, 3) : Ran(n)) =>
        \A n \in PartPhases(g, 1) : ends[n] \in {"PASS", "FAIL", "SKIP", "DECLINED"}

(* The teardown of a group runs if and only if the group was entered, however it
   nests and whatever failed in it. *)
TeardownIffEntered == TeardownAfterMain /\ TeardownOnlyIfEntered

InTeardownPart == \E k \in 1..Len(stack) : Kind(stack[k].node) = "group" /\ stack[k].i = 3

(* A phase starts, or the walk comes to one, outside every teardown: allowed only
   when there was no terminal outcome, no abort and no failed subtest around it. *)
AfterTerminal == StartPhase /\ lastOutcome # "NONE" => InTeardownPart
AfterAbort ==
    abort /\ ctl.op # "call" /\ ctl'.op = "call" /\ Kind(ctl'.node) = "phase"
      => InTeardownPart'
AfterFailedSubtest ==
    StartPhase /\ ~InTeardownPart =>
      \A k \in 1..Len(stack) : Kind(stack[k].node) = "subtest"
                                 => subtest[stack[k].node] = "PASS"

(* Nothing but the teardowns of entered groups follows a terminal outcome, an abort
   or, inside it and its nested subtests, the failure of a subtest
   (event_sequence.md, "Test error short-circuiting", "Test abortion
   short-circuiting": "No other phases of these kinds are run", and "Subtests"). *)
OnlyTeardowns == [][AfterTerminal /\ AfterAbort /\ AfterFailedSubtest]_vars

(* A subtest recorded as PASS ran: none of its own phases was skipped by the
   framework, ended the test or failed the subtest. *)
SubtestPassIsEarned ==
    \A s \in Nodes : Kind(s) = "subtest" /\ records[s] = "PASS" =>
        \A k \in 1..Len(Kids(s)) : Kind(Kids(s)[k]) = "phase" =>
            ends[Kids(s)[k]] \in {"PASS", "FAIL", "SKIP", "DECLINED"}

(* Node n is b or in it: no kid of an earlier node comes between. *)
Within(b, n) ==
    b <= n /\ \A m \in 1..(b - 1) : \A k \in 1..Len(Kids(m)) : Kids(m)[k] <= b \/ Kids(m)[k] > n

(* finalize_normally: "Vacuously PASS a TestRecord with no phases", which passes over a
   subtest that a checkpoint failed. *)
Vacuous == phases = <<>> /\ \E s \in Nodes : Kind(s) = "subtest" /\ records[s] = "FAIL"

(* A test PASS is earned: no phase failed, was terminal or was skipped by the
   framework, a phase was left out only in a branch that was not taken, no
   subtest failed, and every checkpoint that was reached let the test go on; or it is
   vacuous, and no phase ran. *)
TestPassIsEarned ==
    testOutcome = "PASS" =>
      IF Vacuous THEN \A n \in Nodes : ends[n] \in {"NONE", "DECLINED"}
      ELSE /\ \A n \in Nodes : Kind(n) = "phase" =>
                \/ ends[n] \in {"PASS", "SKIP", "DECLINED"}
                \/ ends[n] = "NONE" /\ \E b \in Nodes : Within(b, n) /\ records[b] = "NOT_TAKEN"
           /\ \A n \in Nodes : Kind(n) \in {"subtest", "checkpoint"}
                                 => records[n] \in {"NONE", "PASS", "CONTINUE"}

(* A PASS, of the test or of a subtest, forgets no failure. *)
PassIsEarned == SubtestPassIsEarned /\ TestPassIsEarned
=============================================================================

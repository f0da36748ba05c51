------------------------- MODULE TestExecutorProofs -------------------------
(***************************************************************************)
(* Proofs about the walk of TestExecutor, for every tree, every end of the *)
(* phases and every order of the aborts: what is run after something went  *)
(* wrong, which teardowns are run, and what a PASS stands for.             *)
(*                                                                         *)
(* The stack is a path in the tree (PathInv, AncestorInv), and what is     *)
(* ahead of it in preorder is untouched (FreshInv): Shape, which is all    *)
(* about the walk and not about the outcomes. The later invariants say     *)
(* what the frames know of terminal outcomes, failed subtests and skipped  *)
(* groups.                                                                 *)
(***************************************************************************)
EXTENDS TestExecutor, TLAPS, WellFoundedInduction

-----------------------------------------------------------------------------
(* Trees. *)

LEMMA LeastOf ==
  ASSUME NEW I \in SUBSET Nat, I # {}
  PROVE  \E i \in I : \A j \in I : i <= j
<1>1. PICK x \in I : \A y \in I : ~(<<y, x>> \in OpToRel(<, Nat))
  BY NatLessThanWellFounded, WFMin
<1>2. \A y \in I : y < x => <<y, x>> \in OpToRel(<, Nat)
  BY DEF OpToRel
<1>3. \A y \in I : ~(y < x)
  BY <1>1, <1>2
<1>4. \A y \in I : x <= y
  BY <1>3
<1>5. QED
  BY <1>4

LEMMA TreeFacts ==
  ASSUME tree \in Trees
  PROVE  /\ Len(tree) \in Nat /\ 1 \in Nodes /\ Kind(1) = "sequence"
         /\ \A n \in Nodes :
              /\ n \in Nat /\ n >= 1 /\ n <= Len(tree)
              /\ Kind(n) \in SequenceKinds \cup {"group", "phase", "checkpoint"}
              /\ Len(Kids(n)) \in Nat
              /\ tree[n].diagnosed \in BOOLEAN
              /\ Kind(n) = "group" => Len(Kids(n)) = 3
              /\ Kind(n) \in {"phase", "checkpoint"} => Len(Kids(n)) = 0
              /\ Kind(n) = "checkpoint" => tree[n].action \in {"STOP", "FAIL_SUBTEST"}
         /\ \A n \in Nodes : \A k \in 1..Len(Kids(n)) :
              /\ Kids(n)[k] \in {0} \cup Nodes
              /\ Kids(n)[k] = 0 => Kind(n) = "group"
              /\ Kids(n)[k] # 0 => Kids(n)[k] > n
              /\ Kind(n) = "group" /\ Kids(n)[k] # 0 => Kind(Kids(n)[k]) = "sequence"
<1>1. IsTree(tree)
  BY ConstantsAssumption
<1>2. /\ tree \in Seq(NodeType(tree)) /\ Len(tree) > 0 /\ tree[1].kind = "sequence"
      /\ \A n \in 1..Len(tree) : IsNode(tree, n)
  BY <1>1 DEF IsTree
<1>3. Len(tree) \in Nat /\ \A n \in Nodes : tree[n] \in NodeType(tree)
  BY <1>2 DEF Nodes
<1>4. \A n \in Nodes : /\ Kids(n) \in Seq(0..Len(tree))
                       /\ Kind(n) \in SequenceKinds \cup {"group", "phase", "checkpoint"}
                       /\ tree[n].diagnosed \in BOOLEAN
                       /\ tree[n].action \in {"STOP", "FAIL_SUBTEST", "-"}
  BY <1>3 DEF NodeType, Kids, Kind
<1>5. \A n \in Nodes : Len(Kids(n)) \in Nat /\ \A k \in 1..Len(Kids(n)) : Kids(n)[k] \in 0..Len(tree)
  BY <1>4
<1>6. 1 \in Nodes /\ Kind(1) = "sequence"
  BY <1>2, <1>3 DEF Nodes, Kind
<1>7. \A n \in Nodes : IsNode(tree, n)
  BY <1>2 DEF Nodes
<1>8. ASSUME NEW n \in Nodes
      PROVE  /\ n \in Nat /\ n >= 1 /\ n <= Len(tree)
             /\ Kind(n) = "group" => Len(Kids(n)) = 3
             /\ Kind(n) \in {"phase", "checkpoint"} => Len(Kids(n)) = 0
             /\ Kind(n) = "checkpoint" => tree[n].action \in {"STOP", "FAIL_SUBTEST"}
             /\ \A k \in 1..Len(Kids(n)) :
                  /\ Kids(n)[k] # 0 => Kids(n)[k] > n
                  /\ Kids(n)[k] = 0 => Kind(n) = "group"
                  /\ Kind(n) = "group" /\ Kids(n)[k] # 0 => Kind(Kids(n)[k]) = "sequence"
  <2>1. n \in Nat /\ n >= 1 /\ n <= Len(tree)
    BY <1>3 DEF Nodes
  <2>2. IsNode(tree, n)
    BY <1>7
  <2>3. /\ \A k \in 1..Len(Kids(n)) : Kids(n)[k] > n \/ (Kids(n)[k] = 0 /\ Kind(n) = "group")
        /\ Kind(n) = "group" => Len(Kids(n)) = 3 /\ \A k \in 1..3 : Kids(n)[k] # 0 => Kind(Kids(n)[k]) = "sequence"
        /\ Kind(n) \in {"phase", "checkpoint"} => Kids(n) = <<>>
        /\ Kind(n) = "checkpoint" => tree[n].action # "-"
    BY <2>2 DEF IsNode, Kids, Kind
  <2>4. Kind(n) \in {"phase", "checkpoint"} => Len(Kids(n)) = 0
    BY <2>3
  <2>5. ASSUME NEW k \in 1..Len(Kids(n))
        PROVE  /\ Kids(n)[k] # 0 => Kids(n)[k] > n
               /\ Kids(n)[k] = 0 => Kind(n) = "group"
               /\ Kind(n) = "group" /\ Kids(n)[k] # 0 => Kind(Kids(n)[k]) = "sequence"
    BY <2>1, <2>3, <2>5
  <2>6. Kind(n) = "checkpoint" => tree[n].action \in {"STOP", "FAIL_SUBTEST"}
    BY <2>3, <1>4
  <2>7. QED
    BY <2>1, <2>3, <2>4, <2>5, <2>6
<1>9. QED
  BY <1>3, <1>4, <1>5, <1>6, <1>8 DEF Nodes

LEMMA TreeOrder ==
  ASSUME tree \in Trees
  PROVE  /\ \A c \in Nodes : c > 1 => \E n \in Nodes : n < c /\ \E k \in 1..Len(Kids(n)) : Kids(n)[k] = c
         /\ \A n \in Nodes : \A k \in 1..Len(Kids(n)) : Kids(n)[k] # 0 =>
              /\ \A j \in 1..(k - 1) : Kids(n)[j] < Kids(n)[k]
              /\ \A m \in Nodes : n < m /\ m < Kids(n)[k] =>
                   \A j \in 1..Len(Kids(m)) : Kids(m)[j] < Kids(n)[k]
<1>1. InOrder(tree)
  BY ConstantsAssumption DEF IsTree
<1>2. Len(tree) \in Nat /\ \A n \in Nodes : n \in Nat /\ n >= 1 /\ n <= Len(tree)
  BY TreeFacts
<1>3. \A c \in Nodes : c > 1 => \E n \in Nodes : n < c /\ \E k \in 1..Len(Kids(n)) : Kids(n)[k] = c
  BY <1>1, <1>2 DEF InOrder, Nodes, Kids
<1>4. ASSUME NEW n \in Nodes, NEW k \in 1..Len(Kids(n)), Kids(n)[k] # 0
      PROVE  /\ \A j \in 1..(k - 1) : Kids(n)[j] < Kids(n)[k]
             /\ \A m \in Nodes : n < m /\ m < Kids(n)[k] =>
                  \A j \in 1..Len(Kids(m)) : Kids(m)[j] < Kids(n)[k]
  <2>1. /\ \A j \in 1..(k - 1) : Kids(n)[j] < Kids(n)[k]
        /\ \A m \in (n + 1)..(Kids(n)[k] - 1) : \A j \in 1..Len(Kids(m)) : Kids(m)[j] < Kids(n)[k]
    BY <1>1, <1>4 DEF InOrder, Nodes, Kids
  <2>2. Kids(n)[k] \in Nat
    BY <1>4, TreeFacts
  <2>3. QED
    BY <2>1, <2>2, <1>2
<1>5. QED
  BY <1>3, <1>4

LEMMA NoCrossing ==
  ASSUME tree \in Trees,
         NEW n \in Nodes, NEW k \in 1..Len(Kids(n)), NEW m \in Nodes, NEW j \in 1..Len(Kids(m)),
         n < m, m < Kids(n)[k]
  PROVE  Kids(m)[j] < Kids(n)[k]
<1>1. Kids(n)[k] # 0
  BY TreeFacts
<1>2. QED
  BY <1>1, TreeOrder

LEMMA SiblingOrder ==
  ASSUME tree \in Trees,
         NEW n \in Nodes, NEW k \in 1..Len(Kids(n)), NEW j \in 1..(k - 1), Kids(n)[k] # 0
  PROVE  Kids(n)[j] < Kids(n)[k]
BY TreeOrder

(* A node is in one collection only, once. *)
LEMMA OneParent ==
  ASSUME tree \in Trees,
         NEW m \in Nodes, NEW n \in Nodes, NEW j \in 1..Len(Kids(m)), NEW k \in 1..Len(Kids(n)),
         Kids(m)[j] = Kids(n)[k], Kids(m)[j] # 0
  PROVE  m = n /\ j = k
<1>1. /\ m \in Nat /\ n \in Nat /\ Kids(m)[j] \in Nat /\ m < Kids(m)[j] /\ n < Kids(m)[j]
      /\ Len(Kids(m)) \in Nat /\ Len(Kids(n)) \in Nat
  BY TreeFacts
<1>2. ~(m < n) /\ ~(n < m)
  BY <1>1, NoCrossing
<1>3. m = n
  BY <1>1, <1>2
<1>4. ~(j < k) /\ ~(k < j)
  BY <1>1, <1>3, TreeOrder
<1>5. QED
  BY <1>1, <1>3, <1>4

LEMMA WithinFacts ==
  ASSUME tree \in Trees
  PROVE  /\ \A n \in Nodes : Within(n, n)
         /\ \A n \in Nodes : \A k \in 1..Len(Kids(n)) : Kids(n)[k] # 0 => Within(n, Kids(n)[k])
         /\ \A a, b, c \in Nodes : Within(a, b) /\ Within(b, c) => Within(a, c)
<1>1. Len(tree) \in Nat /\ \A n \in Nodes : n \in Nat /\ n >= 1 /\ n <= Len(tree)
  BY TreeFacts
<1>2. \A m \in Nodes : \A k \in 1..Len(Kids(m)) : Kids(m)[k] \in Nat
  BY TreeFacts
<1>3. \A n \in Nodes : \A m \in 1..(n - 1) : m \in Nodes /\ m < n
  BY <1>1 DEF Nodes
<1>4. ASSUME NEW n \in Nodes PROVE Within(n, n)
  BY <1>1, <1>2, <1>3 DEF Within
<1>5. ASSUME NEW n \in Nodes, NEW k \in 1..Len(Kids(n)), Kids(n)[k] # 0
      PROVE  Within(n, Kids(n)[k])
  <2>1. Kids(n)[k] \in Nodes /\ n < Kids(n)[k]
    BY <1>5, TreeFacts
  <2>2. ASSUME NEW m \in 1..(n - 1), NEW j \in 1..Len(Kids(m))
        PROVE  Kids(m)[j] <= n \/ Kids(m)[j] > Kids(n)[k]
    <3>1. m \in Nodes /\ m < n /\ Kids(m)[j] \in Nat
      BY <1>2, <1>3, <2>2
    <3>2. n < Kids(m)[j] => Kids(n)[k] < Kids(m)[j]
      BY <3>1, NoCrossing
    <3>3. QED
      BY <3>1, <3>2, <2>1, <1>1
  <2>3. QED
    BY <2>1, <2>2, <1>1 DEF Within
<1>6. ASSUME NEW a \in Nodes, NEW b \in Nodes, NEW c \in Nodes, Within(a, b), Within(b, c)
      PROVE  Within(a, c)
  <2>1. a <= b /\ b <= c
    BY <1>6 DEF Within
  <2>2. ASSUME NEW m \in 1..(a - 1), NEW k \in 1..Len(Kids(m))
        PROVE  Kids(m)[k] <= a \/ Kids(m)[k] > c
    <3>1. m \in 1..(b - 1) /\ m \in Nodes
      BY <2>1, <1>1, <1>3
    <3>2. /\ Kids(m)[k] <= a \/ Kids(m)[k] > b
          /\ Kids(m)[k] <= b \/ Kids(m)[k] > c
      BY <1>6, <3>1 DEF Within
    <3>3. QED
      BY <3>1, <3>2, <2>1, <1>1, <1>2
  <2>3. QED
    BY <2>1, <2>2, <1>1 DEF Within
<1>7. QED
  BY <1>4, <1>5, <1>6

(* What is in a node, and is not that node, is in one of its kids. *)
LEMMA WithinKid ==
  ASSUME tree \in Trees, NEW a \in Nodes, NEW n \in Nodes, Within(a, n), n # a
  PROVE  \E k \in 1..Len(Kids(a)) : Kids(a)[k] # 0 /\ Within(Kids(a)[k], n)
<1>1. Len(tree) \in Nat /\ a \in Nat /\ n \in Nat /\ a >= 1 /\ n <= Len(tree)
  BY TreeFacts
<1>2. a < n
  BY <1>1 DEF Within
<1>3. \A m \in Nodes : \A k \in 1..Len(Kids(m)) : Kids(m)[k] \in Nat
  BY TreeFacts
<1> DEFINE Kid(c) == \E k \in 1..Len(Kids(a)) : Kids(a)[k] = c
           Between(c) == c \in (a + 1)..n /\ Kid(c)
<1>4. Between(a + 1)
  <2>1. a + 1 \in Nodes /\ a + 1 > 1
    BY <1>1, <1>2 DEF Nodes
  <2>2. PICK p \in Nodes : p < a + 1 /\ \E k \in 1..Len(Kids(p)) : Kids(p)[k] = a + 1
    BY <2>1, TreeOrder
  <2>3. PICK k \in 1..Len(Kids(p)) : Kids(p)[k] = a + 1
    BY <2>2
  <2>4. p \in Nat /\ p >= 1
    BY TreeFacts
  <2>5. ~(p < a)
    <3>1. SUFFICES ASSUME p < a PROVE FALSE
      OBVIOUS
    <3>2. p \in 1..(a - 1)
      BY <3>1, <2>4, <1>1
    <3>3. Kids(p)[k] <= a \/ Kids(p)[k] > n
      BY <3>2 DEF Within
    <3>4. QED
      BY <3>3, <2>3, <1>1, <1>2
  <2>6. p = a
    BY <2>2, <2>4, <2>5, <1>1
  <2>7. QED
    BY <2>3, <2>6, <1>1, <1>2
<1>5. \E c \in (a + 1)..n : Kid(c) /\ \A d \in (a + 1)..n : Kid(d) => d <= c
  <2> DEFINE I == {i \in Nat : i <= n - a - 1 /\ Kid(n - i)}
  <2>1. n - a - 1 \in I
    <3>1. n - a - 1 \in Nat /\ n - (n - a - 1) = a + 1
      BY <1>1, <1>2
    <3>2. QED
      BY <3>1, <1>4
  <2>2. PICK i \in I : \A j \in I : i <= j
    BY <2>1, LeastOf
  <2>3. n - i \in (a + 1)..n /\ Kid(n - i)
    BY <2>2, <1>1
  <2>4. ASSUME NEW d \in (a + 1)..n, Kid(d) PROVE d <= n - i
    <3>1. n - d \in Nat /\ n - d <= n - a - 1 /\ n - (n - d) = d
      BY <1>1
    <3>2. n - d \in I
      BY <3>1, <2>4
    <3>3. i <= n - d /\ i \in Nat
      BY <3>2, <2>2
    <3>4. QED
      BY <3>3, <3>1, <1>1
  <2>5. QED
    BY <2>3, <2>4
<1>6. PICK c \in (a + 1)..n : Kid(c) /\ \A d \in (a + 1)..n : Kid(d) => d <= c
  BY <1>5
<1>7. PICK k \in 1..Len(Kids(a)) : Kids(a)[k] = c
  BY <1>6
<1>8. c \in Nat /\ a < c /\ c <= n /\ c \in Nodes
  BY <1>1 DEF Nodes
<1>9. ASSUME NEW m \in 1..(c - 1), NEW j \in 1..Len(Kids(m))
      PROVE  Kids(m)[j] <= c \/ Kids(m)[j] > n
  <2>1. m \in Nodes /\ m \in Nat /\ m < c /\ m >= 1
    BY <1>1, <1>8 DEF Nodes
  <2>2. Kids(m)[j] \in Nat
    BY <2>1, <1>3
  <2>3. CASE m < a
    <3>1. m \in 1..(a - 1)
      BY <2>1, <2>3, <1>1
    <3>2. Kids(m)[j] <= a \/ Kids(m)[j] > n
      BY <3>1 DEF Within
    <3>3. QED
      BY <3>2, <2>2, <1>1, <1>8
  <2>4. CASE m = a
    <3>1. Kid(Kids(m)[j])
      BY <2>4
    <3>2. Kids(m)[j] \in (a + 1)..n => Kids(m)[j] <= c
      BY <3>1, <1>6
    <3>3. QED
      BY <3>2, <2>2, <1>1, <1>8
  <2>5. CASE m > a
    <3>1. Kids(m)[j] < Kids(a)[k]
      BY <2>1, <2>5, <1>7, <1>8, <1>1, NoCrossing
    <3>2. QED
      BY <3>1, <1>7, <2>2, <1>8
  <2>6. QED
    BY <2>1, <2>3, <2>4, <2>5, <1>1
<1>10. Within(Kids(a)[k], n)
  BY <1>7, <1>8, <1>9 DEF Within
<1>11. QED
  BY <1>7, <1>8, <1>10, <1>1

-----------------------------------------------------------------------------
(* The stack and what the executor does next. *)

LEMMA SameTree ==
  ASSUME tree' = tree
  PROVE  /\ Nodes' = Nodes /\ Frame' = Frame /\ Control' = Control
         /\ \A n : Kind(n)' = Kind(n) /\ Kids(n)' = Kids(n)
         /\ \A b, n : Within(b, n)' = Within(b, n)
BY DEF Nodes, Frame, Control, Kind, Kids, Within

LEMMA ControlFacts ==
  ASSUME ctl \in Control
  PROVE  /\ ctl.op \in {"call", "run", "return", "loop", "finish", "done"}
         /\ ctl.op \in {"call", "run"} =>
              /\ ctl.node \in Nodes /\ ctl.sub \in {0} \cup Nodes /\ ctl.td \in BOOLEAN
              /\ ctl = [op |-> ctl.op, node |-> ctl.node, sub |-> ctl.sub, td |-> ctl.td]
         /\ ctl.op = "return" => ctl.ret \in Rets
BY DEF Control

LEMMA StackFacts ==
  ASSUME TypeOK
  PROVE  /\ Len(stack) \in Nat /\ (stack # <<>> <=> Len(stack) > 0)
         /\ \A k \in 1..Len(stack) :
              /\ stack[k] \in Frame /\ stack[k].node \in Nodes /\ stack[k].i \in Nat
              /\ stack[k].i <= Len(Kids(stack[k].node)) /\ stack[k].ret \in Rets
              /\ stack[k].sub \in {0} \cup Nodes /\ stack[k].td \in BOOLEAN /\ stack[k].skip \in BOOLEAN
         /\ Len(stack) > 0 => Len(stack) \in 1..Len(stack)
<1>1. stack \in Seq(Frame) /\ \A k \in 1..Len(stack) : stack[k].i <= Len(Kids(stack[k].node))
  BY DEF TypeOK
<1>2. Len(stack) \in Nat /\ \A k \in 1..Len(stack) : stack[k] \in Frame
  BY <1>1
<1>3. stack # <<>> <=> Len(stack) > 0
  BY <1>1
<1>4. \A f \in Frame : /\ f.node \in Nodes /\ f.i \in Nat /\ f.ret \in Rets /\ f.sub \in {0} \cup Nodes
                       /\ f.td \in BOOLEAN /\ f.skip \in BOOLEAN
  BY DEF Frame
<1>5. QED
  BY <1>1, <1>2, <1>3, <1>4

LEMMA TopFacts ==
  ASSUME TypeOK, Len(stack) > 0
  PROVE  /\ Top = stack[Len(stack)] /\ Top \in Frame /\ Top.node \in Nodes /\ Top.i \in Nat
         /\ Top.i <= Len(Kids(Top.node)) /\ Top.ret \in Rets
         /\ Top.sub \in {0} \cup Nodes /\ Top.td \in BOOLEAN /\ Top.skip \in BOOLEAN
BY StackFacts DEF Top

(* A frame is pushed, popped, or the top one changes. *)
Lower(n) == \A k \in 1..n : stack'[k] = stack[k]

Pushed(s, skip) ==
    /\ Len(stack') = Len(stack) + 1 /\ Lower(Len(stack))
    /\ stack'[Len(stack) + 1] = [node |-> ctl.node, i |-> 0, ret |-> "CONTINUE",
                                 sub |-> s, td |-> ctl.td, skip |-> skip]
    /\ ctl' = Loop

Popped == Len(stack) > 0 /\ Len(stack') = Len(stack) - 1 /\ Lower(Len(stack) - 1)

TopSet(i, ret, skip) ==
    /\ Len(stack) > 0 /\ Len(stack') = Len(stack) /\ Lower(Len(stack) - 1)
    /\ stack'[Len(stack)] = [node |-> Top.node, i |-> i, ret |-> ret,
                             sub |-> Top.sub, td |-> Top.td, skip |-> skip]

LEMMA PushFacts ==
  ASSUME TypeOK, tree' = tree, ctl.op \in {"call", "run"}, NEW s \in {0} \cup Nodes, NEW skip \in BOOLEAN,
         Push(s, skip)
  PROVE  Pushed(s, skip) /\ stack' \in Seq(Frame') /\ ctl' \in Control'
<1>1. ctl.node \in Nodes /\ ctl.td \in BOOLEAN
  BY ControlFacts DEF TypeOK
<1> DEFINE f == [node |-> ctl.node, i |-> 0, ret |-> "CONTINUE", sub |-> s, td |-> ctl.td, skip |-> skip]
<1>2. f \in Frame
  BY <1>1 DEF Frame, Rets
<1>3. stack' = Append(stack, f) /\ ctl' = Loop
  BY DEF Push
<1>4. stack \in Seq(Frame)
  BY DEF TypeOK
<1>5. Len(stack') = Len(stack) + 1 /\ stack' \in Seq(Frame)
      /\ (\A k \in 1..Len(stack) : stack'[k] = stack[k]) /\ stack'[Len(stack) + 1] = f
  <2> HIDE DEF f
  <2>1. QED
    BY <1>2, <1>3, <1>4
<1>6. ctl' \in Control
  BY <1>3 DEF Loop, Control
<1>7. QED
  BY <1>3, <1>5, <1>6, SameTree DEF Pushed, Lower

LEMMA PrefixFacts ==
  ASSUME NEW S, NEW s \in Seq(S), NEW n \in 0..Len(s)
  PROVE  /\ SubSeq(s, 1, n) \in Seq(S) /\ Len(SubSeq(s, 1, n)) = n
         /\ \A k \in 1..n : SubSeq(s, 1, n)[k] = s[k]
OBVIOUS

LEMMA PopFacts ==
  ASSUME TypeOK, tree' = tree, Len(stack) > 0, stack' = Below
  PROVE  Popped /\ stack' \in Seq(Frame')
<1>1. stack \in Seq(Frame) /\ Len(stack) \in Nat
  BY DEF TypeOK
<1>2. Len(stack') = Len(stack) - 1 /\ stack' \in Seq(Frame)
      /\ \A k \in 1..(Len(stack) - 1) : stack'[k] = stack[k]
  <2>1. Len(stack) - 1 \in 0..Len(stack)
    BY <1>1
  <2>2. QED
    BY <1>1, <2>1, PrefixFacts DEF Below
<1>3. QED
  BY <1>2, SameTree DEF Popped, Lower

LEMMA TopSetFacts ==
  ASSUME TypeOK, tree' = tree, Len(stack) > 0
  PROVE  /\ \A i \in Nat : stack' = [stack EXCEPT ![Len(stack)].i = i] =>
              TopSet(i, Top.ret, Top.skip) /\ stack' \in Seq(Frame')
         /\ \A ret \in Rets : stack' = [stack EXCEPT ![Len(stack)].ret = ret] =>
              TopSet(Top.i, ret, Top.skip) /\ stack' \in Seq(Frame')
         /\ \A skip \in BOOLEAN : stack' = [stack EXCEPT ![Len(stack)].skip = skip] =>
              TopSet(Top.i, Top.ret, skip) /\ stack' \in Seq(Frame')
<1>1. stack \in Seq(Frame) /\ Len(stack) \in 1..Len(stack) /\ Len(stack) \in Nat
  BY StackFacts DEF TypeOK
<1>2. Top = stack[Len(stack)] /\ Top \in Frame
  BY TopFacts
<1>3. ASSUME NEW f \in Frame, stack' = [stack EXCEPT ![Len(stack)] = f],
             f.node = Top.node, f.sub = Top.sub, f.td = Top.td
      PROVE  TopSet(f.i, f.ret, f.skip) /\ stack' \in Seq(Frame')
  <2>1. Len(stack') = Len(stack) /\ stack' \in Seq(Frame) /\ stack'[Len(stack)] = f
        /\ \A k \in 1..(Len(stack) - 1) : stack'[k] = stack[k]
    BY <1>1, <1>3
  <2>2. f = [node |-> f.node, i |-> f.i, ret |-> f.ret, sub |-> f.sub, td |-> f.td, skip |-> f.skip]
    BY DEF Frame
  <2>3. QED
    BY <1>3, <2>1, <2>2, SameTree DEF TopSet, Lower
<1>4. ASSUME NEW i \in Nat, stack' = [stack EXCEPT ![Len(stack)].i = i]
      PROVE  TopSet(i, Top.ret, Top.skip) /\ stack' \in Seq(Frame')
  <2> DEFINE f == [Top EXCEPT !.i = i]
  <2>1. f \in Frame /\ f.node = Top.node /\ f.sub = Top.sub /\ f.td = Top.td
        /\ f.i = i /\ f.ret = Top.ret /\ f.skip = Top.skip
    BY <1>2 DEF Frame
  <2>2. stack' = [stack EXCEPT ![Len(stack)] = f]
    BY <1>4, <1>2
  <2> HIDE DEF f
  <2>3. QED
    BY <1>3, <2>1, <2>2
<1>5. ASSUME NEW r \in Rets, stack' = [stack EXCEPT ![Len(stack)].ret = r]
      PROVE  TopSet(Top.i, r, Top.skip) /\ stack' \in Seq(Frame')
  <2> DEFINE f == [Top EXCEPT !.ret = r]
  <2>1. f \in Frame /\ f.node = Top.node /\ f.sub = Top.sub /\ f.td = Top.td
        /\ f.i = Top.i /\ f.ret = r /\ f.skip = Top.skip
    BY <1>2 DEF Frame
  <2>2. stack' = [stack EXCEPT ![Len(stack)] = f]
    BY <1>5, <1>2
  <2> HIDE DEF f
  <2>3. QED
    BY <1>3, <2>1, <2>2
<1>6. ASSUME NEW b \in BOOLEAN, stack' = [stack EXCEPT ![Len(stack)].skip = b]
      PROVE  TopSet(Top.i, Top.ret, b) /\ stack' \in Seq(Frame')
  <2> DEFINE f == [Top EXCEPT !.skip = b]
  <2>1. f \in Frame /\ f.node = Top.node /\ f.sub = Top.sub /\ f.td = Top.td
        /\ f.i = Top.i /\ f.ret = Top.ret /\ f.skip = b
    BY <1>2 DEF Frame
  <2>2. stack' = [stack EXCEPT ![Len(stack)] = f]
    BY <1>6, <1>2
  <2> HIDE DEF f
  <2>3. QED
    BY <1>3, <2>1, <2>2
<1>7. QED
  BY <1>4, <1>5, <1>6

-----------------------------------------------------------------------------
(* The walk: the stack is a path in the tree, and what lies ahead is untouched. *)

(* What a frame hands to the node it calls, and the subtest that node is in. *)
Passed(f) == IF Kind(f.node) = "group" /\ f.i = 3 THEN ~f.skip ELSE f.td
Own(n, s) == IF Kind(n) = "subtest" THEN n ELSE s

(* Each frame is of the kid that the frame below it called, with the subtest and the way of
   running (abortable or teardown) that _execute_node handed it. *)
PathInv ==
    /\ \A k \in 1..Len(stack) : Kind(stack[k].node) \in SequenceKinds \cup {"group"}
    /\ Len(stack) > 0 => stack[1].node = 1 /\ stack[1].sub = 0 /\ ~stack[1].td
    /\ \A k \in 2..Len(stack) :
         /\ stack[k - 1].i >= 1
         /\ Kids(stack[k - 1].node)[stack[k - 1].i] = stack[k].node
         /\ stack[k].sub = Own(stack[k].node, stack[k - 1].sub)
         /\ stack[k].td = Passed(stack[k - 1])

(* The executor is at a node that has not returned; what it does next fits the top frame. *)
Calls == ctl.op \in {"call", "run"}

ControlInv ==
    /\ Calls /\ Len(stack) = 0 => ctl.node = 1 /\ ctl.sub = 0 /\ ~ctl.td
    /\ Calls /\ Len(stack) > 0 => /\ Top.i >= 1 /\ Kids(Top.node)[Top.i] = ctl.node
                                  /\ ctl.sub = Top.sub /\ ctl.td = Passed(Top)
    /\ ctl.op = "run" => Kind(ctl.node) = "phase"
    /\ ctl.op = "return" /\ Len(stack) > 0 => Top.i >= 1
    /\ ctl.op = "loop" => Len(stack) > 0 /\ (Kind(Top.node) = "group" => Top.i < 3)
    /\ ctl.op \in {"finish", "done"} => Len(stack) = 0

(* The frames are of nodes that lie in one another. *)
AncestorInv ==
    \A k \in 1..Len(stack) :
        /\ stack[k].sub <= stack[k].node
        /\ \A j \in 1..(k - 1) :
             /\ stack[j].node < stack[k].node
             /\ Within(Kids(stack[j].node)[stack[j].i], stack[k].node)

(* Nothing is recorded of c, or of any node after it in preorder. *)
Untouched(c) ==
    /\ Len(phases) < c
    /\ \A m \in Nodes : m >= c => ends[m] = "NONE" /\ records[m] = "NONE" /\ subtest[m] = "NONE"

(* The executor comes to each node once, in preorder: what it is called for, and what its
   frames have not come to, is untouched. *)
FreshInv ==
    /\ Calls => Untouched(ctl.node)
    /\ \A k \in 1..Len(stack) : \A j \in (stack[k].i + 1)..Len(Kids(stack[k].node)) :
         Kids(stack[k].node)[j] # 0 => Untouched(Kids(stack[k].node)[j])

(* The moves of the walk, with what they leave alone. *)
SameData == UNCHANGED <<ends, phases, subtest, records>>

EnterMove ==
    /\ ctl.op = "call" /\ Kind(ctl.node) \in SequenceKinds \cup {"group"}
    /\ Pushed(Own(ctl.node, ctl.sub), Kind(ctl.node) = "group" /\ IsFail(ctl.sub))
    /\ UNCHANGED <<ends, phases, records>>
    /\ subtest' = IF Kind(ctl.node) = "subtest"
                    THEN [subtest EXCEPT ![ctl.node] = IF IsFail(ctl.sub) THEN "FAIL" ELSE "PASS"]
                    ELSE subtest

LeafMove ==
    /\ Calls /\ Kind(ctl.node) \in {"phase", "checkpoint", "branch"}
    /\ stack' = stack /\ ctl'.op = "return"
    /\ Len(phases') <= Len(phases) + 1
    /\ \A m \in Nodes : m # ctl.node => ends'[m] = ends[m] /\ records'[m] = records[m]
    /\ subtest' = subtest \/ (ctl.sub # 0 /\ subtest' = [subtest EXCEPT ![ctl.sub] = "FAIL"])

RunMove ==
    /\ ctl.op = "call" /\ Kind(ctl.node) = "phase" /\ (ctl.td \/ ~IsFail(ctl.sub))
    /\ stack' = stack /\ ctl' = [ctl EXCEPT !.op = "run"] /\ SameData

LeaveMove ==
    /\ ctl.op \in {"loop", "return"} /\ Popped /\ ctl'.op = "return"
    /\ UNCHANGED <<ends, phases>>
    /\ \A m \in Nodes : m # Top.node => subtest'[m] = subtest[m] /\ records'[m] = records[m]

StepMove ==
    /\ ctl.op = "loop" /\ TopSet(Top.i + 1, Top.ret, Top.skip) /\ Top.i + 1 <= Len(Kids(Top.node))
    /\ LET c == Kids(Top.node)[Top.i + 1]
       IN  \/ c = 0 /\ ctl' = Return("CONTINUE")
           \/ c # 0 /\ ctl' = Call(c, Top.sub, IF Kind(Top.node) = "group" /\ Top.i + 1 = 3
                                                 THEN ~Top.skip ELSE Top.td)
    /\ SameData

NoteMove ==
    /\ ctl.op = "return" /\ Len(stack) > 0 /\ ctl' = Loop
    /\ \E ret \in Rets, skip \in BOOLEAN : TopSet(Top.i, ret, skip)
    /\ Kind(Top.node) = "group" => Top.i < 3
    /\ SameData

EndMove ==
    /\ stack' = <<>> /\ ctl'.op \in {"finish", "done"}
    /\ Len(phases') <= Len(phases) + 1 /\ (phases' = phases \/ Calls)

StayMove == UNCHANGED <<stack, ctl>> /\ SameData

Moves == \/ EnterMove \/ LeafMove \/ RunMove \/ LeaveMove
         \/ StepMove \/ NoteMove \/ EndMove \/ StayMove

LEMMA FinishSequenceFacts ==
  ASSUME TypeOK, tree' = tree, Len(stack) > 0, NEW r \in Rets, FinishSequence(r)
  PROVE  /\ Popped /\ stack' \in Seq(Frame') /\ ctl' \in Control' /\ ctl' = Return(r)
         /\ \A m \in Nodes : m # Top.node => subtest'[m] = subtest[m] /\ records'[m] = records[m]
         /\ subtest'[Top.node] = IF Kind(Top.node) = "subtest" /\ r = "TERMINAL"
                                   THEN "STOP" ELSE subtest[Top.node]
         /\ records'[Top.node] = CASE Kind(Top.node) = "subtest" -> subtest'[Top.node]
                                   [] Kind(Top.node) = "branch" -> "TAKEN"
                                   [] OTHER -> records[Top.node]
         /\ subtest' \in [Nodes -> SubtestOutcomes]
         /\ records' \in [Nodes -> SubtestOutcomes \cup {"SKIP", "TAKEN", "NOT_TAKEN", "CONTINUE",
                                                          "FAIL_SUBTEST", "EXC"}]
<1>1. Top.node \in Nodes /\ ctl' = Return(r) /\ stack' = Below
  BY TopFacts DEF FinishSequence
<1>2. Popped /\ stack' \in Seq(Frame')
  BY <1>1, PopFacts
<1>3. ctl' \in Control'
  BY <1>1 DEF Return, Control
<1>4. /\ subtest \in [Nodes -> SubtestOutcomes]
      /\ records \in [Nodes -> SubtestOutcomes \cup {"SKIP", "TAKEN", "NOT_TAKEN", "CONTINUE",
                                                          "FAIL_SUBTEST", "EXC"}]
  BY DEF TypeOK
<1>5. /\ subtest' = IF Kind(Top.node) = "subtest" /\ r = "TERMINAL"
                      THEN [subtest EXCEPT ![Top.node] = "STOP"] ELSE subtest
      /\ records' = CASE Kind(Top.node) = "subtest" -> [records EXCEPT ![Top.node] = subtest'[Top.node]]
                      [] Kind(Top.node) = "branch" -> [records EXCEPT ![Top.node] = "TAKEN"]
                      [] OTHER -> records
  BY DEF FinishSequence
<1>6. /\ subtest' \in [Nodes -> SubtestOutcomes]
      /\ \A m \in Nodes : m # Top.node => subtest'[m] = subtest[m]
      /\ subtest'[Top.node] = IF Kind(Top.node) = "subtest" /\ r = "TERMINAL"
                                THEN "STOP" ELSE subtest[Top.node]
  BY <1>1, <1>4, <1>5 DEF SubtestOutcomes
<1>7. subtest'[Top.node] \in SubtestOutcomes
  BY <1>1, <1>6
<1>8. CASE Kind(Top.node) = "subtest"
  BY <1>1, <1>2, <1>3, <1>4, <1>5, <1>6, <1>7, <1>8
<1>9. CASE Kind(Top.node) = "branch"
  BY <1>1, <1>2, <1>3, <1>4, <1>5, <1>6, <1>7, <1>9
<1>10. CASE Kind(Top.node) \notin {"subtest", "branch"}
  BY <1>1, <1>2, <1>3, <1>4, <1>5, <1>6, <1>7, <1>10
<1>11. QED
  BY <1>8, <1>9, <1>10

LEMMA NextNodeFacts ==
  ASSUME TypeOK, tree' = tree, ctl.op = "loop", InSequence, ~AtEnd, NEW td \in BOOLEAN, td = Top.td, NextNode(td)
  PROVE  TopSet(Top.i + 1, Top.ret, Top.skip) /\ Top.i + 1 <= Len(Kids(Top.node))
         /\ Kids(Top.node)[Top.i + 1] # 0
         /\ ctl' = Call(Kids(Top.node)[Top.i + 1], Top.sub, Top.td)
         /\ stack' \in Seq(Frame') /\ ctl' \in Control'
         /\ UNCHANGED <<subtest, records>>
<1>1. Len(stack) > 0 /\ Kind(Top.node) \in SequenceKinds
  BY StackFacts DEF InSequence
<1>2. Top = stack[Len(stack)] /\ Top.node \in Nodes /\ Top.i \in Nat /\ Top.i <= Len(Kids(Top.node))
      /\ Top.sub \in {0} \cup Nodes
  BY <1>1, TopFacts
<1>3. Len(Kids(Top.node)) \in Nat /\ Kind(Top.node) # "group"
  BY <1>1, <1>2, TreeFacts DEF TypeOK, SequenceKinds
<1>4. Top.i + 1 <= Len(Kids(Top.node)) /\ Top.i + 1 \in 1..Len(Kids(Top.node))
  BY <1>2, <1>3 DEF AtEnd
<1>5. Kids(Top.node)[Top.i + 1] # 0 /\ Kids(Top.node)[Top.i + 1] \in Nodes
  BY <1>2, <1>3, <1>4, TreeFacts DEF TypeOK
<1>6. stack' = [stack EXCEPT ![Len(stack)].i = Top.i + 1] /\ Top.i + 1 \in Nat
  BY <1>2 DEF NextNode
<1>7. TopSet(Top.i + 1, Top.ret, Top.skip) /\ stack' \in Seq(Frame')
  BY <1>1, <1>6, TopSetFacts
<1>8. ctl' = Call(Kids(Top.node)[Top.i + 1], Top.sub, Top.td) /\ UNCHANGED <<subtest, records>>
  BY DEF NextNode
<1>9. ctl' \in Control
  BY <1>2, <1>5, <1>8 DEF Control, Call
<1>10. QED
  BY <1>4, <1>5, <1>7, <1>8, <1>9, SameTree

LEMMA Walk ==
  ASSUME TypeOK, ControlInv, [Next]_vars
  PROVE  tree' = tree /\ Moves /\ stack' \in Seq(Frame') /\ ctl' \in Control'
<1> USE DEF recordVars, abortVars, walkVars
<1>a. tree \in Trees /\ stack \in Seq(Frame) /\ ctl \in Control
  BY DEF TypeOK
<1>1. CASE UNCHANGED vars \/ Abort \/ Done
  <2>1. UNCHANGED <<tree, stack, ctl>> /\ SameData
    BY <1>1 DEF vars, Abort, Done, SameData
  <2>2. QED
    BY <2>1, <1>a, SameTree DEF Moves, StayMove
<1>2. CASE ExecuteSequence
  <2>1. tree' = tree /\ UNCHANGED <<ends, phases, records, subtest>> /\ Push(ctl.sub, FALSE)
        /\ ctl.op = "call" /\ Kind(ctl.node) = "sequence"
    BY <1>2 DEF ExecuteSequence, Calling
  <2>2. ctl.sub \in {0} \cup Nodes
    BY <2>1, <1>a, ControlFacts
  <2>3. Pushed(ctl.sub, FALSE) /\ stack' \in Seq(Frame') /\ ctl' \in Control'
    BY <2>1, <2>2, PushFacts
  <2>4. QED
    BY <2>1, <2>3 DEF Moves, EnterMove, Own, SequenceKinds
<1>3. CASE ExecuteSubtest
  <2>1. tree' = tree /\ UNCHANGED <<ends, phases, records>> /\ Push(ctl.node, FALSE)
        /\ ctl.op = "call" /\ Kind(ctl.node) = "subtest"
        /\ subtest' = [subtest EXCEPT ![ctl.node] = IF IsFail(ctl.sub) THEN "FAIL" ELSE "PASS"]
    BY <1>3 DEF ExecuteSubtest, Calling
  <2>2. ctl.node \in {0} \cup Nodes
    BY <2>1, <1>a, ControlFacts
  <2>3. Pushed(ctl.node, FALSE) /\ stack' \in Seq(Frame') /\ ctl' \in Control'
    BY <2>1, <2>2, PushFacts
  <2>4. QED
    BY <2>1, <2>3 DEF Moves, EnterMove, Own, SequenceKinds
<1>4. CASE ExecutePhaseBranch
  <2>1. tree' = tree /\ UNCHANGED <<ends, phases, subtest>> /\ ctl.op = "call" /\ Kind(ctl.node) = "branch"
    BY <1>4 DEF ExecutePhaseBranch, Calling
  <2>2. ctl.sub \in {0} \cup Nodes /\ ctl.node \in Nodes
    BY <2>1, <1>a, ControlFacts
  <2>3. CASE ctl' = Return("CONTINUE") /\ UNCHANGED stack
             /\ (UNCHANGED records \/ records' = [records EXCEPT ![ctl.node] = "NOT_TAKEN"])
    <3>1. ctl'.op = "return" /\ ctl' \in Control'
      BY <2>3 DEF Return, Control, Rets
    <3>2. \A m \in Nodes : m # ctl.node => ends'[m] = ends[m] /\ records'[m] = records[m]
      BY <2>1, <2>3 DEF TypeOK
    <3>3. Len(phases') <= Len(phases) + 1
      BY <2>1 DEF TypeOK
    <3>4. QED
      BY <2>1, <2>3, <3>1, <3>2, <3>3, <1>a, SameTree DEF Moves, LeafMove, Calls
  <2>4. CASE Push(ctl.sub, FALSE) /\ UNCHANGED records
    <3>1. Pushed(ctl.sub, FALSE) /\ stack' \in Seq(Frame') /\ ctl' \in Control'
      BY <2>1, <2>2, <2>4, PushFacts
    <3>2. QED
      BY <2>1, <2>4, <3>1 DEF Moves, EnterMove, Own, SequenceKinds
  <2>5. QED
    BY <1>4, <2>3, <2>4 DEF ExecutePhaseBranch
<1>5. CASE ExecutePhaseGroup
  <2>1. tree' = tree /\ UNCHANGED <<ends, phases, records, subtest>> /\ Push(ctl.sub, IsFail(ctl.sub))
        /\ ctl.op = "call" /\ Kind(ctl.node) = "group"
    BY <1>5 DEF ExecutePhaseGroup, Calling
  <2>2. ctl.sub \in {0} \cup Nodes /\ IsFail(ctl.sub) \in BOOLEAN
    BY <2>1, <1>a, ControlFacts DEF IsFail
  <2>3. Pushed(ctl.sub, IsFail(ctl.sub)) /\ stack' \in Seq(Frame') /\ ctl' \in Control'
    BY <2>1, <2>2, PushFacts
  <2>4. (Kind(ctl.node) = "group" /\ IsFail(ctl.sub)) = IsFail(ctl.sub)
    BY <2>1, <2>2
  <2>5. Own(ctl.node, ctl.sub) = ctl.sub
    BY <2>1 DEF Own
  <2>6. EnterMove
    BY <2>1, <2>3, <2>4, <2>5 DEF EnterMove
  <2>7. QED
    BY <2>1, <2>3, <2>6 DEF Moves
<1>6. CASE AbortableSequence \/ TeardownSequence
  <2>1. tree' = tree /\ UNCHANGED <<ends, phases>> /\ ctl.op = "loop" /\ InSequence
    BY <1>6 DEF AbortableSequence, TeardownSequence
  <2>2. Len(stack) > 0 /\ Kind(Top.node) # "group" /\ Top.td \in BOOLEAN /\ Top.ret \in Rets
    BY <2>1, StackFacts, TopFacts DEF InSequence, SequenceKinds
  <2>3. CASE \E r \in Rets : FinishSequence(r)
    <3>1. PICK r \in Rets : FinishSequence(r)
      BY <2>3
    <3>2. Popped /\ stack' \in Seq(Frame') /\ ctl' \in Control' /\ ctl' = Return(r)
          /\ \A m \in Nodes : m # Top.node => subtest'[m] = subtest[m] /\ records'[m] = records[m]
      BY <3>1, <2>1, <2>2, FinishSequenceFacts
    <3>3. QED
      BY <2>1, <3>2 DEF Moves, LeaveMove, Return
  <2>4. CASE ~AtEnd /\ NextNode(Top.td)
    <3>1. TopSet(Top.i + 1, Top.ret, Top.skip) /\ Top.i + 1 <= Len(Kids(Top.node))
          /\ Kids(Top.node)[Top.i + 1] # 0
          /\ ctl' = Call(Kids(Top.node)[Top.i + 1], Top.sub, Top.td)
          /\ stack' \in Seq(Frame') /\ ctl' \in Control'
          /\ UNCHANGED <<subtest, records>>
      BY <2>1, <2>2, <2>4, NextNodeFacts
    <3>2. QED
      BY <2>1, <2>2, <3>1 DEF Moves, StepMove, SameData
  <2>5. (\E r \in Rets : FinishSequence(r)) \/ (~AtEnd /\ NextNode(Top.td))
    <3>1. CASE AbortableSequence
      <4>1. Top.td = FALSE
        BY <3>1, <2>2 DEF AbortableSequence
      <4>2. QED
        BY <3>1, <4>1 DEF AbortableSequence, Rets
    <3>2. CASE TeardownSequence
      <4>1. Top.td = TRUE
        BY <3>2, <2>2 DEF TeardownSequence
      <4>2. QED
        BY <3>2, <4>1, <2>2 DEF TeardownSequence, Rets
    <3>3. QED
      BY <1>6, <3>1, <3>2
  <2>6. QED
    BY <2>3, <2>4, <2>5
<1>7. CASE ReturnToSequence
  <2>1. tree' = tree /\ UNCHANGED <<ends, phases>> /\ ctl.op = "return" /\ InSequence
    BY <1>7 DEF ReturnToSequence
  <2>2. Len(stack) > 0 /\ Kind(Top.node) # "group" /\ Top.ret \in Rets /\ ctl.ret \in Rets
        /\ Top = stack[Len(stack)]
    BY <2>1, <1>a, StackFacts, TopFacts, ControlFacts DEF InSequence, SequenceKinds
  <2>3. CASE FinishSequence("TERMINAL")
    <3>1. Popped /\ stack' \in Seq(Frame') /\ ctl' \in Control' /\ ctl' = Return("TERMINAL")
          /\ \A m \in Nodes : m # Top.node => subtest'[m] = subtest[m] /\ records'[m] = records[m]
      BY <2>3, <2>1, <2>2, FinishSequenceFacts DEF Rets
    <3>2. QED
      BY <2>1, <3>1 DEF Moves, LeaveMove, Return
  <2>4. CASE /\ stack' = [stack EXCEPT ![Len(stack)].ret = MoreCritical(@, ctl.ret)]
             /\ ctl' = Loop /\ UNCHANGED <<subtest, records>>
    <3>1. MoreCritical(Top.ret, ctl.ret) \in Rets
      BY DEF MoreCritical, Rets
    <3>2. stack' = [stack EXCEPT ![Len(stack)].ret = MoreCritical(Top.ret, ctl.ret)]
      BY <2>4, <2>2
    <3>3. TopSet(Top.i, MoreCritical(Top.ret, ctl.ret), Top.skip) /\ stack' \in Seq(Frame')
      BY <3>1, <3>2, <2>1, <2>2, TopSetFacts
    <3>4. ctl' \in Control'
      BY <2>4 DEF Loop, Control
    <3>5. Top.skip \in BOOLEAN
      BY <2>2, TopFacts
    <3>6. QED
      BY <2>1, <2>2, <2>4, <3>1, <3>3, <3>4, <3>5 DEF Moves, NoteMove, SameData
  <2>5. QED
    BY <1>7, <2>3, <2>4 DEF ReturnToSequence
<1>8. CASE GroupSequence
  <2>1. tree' = tree /\ SameData /\ ctl.op = "loop" /\ InGroup
    BY <1>8 DEF GroupSequence, SameData
  <2>2. Len(stack) > 0 /\ Kind(Top.node) = "group" /\ Top = stack[Len(stack)] /\ Top.node \in Nodes
        /\ Top.i \in Nat /\ Top.sub \in {0} \cup Nodes /\ Top.td \in BOOLEAN /\ Top.skip \in BOOLEAN
    BY <2>1, StackFacts, TopFacts DEF InGroup
  <2>3. Top.i < 3 /\ Len(Kids(Top.node)) = 3
    BY <2>1, <2>2, <1>a, TreeFacts DEF ControlInv
  <2> DEFINE part == Top.i + 1
             n == Kids(Top.node)[part]
  <2>4. part \in Nat /\ part \in 1..3 /\ n \in {0} \cup Nodes
    <3>1. part \in Nat /\ part \in 1..3 /\ part \in 1..Len(Kids(Top.node))
      BY <2>2, <2>3
    <3>2. QED
      BY <3>1, <2>2, <1>a, TreeFacts
  <2>5. /\ stack' = [stack EXCEPT ![Len(stack)].i = part]
        /\ ctl' = IF n = 0 THEN Return("CONTINUE")
                  ELSE Call(n, Top.sub, IF part = 3 THEN ~Top.skip ELSE Top.td)
    BY <1>8 DEF GroupSequence
  <2>6. TopSet(part, Top.ret, Top.skip) /\ stack' \in Seq(Frame')
    BY <2>1, <2>2, <2>4, <2>5, TopSetFacts
  <2>7. ctl' \in Control
    <3>1. CASE n = 0
      BY <3>1, <2>5 DEF Control, Return, Rets
    <3>2. CASE n # 0
      BY <3>2, <2>2, <2>4, <2>5 DEF Control, Call
    <3>3. QED
      BY <3>1, <3>2
  <2>8. StepMove
    BY <2>1, <2>2, <2>3, <2>4, <2>5, <2>6 DEF StepMove
  <2>9. QED
    BY <2>1, <2>6, <2>7, <2>8, SameTree DEF Moves
<1>9. CASE ReturnToGroup
  <2>1. tree' = tree /\ SameData /\ ctl.op = "return" /\ InGroup
    BY <1>9 DEF ReturnToGroup, SameData
  <2>2. Len(stack) > 0 /\ Kind(Top.node) = "group" /\ Top = stack[Len(stack)] /\ ctl.ret \in Rets
        /\ Top.ret \in Rets /\ Top.skip \in BOOLEAN /\ Top.node \in Nodes
    BY <2>1, <1>a, StackFacts, TopFacts, ControlFacts DEF InGroup
  <2>3. CASE /\ stack' = Below /\ ctl'.op = "return" /\ ctl' \in Control
    <3>1. Popped /\ stack' \in Seq(Frame')
      BY <2>1, <2>2, <2>3, PopFacts
    <3>2. QED
      BY <2>1, <2>3, <3>1, SameTree DEF Moves, LeaveMove, SameData
  <2>4. CASE Top.i < 3 /\ ctl' = Loop /\ \E ret \in Rets, skip \in BOOLEAN :
               TopSet(Top.i, ret, skip) /\ stack' \in Seq(Frame')
    <3>1. ctl' \in Control
      BY <2>4 DEF Loop, Control
    <3>2. QED
      BY <2>1, <2>2, <2>4, <3>1, SameTree DEF Moves, NoteMove
  <2>5. CASE Top.i = 1 /\ ctl.ret = "TERMINAL" /\ stack' = Below /\ UNCHANGED ctl
    BY <2>3, <2>5, <2>1, <1>a
  <2>6. CASE /\ Top.i = 1 /\ ctl' = Loop
             /\ stack' = [stack EXCEPT ![Len(stack)].skip = @ \/ IsFail(Top.sub)]
    <3> DEFINE b == Top.skip \/ IsFail(Top.sub)
    <3>1. b \in BOOLEAN
      BY <2>2 DEF IsFail
    <3>2. stack' = [stack EXCEPT ![Len(stack)].skip = b]
      BY <2>2, <2>6
    <3> HIDE DEF b
    <3>3. TopSet(Top.i, Top.ret, b) /\ stack' \in Seq(Frame')
      BY <3>1, <3>2, <2>1, <2>2, TopSetFacts
    <3>4. QED
      BY <3>1, <3>3, <2>2, <2>4, <2>6
  <2>7. CASE Top.i = 2 /\ ctl' = Loop /\ stack' = [stack EXCEPT ![Len(stack)].ret = ctl.ret]
    <3>1. TopSet(Top.i, ctl.ret, Top.skip) /\ stack' \in Seq(Frame')
      BY <2>1, <2>2, <2>7, TopSetFacts
    <3>2. QED
      BY <3>1, <2>2, <2>4, <2>7
  <2>8. CASE Top.i = 3 /\ stack' = Below /\ ctl' = Return(MoreCritical(Top.ret, ctl.ret))
    <3>1. ctl'.op = "return" /\ ctl' \in Control
      BY <2>8 DEF Return, MoreCritical, Control, Rets
    <3>2. QED
      BY <3>1, <2>3, <2>8
  <2>9. QED
    BY <1>9, <2>5, <2>6, <2>7, <2>8 DEF ReturnToGroup
<1>10. CASE SkipPhase
  <2>1. tree' = tree /\ UNCHANGED <<stack, subtest, records>> /\ ctl.op = "call" /\ Kind(ctl.node) = "phase"
        /\ ends' = [ends EXCEPT ![ctl.node] = "SKIPPED"] /\ ctl' = Return("CONTINUE")
        /\ phases' = Append(phases, [sub |-> ctl.sub, outcome |-> Recorded.SKIPPED])
    BY <1>10 DEF SkipPhase, Calling
  <2>2. Len(phases') <= Len(phases) + 1
    BY <2>1 DEF TypeOK
  <2>3. ctl' \in Control' /\ ctl'.op = "return"
    BY <2>1 DEF Return, Control, Rets
  <2>4. \A m \in Nodes : m # ctl.node => ends'[m] = ends[m] /\ records'[m] = records[m]
    BY <2>1 DEF TypeOK
  <2>5. QED
    BY <2>1, <2>2, <2>3, <2>4, <1>a, SameTree DEF Moves, LeafMove, Calls
<1>11. CASE StartPhase
  <2>1. tree' = tree /\ UNCHANGED stack /\ SameData /\ ctl.op = "call" /\ Kind(ctl.node) = "phase"
        /\ (ctl.td \/ ~IsFail(ctl.sub)) /\ ctl' = [ctl EXCEPT !.op = "run"]
    BY <1>11 DEF StartPhase, Calling, SameData
  <2>2. ctl' \in Control
    BY <2>1, <1>a, ControlFacts DEF Control
  <2>3. QED
    BY <2>1, <2>2, <1>a, SameTree DEF Moves, RunMove
<1>12. CASE FinishPhase
  <2>1. tree' = tree /\ UNCHANGED records /\ ctl.op = "run"
    BY <1>12 DEF FinishPhase
  <2>2. PICK e \in Ends(ctl.sub) :
         LET recs == IF e \in DOMAIN Recorded
                       THEN Append(phases, [sub |-> ctl.sub, outcome |-> Recorded[e]])
                       ELSE phases
         IN  /\ phases' = recs
             /\ ends' = [ends EXCEPT ![ctl.node] = e]
             /\ IF StopOnFirstFailure /\ recs = <<>>
                  THEN /\ ctl' = [op |-> "finish"]
                       /\ stack' = <<>>
                       /\ UNCHANGED <<subtest, lastOutcome>>
                  ELSE /\ Apply(WithFirstFailure(e, recs), ctl.sub)
                       /\ UNCHANGED stack
    BY <1>12 DEF FinishPhase
  <2>3. Kind(ctl.node) = "phase" /\ ctl.node \in Nodes
    BY <2>1, <1>a, ControlFacts DEF ControlInv
  <2>4. Len(phases') <= Len(phases) + 1
    BY <2>2 DEF TypeOK
  <2>5. \A m \in Nodes : m # ctl.node => ends'[m] = ends[m] /\ records'[m] = records[m]
    BY <2>1, <2>2 DEF TypeOK
  <2>6. CASE ctl' = [op |-> "finish"] /\ stack' = <<>>
    <3>1. ctl' \in Control' /\ stack' \in Seq(Frame')
      BY <2>6 DEF Control
    <3>2. QED
      BY <3>1, <2>1, <2>4, <2>6 DEF Moves, EndMove, Calls
  <2>7. CASE UNCHANGED stack /\ \E x : Apply(x, ctl.sub) /\ (x = "FAIL_SUBTEST" => ctl.sub # 0)
    <3>1. PICK x : Apply(x, ctl.sub) /\ (x = "FAIL_SUBTEST" => ctl.sub # 0)
      BY <2>7
    <3>2. ctl'.op = "return" /\ ctl' \in Control'
      BY <3>1 DEF Apply, Return, Control, Rets
    <3>3. subtest' = subtest \/ (ctl.sub # 0 /\ subtest' = [subtest EXCEPT ![ctl.sub] = "FAIL"])
      BY <3>1 DEF Apply
    <3>4. QED
      BY <3>2, <3>3, <2>1, <2>3, <2>4, <2>5, <2>7, <1>a, SameTree DEF Moves, LeafMove, Calls
  <2>8. e = "FAIL_SUBTEST" => ctl.sub # 0
    BY DEF Ends
  <2>9. \A recs : WithFirstFailure(e, recs) = "FAIL_SUBTEST" => ctl.sub # 0
    BY <2>8 DEF WithFirstFailure
  <2>10. QED
    BY <2>2, <2>6, <2>7, <2>9
<1>13. CASE ExecuteCheckpoint
  <2>1. tree' = tree /\ UNCHANGED <<stack, ends, phases>> /\ ctl.op = "call" /\ Kind(ctl.node) = "checkpoint"
    BY <1>13 DEF ExecuteCheckpoint, Calling
  <2>2. PICK r : records' = [records EXCEPT ![ctl.node] = r]
    BY <1>13 DEF ExecuteCheckpoint
  <2>3. \A m \in Nodes : m # ctl.node => ends'[m] = ends[m] /\ records'[m] = records[m]
    BY <2>1, <2>2 DEF TypeOK
  <2>4. Len(phases') <= Len(phases) + 1
    BY <2>1 DEF TypeOK
  <2>5. \/ ctl' = Return("CONTINUE") /\ UNCHANGED subtest
        \/ Apply(EvaluateCheckpoint(ctl.node, ctl.sub), ctl.sub)
    BY <1>13 DEF ExecuteCheckpoint
  <2>6. ctl'.op = "return" /\ ctl' \in Control'
    BY <2>5 DEF Apply, Return, Control, Rets
  <2>7. EvaluateCheckpoint(ctl.node, ctl.sub) = "FAIL_SUBTEST" => ctl.sub # 0
    BY DEF EvaluateCheckpoint
  <2>8. subtest' = subtest \/ (ctl.sub # 0 /\ subtest' = [subtest EXCEPT ![ctl.sub] = "FAIL"])
    BY <2>5, <2>7 DEF Apply
  <2>9. QED
    BY <2>1, <2>3, <2>4, <2>6, <2>8, <1>a, SameTree DEF Moves, LeafMove, Calls
<1>14. CASE WalkReturns \/ FinalizeTest
  <2>1. tree' = tree /\ UNCHANGED <<stack, phases>> /\ ctl'.op \in {"finish", "done"} /\ ctl' \in Control'
    BY <1>14 DEF WalkReturns, FinalizeTest, Control
  <2>2. stack = <<>>
    <3>1. WalkReturns => stack = <<>>
      BY DEF WalkReturns
    <3>2. FinalizeTest => Len(stack) = 0
      BY DEF FinalizeTest, ControlInv
    <3>3. QED
      BY <1>14, <3>1, <3>2, StackFacts
  <2>3. Len(phases') <= Len(phases) + 1
    BY <2>1 DEF TypeOK
  <2>4. QED
    BY <2>1, <2>2, <2>3, <1>a, SameTree DEF Moves, EndMove
<1>15. QED
  BY <1>1, <1>2, <1>3, <1>4, <1>5, <1>6, <1>7, <1>8, <1>9, <1>10, <1>11, <1>12, <1>13, <1>14 DEF Next

(* The invariants of the next state, said of the tree, which does not change. *)
UntouchedNext(c) ==
    /\ Len(phases') < c
    /\ \A m \in Nodes : m >= c => ends'[m] = "NONE" /\ records'[m] = "NONE" /\ subtest'[m] = "NONE"

LEMMA PathPrime ==
  ASSUME tree' = tree,
         \A k \in 1..Len(stack') : Kind(stack'[k].node) \in SequenceKinds \cup {"group"},
         Len(stack') > 0 => stack'[1].node = 1 /\ stack'[1].sub = 0 /\ ~stack'[1].td,
         \A k \in 2..Len(stack') :
           /\ stack'[k - 1].i >= 1
           /\ Kids(stack'[k - 1].node)[stack'[k - 1].i] = stack'[k].node
           /\ stack'[k].sub = Own(stack'[k].node, stack'[k - 1].sub)
           /\ stack'[k].td = Passed(stack'[k - 1])
  PROVE  PathInv'
BY DEF PathInv, Kind, Kids, Own, Passed

LEMMA AncestorPrime ==
  ASSUME tree' = tree,
         \A k \in 1..Len(stack') :
           /\ stack'[k].sub <= stack'[k].node
           /\ \A j \in 1..(k - 1) :
                /\ stack'[j].node < stack'[k].node
                /\ Within(Kids(stack'[j].node)[stack'[j].i], stack'[k].node)
  PROVE  AncestorInv'
BY DEF AncestorInv, Within, Kids

LEMMA FreshPrime ==
  ASSUME tree' = tree,
         ctl'.op \in {"call", "run"} => UntouchedNext(ctl'.node),
         \A k \in 1..Len(stack') : \A j \in (stack'[k].i + 1)..Len(Kids(stack'[k].node)) :
           Kids(stack'[k].node)[j] # 0 => UntouchedNext(Kids(stack'[k].node)[j])
  PROVE  FreshInv'
BY DEF FreshInv, UntouchedNext, Untouched, Kids, Nodes, Calls

LEMMA ControlPrime ==
  ASSUME tree' = tree,
         ctl'.op \in {"call", "run"} /\ Len(stack') = 0 => ctl'.node = 1 /\ ctl'.sub = 0 /\ ~ctl'.td,
         ctl'.op \in {"call", "run"} /\ Len(stack') > 0 =>
           LET f == stack'[Len(stack')]
           IN  f.i >= 1 /\ Kids(f.node)[f.i] = ctl'.node /\ ctl'.sub = f.sub /\ ctl'.td = Passed(f),
         ctl'.op = "run" => Kind(ctl'.node) = "phase",
         ctl'.op = "return" /\ Len(stack') > 0 => stack'[Len(stack')].i >= 1,
         ctl'.op = "loop" =>
           Len(stack') > 0 /\ (Kind(stack'[Len(stack')].node) = "group" => stack'[Len(stack')].i < 3),
         ctl'.op \in {"finish", "done"} => Len(stack') = 0
  PROVE  ControlInv'
BY DEF ControlInv, Top, Calls, Kind, Kids, Passed

LEMMA PathStep ==
  ASSUME TypeOK, PathInv, ControlInv, tree' = tree, Moves
  PROVE  PathInv'
<1>1. Len(stack) \in Nat
  BY StackFacts
<1>2. CASE EnterMove
  <2>1. Pushed(Own(ctl.node, ctl.sub), Kind(ctl.node) = "group" /\ IsFail(ctl.sub)) /\ Calls
        /\ Kind(ctl.node) \in SequenceKinds \cup {"group"}
    BY <1>2 DEF EnterMove, Calls
  <2>2. /\ Len(stack') = Len(stack) + 1 /\ \A k \in 1..Len(stack) : stack'[k] = stack[k]
        /\ stack'[Len(stack) + 1].node = ctl.node /\ stack'[Len(stack) + 1].td = ctl.td
        /\ stack'[Len(stack) + 1].sub = Own(ctl.node, ctl.sub)
    BY <2>1 DEF Pushed, Lower
  <2>3. \A k \in 1..Len(stack') : Kind(stack'[k].node) \in SequenceKinds \cup {"group"}
    BY <1>1, <2>1, <2>2 DEF PathInv
  <2>4. stack'[1].node = 1 /\ stack'[1].sub = 0 /\ ~stack'[1].td
    <3>1. CASE Len(stack) = 0
      BY <3>1, <2>1, <2>2, TreeFacts DEF ControlInv, Own, TypeOK
    <3>2. CASE Len(stack) > 0
      BY <3>2, <1>1, <2>2 DEF PathInv
    <3>3. QED
      BY <3>1, <3>2, <1>1
  <2>5. ASSUME NEW k \in 2..Len(stack')
        PROVE  /\ stack'[k - 1].i >= 1
               /\ Kids(stack'[k - 1].node)[stack'[k - 1].i] = stack'[k].node
               /\ stack'[k].sub = Own(stack'[k].node, stack'[k - 1].sub)
               /\ stack'[k].td = Passed(stack'[k - 1])
    <3>1. CASE k = Len(stack) + 1
      <4>1. Len(stack) > 0 /\ k - 1 = Len(stack) /\ stack'[k - 1] = Top
        BY <3>1, <1>1, <2>2 DEF Top
      <4>2. QED
        BY <4>1, <3>1, <2>1, <2>2 DEF ControlInv
    <3>2. CASE k # Len(stack) + 1
      <4>1. k \in 2..Len(stack) /\ stack'[k] = stack[k] /\ stack'[k - 1] = stack[k - 1]
        BY <3>2, <1>1, <2>2
      <4>2. QED
        BY <4>1 DEF PathInv
    <3>3. QED
      BY <3>1, <3>2
  <2>6. QED
    BY <2>3, <2>4, <2>5, PathPrime
<1>3. CASE LeafMove \/ RunMove \/ StayMove
  <2>1. stack' = stack
    BY <1>3 DEF LeafMove, RunMove, StayMove
  <2>2. QED
    BY <2>1 DEF PathInv, Kind, Kids, Own, Passed
<1>4. CASE EndMove
  <2>1. stack' = <<>> /\ Len(stack') = 0
    BY <1>4 DEF EndMove
  <2>2. QED
    BY <2>1, PathPrime
<1>5. CASE LeaveMove
  <2>1. Len(stack') = Len(stack) - 1 /\ \A k \in 1..Len(stack') : stack'[k] = stack[k]
    BY <1>5 DEF LeaveMove, Popped, Lower
  <2>2. ASSUME NEW k \in 2..Len(stack')
        PROVE  k \in 2..Len(stack) /\ stack'[k] = stack[k] /\ stack'[k - 1] = stack[k - 1]
    BY <1>1, <2>1
  <2>3. \A k \in 1..Len(stack') : k \in 1..Len(stack) /\ stack'[k] = stack[k]
    BY <1>1, <2>1
  <2>4. Len(stack') > 0 => Len(stack) > 0 /\ stack'[1] = stack[1]
    BY <1>1, <2>1
  <2>5. QED
    BY <2>2, <2>3, <2>4, PathPrime DEF PathInv
<1>6. CASE StepMove \/ NoteMove
  <2>1. \E i, ret, skip : TopSet(i, ret, skip)
    BY <1>6 DEF StepMove, NoteMove
  <2>2. /\ Len(stack') = Len(stack) /\ Len(stack) > 0 /\ Top = stack[Len(stack)]
        /\ \A k \in 1..(Len(stack) - 1) : stack'[k] = stack[k]
        /\ stack'[Len(stack)].node = Top.node /\ stack'[Len(stack)].sub = Top.sub
        /\ stack'[Len(stack)].td = Top.td
    BY <2>1 DEF TopSet, Lower, Top
  <2>3. \A k \in 1..Len(stack) : stack'[k].node = stack[k].node /\ stack'[k].sub = stack[k].sub
                                 /\ stack'[k].td = stack[k].td
    BY <1>1, <2>2
  <2>4. QED
    BY <1>1, <2>2, <2>3, PathPrime DEF PathInv
<1>7. QED
  BY <1>2, <1>3, <1>4, <1>5, <1>6 DEF Moves

LEMMA ControlStep ==
  ASSUME TypeOK, PathInv, ControlInv, tree' = tree, Moves
  PROVE  ControlInv'
<1>1. Len(stack) \in Nat
  BY StackFacts
<1>2. CASE EnterMove
  <2>1. Len(stack') = Len(stack) + 1 /\ ctl'.op = "loop" /\ stack'[Len(stack')].i = 0
    BY <1>2 DEF EnterMove, Pushed, Loop
  <2>2. QED
    BY <1>1, <2>1, ControlPrime
<1>3. CASE LeafMove
  <2>1. stack' = stack /\ ctl'.op = "return" /\ Calls
    BY <1>3 DEF LeafMove
  <2>2. QED
    BY <2>1, ControlPrime DEF ControlInv, Top
<1>4. CASE RunMove
  <2>1. stack' = stack /\ ctl.op = "call" /\ Kind(ctl.node) = "phase" /\ ctl' = [ctl EXCEPT !.op = "run"]
        /\ ctl = [op |-> ctl.op, node |-> ctl.node, sub |-> ctl.sub, td |-> ctl.td]
    BY <1>4, ControlFacts DEF RunMove, TypeOK
  <2>2. ctl' = [op |-> "run", node |-> ctl.node, sub |-> ctl.sub, td |-> ctl.td]
    BY <2>1
  <2>3. ctl'.op = "run" /\ ctl'.node = ctl.node /\ ctl'.sub = ctl.sub /\ ctl'.td = ctl.td /\ Calls
    BY <2>1, <2>2 DEF Calls
  <2>4. QED
    BY <2>1, <2>3, ControlPrime DEF ControlInv, Top
<1>5. CASE LeaveMove
  <2>1. /\ Len(stack') = Len(stack) - 1 /\ \A k \in 1..Len(stack') : stack'[k] = stack[k]
        /\ ctl'.op = "return"
    BY <1>5 DEF LeaveMove, Popped, Lower
  <2>2. Len(stack') > 0 => stack'[Len(stack')].i >= 1
    <3>1. SUFFICES ASSUME Len(stack') > 0 PROVE stack'[Len(stack')].i >= 1
      OBVIOUS
    <3>2. Len(stack) \in 2..Len(stack) /\ stack'[Len(stack')] = stack[Len(stack) - 1]
      BY <3>1, <2>1, <1>1
    <3>3. QED
      BY <3>2 DEF PathInv
  <2>3. QED
    BY <2>1, <2>2, ControlPrime
<1>6. CASE StepMove
  <2> DEFINE c == Kids(Top.node)[Top.i + 1]
             td == IF Kind(Top.node) = "group" /\ Top.i + 1 = 3 THEN ~Top.skip ELSE Top.td
             f == stack'[Len(stack')]
  <2>1. /\ Len(stack) > 0 /\ Len(stack') = Len(stack)
        /\ f = [node |-> Top.node, i |-> Top.i + 1, ret |-> Top.ret,
                sub |-> Top.sub, td |-> Top.td, skip |-> Top.skip]
        /\ ctl' = Return("CONTINUE") \/ ctl' = Call(c, Top.sub, td)
    BY <1>6 DEF StepMove, TopSet
  <2>2. f.i = Top.i + 1 /\ f.node = Top.node /\ f.sub = Top.sub /\ f.td = Top.td /\ f.skip = Top.skip
    BY <2>1
  <2>3. f.i >= 1
    BY <2>1, <2>2, TopFacts
  <2>4. td = Passed(f)
    BY <2>2 DEF Passed
  <2> HIDE DEF f, td
  <2>5. CASE ctl' = Return("CONTINUE")
    <3>1. ctl'.op = "return"
      BY <2>5 DEF Return
    <3>2. QED
      BY <3>1, <2>3, ControlPrime DEF f
  <2>6. CASE ctl' = Call(c, Top.sub, td)
    <3>1. ctl'.op = "call" /\ ctl'.node = c /\ ctl'.sub = Top.sub /\ ctl'.td = td
      BY <2>6 DEF Call
    <3>2. f.i >= 1 /\ Kids(f.node)[f.i] = ctl'.node /\ ctl'.sub = f.sub /\ ctl'.td = Passed(f)
      BY <3>1, <2>2, <2>3, <2>4
    <3>3. QED
      BY <3>1, <3>2, <2>1, ControlPrime DEF f
  <2>7. QED
    BY <2>1, <2>5, <2>6
<1>7. CASE NoteMove
  <2>1. PICK ret \in Rets, skip \in BOOLEAN : TopSet(Top.i, ret, skip)
    BY <1>7 DEF NoteMove
  <2>2. Len(stack) > 0 /\ Len(stack') = Len(stack)
        /\ stack'[Len(stack)] = [node |-> Top.node, i |-> Top.i, ret |-> ret,
                                 sub |-> Top.sub, td |-> Top.td, skip |-> skip]
    BY <2>1 DEF TopSet
  <2>3. ctl'.op = "loop" /\ stack'[Len(stack')].node = Top.node /\ stack'[Len(stack')].i = Top.i
        /\ (Kind(Top.node) = "group" => Top.i < 3)
    BY <1>7, <2>2 DEF NoteMove, Loop
  <2>4. QED
    BY <2>2, <2>3, ControlPrime
<1>8. CASE EndMove
  <2>1. Len(stack') = 0 /\ ctl'.op \in {"finish", "done"}
    BY <1>8 DEF EndMove
  <2>2. QED
    BY <2>1, ControlPrime
<1>9. CASE StayMove
  BY <1>9 DEF StayMove, ControlInv, Top, Calls, Kind, Kids, Passed
<1>10. QED
  BY <1>2, <1>3, <1>4, <1>5, <1>6, <1>7, <1>8, <1>9 DEF Moves

LEMMA Past ==
  ASSUME tree \in Trees, NEW n \in Nodes, NEW j \in 1..Len(Kids(n)), NEW i \in 1..(j - 1),
         Kids(n)[i] # 0, Kids(n)[j] # 0, NEW x \in Nodes, Within(Kids(n)[i], x)
  PROVE  x < Kids(n)[j]
<1>1. Len(Kids(n)) \in Nat /\ n \in Nat /\ n >= 1 /\ x \in Nat
  BY TreeFacts
<1>2. i \in 1..Len(Kids(n)) /\ j \in 1..Len(Kids(n))
  BY <1>1
<1>3. Kids(n)[i] \in Nat /\ Kids(n)[j] \in Nat /\ n < Kids(n)[i]
  BY <1>2, TreeFacts DEF Nodes
<1>4. Kids(n)[i] < Kids(n)[j]
  BY SiblingOrder
<1>5. n \in 1..(Kids(n)[i] - 1)
  BY <1>1, <1>3
<1>6. Kids(n)[j] <= Kids(n)[i] \/ Kids(n)[j] > x
  BY <1>2, <1>5 DEF Within
<1>7. QED
  BY <1>1, <1>3, <1>4, <1>6

(* What a frame has yet to call lies ahead of all that is on the stack or called. *)
LEMMA Ahead ==
  ASSUME TypeOK, PathInv, ControlInv, AncestorInv,
         NEW k \in 1..Len(stack), NEW j \in (stack[k].i + 1)..Len(Kids(stack[k].node)),
         Kids(stack[k].node)[j] # 0
  PROVE  /\ Kids(stack[k].node)[j] \in Nodes
         /\ \A l \in 1..Len(stack) : stack[l].node < Kids(stack[k].node)[j]
         /\ Calls => ctl.node < Kids(stack[k].node)[j]
<1> DEFINE n == stack[k].node
           i == stack[k].i
<1>1. /\ tree \in Trees /\ n \in Nodes /\ i \in Nat /\ Len(stack) \in Nat
      /\ \A l \in 1..Len(stack) : stack[l].node \in Nodes
  BY StackFacts DEF TypeOK
<1>2. Len(Kids(n)) \in Nat /\ \A l \in 1..Len(stack) : stack[l].node \in Nat
  BY <1>1, TreeFacts
<1>3. j \in 1..Len(Kids(n)) /\ (i >= 1 => i \in 1..(j - 1) /\ i \in 1..Len(Kids(n)))
  BY <1>1, <1>2
<1>4. Kids(n)[j] \in Nodes /\ Kids(n)[j] > n /\ Kids(n)[j] \in Nat
  BY <1>1, <1>3, TreeFacts DEF Nodes
<1>5. k < Len(stack) => i >= 1 /\ Kids(n)[i] \in Nodes /\ Kids(n)[i] # 0
  <2>1. SUFFICES ASSUME k < Len(stack) PROVE i >= 1 /\ Kids(n)[i] \in Nodes /\ Kids(n)[i] # 0
    OBVIOUS
  <2>2. k + 1 \in 2..Len(stack) /\ (k + 1) - 1 = k /\ k + 1 \in 1..Len(stack)
    BY <1>1, <2>1
  <2>3. i >= 1 /\ Kids(n)[i] = stack[k + 1].node
    BY <2>2 DEF PathInv
  <2>4. \A m \in Nodes : m # 0
    BY <1>1, TreeFacts
  <2>5. QED
    BY <2>2, <2>3, <2>4, <1>1
<1>6. ASSUME NEW l \in 1..Len(stack) PROVE stack[l].node < Kids(n)[j]
  <2>1. CASE l = k
    BY <2>1, <1>4
  <2>2. CASE l < k
    <3>1. l \in 1..(k - 1)
      BY <2>2, <1>1
    <3>2. stack[l].node < n
      BY <3>1 DEF AncestorInv
    <3>3. QED
      BY <3>2, <1>2, <1>4
  <2>3. CASE l > k
    <3>1. k \in 1..(l - 1) /\ k < Len(stack)
      BY <2>3, <1>1
    <3>2. Within(Kids(n)[i], stack[l].node)
      BY <3>1 DEF AncestorInv
    <3>3. QED
      BY <3>1, <3>2, <1>1, <1>3, <1>4, <1>5, Past
  <2>4. QED
    BY <2>1, <2>2, <2>3, <1>1
<1>7. ASSUME Calls PROVE ctl.node < Kids(n)[j]
  <2>1. Len(stack) > 0 /\ Top = stack[Len(stack)] /\ Len(stack) \in 1..Len(stack)
    BY <1>1 DEF Top
  <2>2. Top.i >= 1 /\ Kids(Top.node)[Top.i] = ctl.node /\ ctl.node \in Nodes
    BY <1>7, <2>1, ControlFacts DEF ControlInv, Calls, TypeOK
  <2>3. CASE k = Len(stack)
    <3>1. Kids(n)[i] = ctl.node /\ i >= 1
      BY <2>1, <2>2, <2>3
    <3>2. QED
      BY <3>1, <1>1, <1>3, <1>4, SiblingOrder
  <2>4. CASE k < Len(stack)
    <3>1. k \in 1..(Len(stack) - 1)
      BY <2>4, <1>1
    <3>2. Within(Kids(n)[i], Top.node)
      BY <3>1, <2>1 DEF AncestorInv
    <3>3. Top.node \in Nodes /\ Top.i \in 1..Len(Kids(Top.node))
      BY <2>1, <2>2, TopFacts, TreeFacts, <1>1
    <3>4. Within(Top.node, ctl.node)
      <4>1. ctl.node # 0
        BY <2>2, <1>1, TreeFacts
      <4>2. QED
        BY <4>1, <3>3, <2>2, <1>1, WithinFacts
    <3>5. Within(Kids(n)[i], ctl.node)
      BY <3>2, <3>3, <3>4, <2>2, <2>4, <1>1, <1>5, WithinFacts
    <3>6. QED
      BY <3>5, <2>2, <2>4, <1>1, <1>3, <1>4, <1>5, Past
  <2>5. QED
    BY <2>3, <2>4, <1>1
<1>8. QED
  BY <1>4, <1>6, <1>7

(* The node that is called is in all that are on the stack. *)
LEMMA Called ==
  ASSUME TypeOK, PathInv, ControlInv, AncestorInv, Calls, Len(stack) > 0
  PROVE  /\ ctl.node \in Nodes /\ ctl.sub < ctl.node
         /\ \A j \in 1..Len(stack) : /\ stack[j].node < ctl.node
                                     /\ Within(Kids(stack[j].node)[stack[j].i], ctl.node)
                                     /\ Within(stack[j].node, ctl.node)
<1>1. /\ tree \in Trees /\ Len(stack) \in Nat /\ Len(stack) \in 1..Len(stack)
      /\ Top = stack[Len(stack)] /\ Top.node \in Nodes
      /\ \A l \in 1..Len(stack) : stack[l].node \in Nodes /\ stack[l].i \in Nat
                                  /\ stack[l].i <= Len(Kids(stack[l].node))
  BY StackFacts, TopFacts DEF TypeOK
<1>2. Top.i >= 1 /\ Kids(Top.node)[Top.i] = ctl.node /\ ctl.node \in Nodes /\ ctl.sub = Top.sub
      /\ ctl.sub \in {0} \cup Nodes
  BY ControlFacts DEF ControlInv, Calls, TypeOK
<1>3. \A m \in Nodes : m # 0 /\ m \in Nat
  BY <1>1, TreeFacts
<1>4. Top.i \in 1..Len(Kids(Top.node))
  BY <1>1, <1>2, TreeFacts
<1>5. Top.node < ctl.node /\ Within(Top.node, ctl.node) /\ Within(ctl.node, ctl.node)
  BY <1>1, <1>2, <1>3, <1>4, TreeFacts, WithinFacts
<1>6. ctl.sub < ctl.node
  BY <1>1, <1>2, <1>3, <1>5 DEF AncestorInv
<1>7. ASSUME NEW j \in 1..Len(stack)
      PROVE  /\ stack[j].node < ctl.node
             /\ Within(Kids(stack[j].node)[stack[j].i], ctl.node)
             /\ Within(stack[j].node, ctl.node)
  <2>1. CASE j = Len(stack)
    BY <2>1, <1>1, <1>2, <1>5
  <2>2. CASE j < Len(stack)
    <3>1. j \in 1..(Len(stack) - 1) /\ j + 1 \in 2..Len(stack) /\ (j + 1) - 1 = j /\ j + 1 \in 1..Len(stack)
      BY <2>2, <1>1
    <3>2. stack[j].node < Top.node /\ Within(Kids(stack[j].node)[stack[j].i], Top.node)
      BY <3>1, <1>1 DEF AncestorInv
    <3>3. Kids(stack[j].node)[stack[j].i] = stack[j + 1].node /\ stack[j].i >= 1
      BY <3>1 DEF PathInv
    <3>4. Kids(stack[j].node)[stack[j].i] \in Nodes
      BY <3>1, <3>3, <1>1
    <3>5. Within(Kids(stack[j].node)[stack[j].i], ctl.node)
      BY <3>2, <3>4, <1>1, <1>2, <1>5, WithinFacts
    <3>6. Within(stack[j].node, Kids(stack[j].node)[stack[j].i])
      BY <3>3, <3>4, <1>1, <1>3, TreeFacts, WithinFacts
    <3>7. Within(stack[j].node, ctl.node)
      BY <3>4, <3>5, <3>6, <1>1, <1>2, WithinFacts
    <3>8. QED
      BY <3>2, <3>5, <3>7, <1>1, <1>2, <1>3, <1>5
  <2>3. QED
    BY <2>1, <2>2, <1>1
<1>8. QED
  BY <1>2, <1>6, <1>7

LEMMA AncestorStep ==
  ASSUME TypeOK, PathInv, ControlInv, AncestorInv, tree' = tree, Moves
  PROVE  AncestorInv'
<1>1. Len(stack) \in Nat /\ tree \in Trees /\ \A m \in Nodes : m \in Nat
  BY StackFacts, TreeFacts DEF TypeOK
<1>2. CASE EnterMove
  <2>1. /\ Calls
        /\ Len(stack') = Len(stack) + 1 /\ \A k \in 1..Len(stack) : stack'[k] = stack[k]
        /\ stack'[Len(stack) + 1].node = ctl.node /\ stack'[Len(stack) + 1].sub = Own(ctl.node, ctl.sub)
    BY <1>2 DEF EnterMove, Pushed, Lower, Calls
  <2>2. ctl.node \in Nodes /\ ctl.node \in Nat
    BY <1>1, <2>1, ControlFacts DEF Calls, TypeOK
  <2>3. ctl.sub <= ctl.node
    <3>1. CASE Len(stack) = 0
      BY <3>1, <2>1 DEF ControlInv
    <3>2. CASE Len(stack) > 0
      <4>1. ctl.sub \in Nat
        BY <1>1, <2>1, ControlFacts DEF Calls, TypeOK
      <4>2. QED
        BY <3>2, <4>1, <2>1, <2>2, Called
    <3>3. QED
      BY <3>1, <3>2, <1>1
  <2>4. ASSUME NEW k \in 1..Len(stack')
        PROVE  /\ stack'[k].sub <= stack'[k].node
               /\ \A j \in 1..(k - 1) :
                    /\ stack'[j].node < stack'[k].node
                    /\ Within(Kids(stack'[j].node)[stack'[j].i], stack'[k].node)
    <3>1. CASE k = Len(stack) + 1
      <4>1. stack'[k].sub <= stack'[k].node
        BY <3>1, <2>1, <2>2, <2>3 DEF Own
      <4>2. \A j \in 1..(k - 1) : j \in 1..Len(stack) /\ Len(stack) > 0
        BY <3>1, <1>1
      <4>3. QED
        BY <4>1, <4>2, <3>1, <2>1, Called
    <3>2. CASE k # Len(stack) + 1
      <4>1. k \in 1..Len(stack) /\ \A j \in 1..(k - 1) : j \in 1..Len(stack)
        BY <3>2, <2>1, <1>1
      <4>2. QED
        BY <4>1, <2>1 DEF AncestorInv
    <3>3. QED
      BY <3>1, <3>2
  <2>5. QED
    BY <2>4, AncestorPrime
<1>3. CASE LeafMove \/ RunMove \/ StayMove
  <2>1. stack' = stack
    BY <1>3 DEF LeafMove, RunMove, StayMove
  <2>2. QED
    BY <2>1, AncestorPrime DEF AncestorInv
<1>4. CASE EndMove
  <2>1. Len(stack') = 0
    BY <1>4 DEF EndMove
  <2>2. QED
    BY <2>1, AncestorPrime
<1>5. CASE LeaveMove
  <2>1. Len(stack') = Len(stack) - 1 /\ \A k \in 1..Len(stack') : stack'[k] = stack[k]
    BY <1>5 DEF LeaveMove, Popped, Lower
  <2>2. ASSUME NEW k \in 1..Len(stack')
        PROVE  k \in 1..Len(stack) /\ \A j \in 1..(k - 1) : j \in 1..Len(stack')
    BY <1>1, <2>1
  <2>3. QED
    BY <2>1, <2>2, AncestorPrime DEF AncestorInv
<1>6. CASE StepMove \/ NoteMove
  <2>1. \E i, ret, skip : TopSet(i, ret, skip)
    BY <1>6 DEF StepMove, NoteMove
  <2>2. /\ Len(stack') = Len(stack) /\ Len(stack) > 0 /\ Top = stack[Len(stack)]
        /\ \A k \in 1..(Len(stack) - 1) : stack'[k] = stack[k]
        /\ stack'[Len(stack)].node = Top.node /\ stack'[Len(stack)].sub = Top.sub
    BY <2>1 DEF TopSet, Lower, Top
  <2>3. \A k \in 1..Len(stack) : stack'[k].node = stack[k].node /\ stack'[k].sub = stack[k].sub
    BY <1>1, <2>2
  <2>4. ASSUME NEW k \in 1..Len(stack), NEW j \in 1..(k - 1)
        PROVE  stack'[j] = stack[j]
    BY <1>1, <2>2
  <2>5. QED
    BY <2>2, <2>3, <2>4, AncestorPrime DEF AncestorInv
<1>7. QED
  BY <1>2, <1>3, <1>4, <1>5, <1>6 DEF Moves

LEMMA FreshStep ==
  ASSUME TypeOK, PathInv, ControlInv, AncestorInv, FreshInv, tree' = tree, Moves
  PROVE  FreshInv'
<1>1. /\ Len(stack) \in Nat /\ tree \in Trees /\ \A m \in Nodes : m \in Nat
      /\ Len(phases) \in Nat /\ \A k \in 1..Len(stack) : stack[k].i \in Nat /\ stack[k].node \in Nodes
      /\ subtest \in [Nodes -> SubtestOutcomes] /\ records \in [Nodes -> SubtestOutcomes
            \cup {"SKIP", "TAKEN", "NOT_TAKEN", "CONTINUE", "FAIL_SUBTEST", "EXC"}]
  BY StackFacts, TreeFacts DEF TypeOK
<1>2. \A n \in Nodes : Len(Kids(n)) \in Nat /\ \A j \in 1..Len(Kids(n)) : Kids(n)[j] # 0 =>
                         Kids(n)[j] \in Nodes /\ Kids(n)[j] > n
  BY <1>1, TreeFacts
<1>3. Calls => ctl.node \in Nodes /\ ctl.sub \in {0} \cup Nodes
  BY ControlFacts DEF Calls, TypeOK
<1> DEFINE Future(c) == \E k \in 1..Len(stack) : \E j \in (stack[k].i + 1)..Len(Kids(stack[k].node)) :
                           Kids(stack[k].node)[j] = c /\ c # 0
<1>4. \A c : Future(c) => /\ c \in Nodes /\ Untouched(c) /\ (Calls => ctl.node < c)
                          /\ \A l \in 1..Len(stack) : stack[l].node < c
  BY Ahead DEF FreshInv
<1>5. ASSUME NEW k \in 1..Len(stack'), k \in 1..Len(stack), stack'[k].node = stack[k].node,
             stack'[k].i >= stack[k].i, stack'[k].i \in Nat,
             NEW j \in (stack'[k].i + 1)..Len(Kids(stack'[k].node)), Kids(stack'[k].node)[j] # 0
      PROVE  Future(Kids(stack'[k].node)[j])
  <2>1. j \in (stack[k].i + 1)..Len(Kids(stack[k].node))
    BY <1>1, <1>2, <1>5
  <2>2. QED
    BY <2>1, <1>5
<1> HIDE DEF Future
<1>6. CASE EnterMove
  <2>1. /\ Calls /\ Len(stack') = Len(stack) + 1 /\ \A k \in 1..Len(stack) : stack'[k] = stack[k]
        /\ stack'[Len(stack) + 1].node = ctl.node /\ stack'[Len(stack) + 1].i = 0
        /\ ctl'.op = "loop" /\ UNCHANGED <<ends, phases, records>>
        /\ \A m \in Nodes : m # ctl.node => subtest'[m] = subtest[m]
    BY <1>6, <1>1 DEF EnterMove, Pushed, Lower, Calls, Loop
  <2>2. \A c \in Nodes : ctl.node < c /\ Untouched(c) => UntouchedNext(c)
    BY <2>1, <1>1, <1>3 DEF Untouched, UntouchedNext
  <2>3. Untouched(ctl.node)
    BY <2>1 DEF FreshInv
  <2>4. \A c \in Nodes : ctl.node < c => Untouched(c)
    BY <2>1, <2>3, <1>1, <1>3 DEF Untouched
  <2>5. ASSUME NEW k \in 1..Len(stack'), NEW j \in (stack'[k].i + 1)..Len(Kids(stack'[k].node)),
               Kids(stack'[k].node)[j] # 0
        PROVE  UntouchedNext(Kids(stack'[k].node)[j])
    <3>1. CASE k = Len(stack) + 1
      <4>1. stack'[k].node = ctl.node /\ j \in 1..Len(Kids(ctl.node))
        BY <2>1, <2>5, <3>1, <1>2, <1>3
      <4>2. QED
        BY <4>1, <2>1, <2>2, <2>4, <2>5, <1>2, <1>3
    <3>2. CASE k # Len(stack) + 1
      <4>1. k \in 1..Len(stack) /\ stack'[k] = stack[k] /\ stack'[k].i \in Nat
            /\ stack'[k].i >= stack[k].i
        BY <2>1, <3>2, <1>1
      <4>2. Future(Kids(stack'[k].node)[j])
        BY <4>1, <2>5, <1>5
      <4>3. QED
        BY <4>2, <2>1, <2>2, <1>4
    <3>3. QED
      BY <3>1, <3>2
  <2>6. QED
    BY <2>1, <2>5, FreshPrime
<1>7. ASSUME Len(stack') <= Len(stack), Len(stack') \in Nat,
             \A k \in 1..Len(stack') : stack'[k].node = stack[k].node /\ stack'[k].i >= stack[k].i
                                       /\ stack'[k].i \in Nat,
             \A c \in Nodes : Future(c) => UntouchedNext(c),
             ctl'.op \in {"call", "run"} => UntouchedNext(ctl'.node)
      PROVE  FreshInv'
  <2>1. ASSUME NEW k \in 1..Len(stack'), NEW j \in (stack'[k].i + 1)..Len(Kids(stack'[k].node)),
               Kids(stack'[k].node)[j] # 0
        PROVE  UntouchedNext(Kids(stack'[k].node)[j])
    <3>1. k \in 1..Len(stack)
      BY <1>1, <1>7
    <3>2. Future(Kids(stack'[k].node)[j])
      BY <3>1, <2>1, <1>5, <1>7
    <3>3. QED
      BY <3>2, <1>4, <1>7
  <2>2. QED
    BY <2>1, <1>7, FreshPrime
<1>8. \A k \in 1..Len(stack) : stack[k].i >= stack[k].i
  BY <1>1
<1>9. CASE LeafMove
  <2>1. /\ Calls /\ stack' = stack /\ ctl'.op = "return" /\ Len(phases') <= Len(phases) + 1
        /\ \A m \in Nodes : m # ctl.node => ends'[m] = ends[m] /\ records'[m] = records[m]
        /\ \A m \in Nodes : m # ctl.sub => subtest'[m] = subtest[m]
    BY <1>9, <1>1 DEF LeafMove
  <2>2. Len(phases) < ctl.node
    BY <2>1 DEF FreshInv, Untouched
  <2>3. ASSUME NEW c \in Nodes, Future(c) PROVE UntouchedNext(c)
    <3>1. Untouched(c) /\ ctl.node < c /\ Len(stack) > 0
      <4>1. Len(stack) > 0
        BY <2>3, <1>1 DEF Future
      <4>2. QED
        BY <4>1, <2>1, <2>3, <1>4
    <3>2. ctl.sub < ctl.node
      BY <2>1, <3>1, Called
    <3>3. \A m \in Nodes : m >= c => m # ctl.node /\ m # ctl.sub
      BY <3>1, <3>2, <2>1, <1>1, <1>3
    <3>4. Len(phases') < c
      <4>1. Len(phases) + 1 <= ctl.node /\ ctl.node + 1 <= c
        BY <2>2, <3>1, <2>1, <1>1, <1>3
      <4>2. QED
        BY <4>1, <2>1, <1>1, <1>3
    <3>5. QED
      BY <2>1, <3>1, <3>3, <3>4 DEF Untouched, UntouchedNext
  <2>4. QED
    BY <2>1, <2>3, <1>1, <1>7, <1>8
<1>10. ASSUME SameData, NEW c \in Nodes, Untouched(c) PROVE UntouchedNext(c)
  BY <1>10 DEF SameData, Untouched, UntouchedNext
<1>11. CASE RunMove
  <2>1. stack' = stack /\ SameData /\ Calls /\ ctl'.node = ctl.node
    <3>1. ctl = [op |-> ctl.op, node |-> ctl.node, sub |-> ctl.sub, td |-> ctl.td]
      BY <1>11, ControlFacts DEF RunMove, TypeOK
    <3>2. ctl' = [op |-> "run", node |-> ctl.node, sub |-> ctl.sub, td |-> ctl.td]
      BY <1>11, <3>1 DEF RunMove
    <3>3. ctl'.node = ctl.node
      BY <3>2
    <3>4. QED
      BY <1>11, <3>3 DEF RunMove, Calls
  <2>2. UntouchedNext(ctl'.node)
    BY <2>1, <1>3, <1>10 DEF FreshInv
  <2>3. QED
    BY <2>1, <2>2, <1>1, <1>4, <1>7, <1>8, <1>10
<1>12. CASE StayMove
  <2>1. stack' = stack /\ ctl' = ctl /\ SameData
    BY <1>12 DEF StayMove
  <2>2. ctl'.op \in {"call", "run"} => UntouchedNext(ctl'.node)
    BY <2>1, <1>3, <1>10 DEF FreshInv, Calls
  <2>3. QED
    BY <2>1, <2>2, <1>1, <1>4, <1>7, <1>8, <1>10
<1>13. CASE EndMove
  <2>1. Len(stack') = 0 /\ ctl'.op \in {"finish", "done"}
    BY <1>13 DEF EndMove
  <2>2. QED
    BY <2>1, FreshPrime
<1>14. CASE LeaveMove
  <2>1. /\ Len(stack) > 0 /\ Len(stack') = Len(stack) - 1 /\ \A k \in 1..Len(stack') : stack'[k] = stack[k]
        /\ ctl'.op = "return" /\ UNCHANGED <<ends, phases>> /\ Top = stack[Len(stack)]
        /\ \A m \in Nodes : m # Top.node => subtest'[m] = subtest[m] /\ records'[m] = records[m]
    BY <1>14 DEF LeaveMove, Popped, Lower, Top
  <2>2. ASSUME NEW c \in Nodes, Future(c) PROVE UntouchedNext(c)
    <3>1. Untouched(c) /\ Top.node < c /\ Top.node \in Nodes
      BY <2>1, <2>2, <1>1, <1>4
    <3>2. \A m \in Nodes : m >= c => m # Top.node
      BY <3>1, <1>1
    <3>3. QED
      BY <2>1, <3>1, <3>2 DEF Untouched, UntouchedNext
  <2>3. \A k \in 1..Len(stack') : k \in 1..Len(stack) /\ stack'[k].i >= stack[k].i
    BY <2>1, <1>1
  <2>4. QED
    BY <2>1, <2>2, <2>3, <1>1, <1>7
<1>15. CASE StepMove
  <2> DEFINE c == Kids(Top.node)[Top.i + 1]
  <2>1. /\ Len(stack) > 0 /\ Len(stack') = Len(stack) /\ \A k \in 1..(Len(stack) - 1) : stack'[k] = stack[k]
        /\ stack'[Len(stack)].node = Top.node /\ stack'[Len(stack)].i = Top.i + 1
        /\ Top = stack[Len(stack)] /\ Top.i + 1 <= Len(Kids(Top.node)) /\ SameData
    BY <1>15 DEF StepMove, TopSet, Lower, Top
  <2>2. \A k \in 1..Len(stack') : stack'[k].node = stack[k].node /\ stack'[k].i >= stack[k].i
                                   /\ stack'[k].i \in Nat
    BY <2>1, <1>1
  <2>3. ctl'.op \in {"call", "run"} => ctl'.node = c /\ c # 0
    BY <1>15 DEF StepMove, Return, Call
  <2>4. c # 0 => Future(c)
    <3>1. Top.i + 1 \in (stack[Len(stack)].i + 1)..Len(Kids(stack[Len(stack)].node))
          /\ Len(stack) \in 1..Len(stack)
      BY <2>1, <1>1, <1>2
    <3>2. QED
      BY <3>1, <2>1 DEF Future
  <2> HIDE DEF c
  <2>5. ctl'.op \in {"call", "run"} => UntouchedNext(ctl'.node)
    BY <2>1, <2>3, <2>4, <1>4, <1>10
  <2>6. QED
    BY <2>1, <2>2, <2>5, <1>1, <1>4, <1>7, <1>10
<1>16. CASE NoteMove
  <2>1. PICK ret \in Rets, skip \in BOOLEAN : TopSet(Top.i, ret, skip)
    BY <1>16 DEF NoteMove
  <2>2. /\ Len(stack) > 0 /\ Len(stack') = Len(stack) /\ \A k \in 1..(Len(stack) - 1) : stack'[k] = stack[k]
        /\ stack'[Len(stack)].node = Top.node /\ stack'[Len(stack)].i = Top.i
        /\ Top = stack[Len(stack)] /\ SameData /\ ctl'.op = "loop"
    BY <1>16, <2>1 DEF NoteMove, TopSet, Lower, Top, Loop
  <2>3. \A k \in 1..Len(stack') : stack'[k].node = stack[k].node /\ stack'[k].i >= stack[k].i
                                   /\ stack'[k].i \in Nat
    BY <2>2, <1>1
  <2>4. QED
    BY <2>2, <2>3, <1>1, <1>4, <1>7, <1>10
<1>17. QED
  BY <1>6, <1>9, <1>11, <1>12, <1>13, <1>14, <1>15, <1>16 DEF Moves

LEMMA BoundStep ==
  ASSUME TypeOK, tree' = tree, Moves
  PROVE  \A k \in 1..Len(stack') : stack'[k].i <= Len(Kids(stack'[k].node))
<1>1. /\ Len(stack) \in Nat /\ tree \in Trees
      /\ \A k \in 1..Len(stack) : stack[k].i <= Len(Kids(stack[k].node))
  BY StackFacts DEF TypeOK
<1>2. CASE EnterMove
  <2>1. /\ Len(stack') = Len(stack) + 1 /\ \A k \in 1..Len(stack) : stack'[k] = stack[k]
        /\ stack'[Len(stack) + 1].node = ctl.node /\ stack'[Len(stack) + 1].i = 0
        /\ ctl.op = "call"
    BY <1>2 DEF EnterMove, Pushed, Lower
  <2>2. Len(Kids(ctl.node)) \in Nat
    BY <1>1, <2>1, ControlFacts, TreeFacts DEF TypeOK
  <2>3. QED
    BY <1>1, <2>1, <2>2
<1>3. CASE LeafMove \/ RunMove \/ StayMove
  BY <1>1, <1>3 DEF LeafMove, RunMove, StayMove
<1>4. CASE EndMove
  BY <1>4 DEF EndMove
<1>5. CASE LeaveMove
  BY <1>1, <1>5 DEF LeaveMove, Popped, Lower
<1>6. CASE StepMove
  <2>1. /\ Len(stack) > 0 /\ Len(stack') = Len(stack) /\ \A k \in 1..(Len(stack) - 1) : stack'[k] = stack[k]
        /\ stack'[Len(stack)].node = Top.node /\ stack'[Len(stack)].i = Top.i + 1
        /\ Top.i + 1 <= Len(Kids(Top.node))
    BY <1>6 DEF StepMove, TopSet, Lower
  <2>2. \A k \in 1..Len(stack) : k = Len(stack) \/ k \in 1..(Len(stack) - 1)
    BY <1>1
  <2>3. QED
    BY <1>1, <2>1, <2>2
<1>7. CASE NoteMove
  <2>1. PICK ret \in Rets, skip \in BOOLEAN : TopSet(Top.i, ret, skip)
    BY <1>7 DEF NoteMove
  <2>2. /\ Len(stack) > 0 /\ Len(stack') = Len(stack) /\ \A k \in 1..(Len(stack) - 1) : stack'[k] = stack[k]
        /\ stack'[Len(stack)].node = Top.node /\ stack'[Len(stack)].i = Top.i
        /\ Top.i <= Len(Kids(Top.node))
    BY <2>1, TopFacts DEF TopSet, Lower
  <2>3. \A k \in 1..Len(stack) : k = Len(stack) \/ k \in 1..(Len(stack) - 1)
    BY <1>1
  <2>4. QED
    BY <1>1, <2>2, <2>3
<1>8. QED
  BY <1>2, <1>3, <1>4, <1>5, <1>6, <1>7 DEF Moves

EndsType == [Nodes -> PhaseEnds \cup {"NONE"}]
RecordsType == [Nodes -> SubtestOutcomes \cup {"SKIP", "TAKEN", "NOT_TAKEN", "CONTINUE", "FAIL_SUBTEST", "EXC"}]
PhasesType == Seq([sub : {0} \cup Nodes, outcome : {"PASS", "FAIL", "SKIP", "ERROR"}])

LEMMA RecordedFacts ==
  /\ DOMAIN Recorded = {"PASS", "FAIL", "FAIL_SUBTEST", "SKIP", "SKIPPED", "STOP", "EXC", "TIMEOUT"}
  /\ \A e \in DOMAIN Recorded : Recorded[e] \in {"PASS", "FAIL", "SKIP", "ERROR"}
  /\ Recorded["FAIL"] = "FAIL" /\ Recorded["FAIL_SUBTEST"] = "FAIL"
  /\ Recorded["SKIPPED"] = "SKIP"
BY DEF Recorded

LEMMA EndsFacts ==
  ASSUME NEW s, NEW e \in Ends(s)
  PROVE  /\ e \in PhaseEnds \ {"SKIPPED"}
         /\ e = "FAIL_SUBTEST" => s # 0
         /\ e = "CANCELLED" => abort \/ fullAbort
         /\ e = "DECLINED" => "DECLINED" \in Results
BY ConstantsAssumption, RecordedFacts DEF Ends, PhaseEnds

(* What comes of a phase, or of a checkpoint. *)
LEMMA ApplyFacts ==
  ASSUME TypeOK, NEW e, e \in PhaseEnds \cup {"CONTINUE"}, NEW s, s \in {0} \cup Nodes,
         e = "FAIL_SUBTEST" => s # 0, Apply(e, s)
  PROVE  /\ subtest' \in [Nodes -> SubtestOutcomes]
         /\ lastOutcome' \in PhaseEnds \cup {"NONE"}
         /\ ctl'.op = "return" /\ ctl'.ret = IF IsTerminal(e) THEN "TERMINAL" ELSE "CONTINUE"
         /\ \A m \in Nodes : m # s => subtest'[m] = subtest[m]
         /\ s # 0 => subtest'[s] = IF e = "FAIL_SUBTEST" THEN "FAIL" ELSE subtest[s]
         /\ lastOutcome' = IF IsTerminal(e) /\ lastOutcome = "NONE" THEN e ELSE lastOutcome
<1>1. subtest \in [Nodes -> SubtestOutcomes] /\ lastOutcome \in PhaseEnds \cup {"NONE"}
  BY DEF TypeOK
<1>2. ctl'.op = "return" /\ ctl'.ret = IF IsTerminal(e) THEN "TERMINAL" ELSE "CONTINUE"
  BY DEF Apply, Return
<1>3. lastOutcome' = IF IsTerminal(e) /\ lastOutcome = "NONE" THEN e ELSE lastOutcome
  BY DEF Apply, KeepOutcome
<1>4. lastOutcome' \in PhaseEnds \cup {"NONE"}
  BY <1>1, <1>3 DEF IsTerminal
<1>5. subtest' = IF e = "FAIL_SUBTEST" THEN [subtest EXCEPT ![s] = "FAIL"] ELSE subtest
  BY DEF Apply
<1>6. s # 0 => s \in Nodes
  OBVIOUS
<1>7. /\ subtest' \in [Nodes -> SubtestOutcomes]
      /\ \A m \in Nodes : m # s => subtest'[m] = subtest[m]
      /\ s # 0 => subtest'[s] = IF e = "FAIL_SUBTEST" THEN "FAIL" ELSE subtest[s]
  BY <1>1, <1>5, <1>6 DEF SubtestOutcomes
<1>8. QED
  BY <1>2, <1>3, <1>4, <1>7


LEMMA FinishPhaseFacts ==
  ASSUME TypeOK, ControlInv, FinishPhase
  PROVE  /\ ctl.op = "run" /\ ctl.node \in Nodes /\ ctl.sub \in {0} \cup Nodes
         /\ \E e \in Ends(ctl.sub) :
              /\ ends' = [ends EXCEPT ![ctl.node] = e]
              /\ e \in DOMAIN Recorded =>
                   phases' = Append(phases, [sub |-> ctl.sub, outcome |-> Recorded[e]])
              /\ e \notin DOMAIN Recorded => phases' = phases
              /\ diag' \in BOOLEAN
              /\ \/ /\ StopOnFirstFailure /\ phases' = <<>> /\ ctl' = [op |-> "finish"] /\ stack' = <<>>
                    /\ UNCHANGED <<subtest, lastOutcome>>
                 \/ /\ stack' = stack
                    /\ \/ Apply(e, ctl.sub)
                       \/ StopOnFirstFailure /\ Apply("STOP", ctl.sub)
         /\ UNCHANGED <<tree, records, testOutcome, abort, fullAbort, aborts>>
<1>1. ctl.op = "run" /\ ctl.node \in Nodes /\ ctl.sub \in {0} \cup Nodes
  BY ControlFacts DEF FinishPhase, TypeOK
<1>2. PICK e \in Ends(ctl.sub) :
         LET recs == IF e \in DOMAIN Recorded
                       THEN Append(phases, [sub |-> ctl.sub, outcome |-> Recorded[e]])
                       ELSE phases
         IN  /\ phases' = recs
             /\ ends' = [ends EXCEPT ![ctl.node] = e]
             /\ diag' \in {diag, diag \/ (tree[ctl.node].diagnosed /\ e \in DOMAIN Recorded)}
             /\ IF StopOnFirstFailure /\ recs = <<>>
                  THEN /\ ctl' = [op |-> "finish"]
                       /\ stack' = <<>>
                       /\ UNCHANGED <<subtest, lastOutcome>>
                  ELSE /\ Apply(WithFirstFailure(e, recs), ctl.sub)
                       /\ UNCHANGED stack
  BY DEF FinishPhase
<1>3. diag' \in BOOLEAN
  BY <1>2 DEF TypeOK
<1>4. \A recs : WithFirstFailure(e, recs) = e \/ (StopOnFirstFailure /\ WithFirstFailure(e, recs) = "STOP")
  BY DEF WithFirstFailure
<1>5. UNCHANGED <<tree, records, testOutcome, abort, fullAbort, aborts>>
  BY DEF FinishPhase, abortVars
<1>6. /\ e \in DOMAIN Recorded => phases' = Append(phases, [sub |-> ctl.sub, outcome |-> Recorded[e]])
      /\ e \notin DOMAIN Recorded => phases' = phases
      /\ ends' = [ends EXCEPT ![ctl.node] = e]
  BY <1>2
<1>7. \/ /\ StopOnFirstFailure /\ phases' = <<>> /\ ctl' = [op |-> "finish"] /\ stack' = <<>>
         /\ UNCHANGED <<subtest, lastOutcome>>
      \/ /\ stack' = stack
         /\ \/ Apply(e, ctl.sub)
            \/ StopOnFirstFailure /\ Apply("STOP", ctl.sub)
  BY <1>2, <1>4
<1>8. QED
  BY <1>1, <1>3, <1>5, <1>6, <1>7

LEMMA CheckpointFacts ==
  ASSUME TypeOK, ExecuteCheckpoint
  PROVE  /\ ctl.op = "call" /\ Kind(ctl.node) = "checkpoint" /\ ctl.node \in Nodes /\ ctl.sub \in {0} \cup Nodes
         /\ UNCHANGED <<tree, stack, ends, phases, diag, testOutcome, abort, fullAbort, aborts>>
         /\ \/ /\ ~ctl.td /\ IsFail(ctl.sub)
               /\ records' = [records EXCEPT ![ctl.node] = "SKIP"]
               /\ ctl' = Return("CONTINUE") /\ UNCHANGED <<subtest, lastOutcome>>
            \/ \E e \in {"CONTINUE", "STOP", "FAIL_SUBTEST", "EXC"} :
                 /\ e = "FAIL_SUBTEST" => ctl.sub # 0
                 /\ records' = [records EXCEPT ![ctl.node] = e]
                 /\ Apply(e, ctl.sub)
<1>1. ctl.op = "call" /\ Kind(ctl.node) = "checkpoint" /\ ctl.node \in Nodes /\ ctl.sub \in {0} \cup Nodes
  BY ControlFacts DEF ExecuteCheckpoint, Calling, TypeOK
<1>2. tree[ctl.node].action \in {"STOP", "FAIL_SUBTEST"}
  BY <1>1, TreeFacts DEF TypeOK
<1> DEFINE e == EvaluateCheckpoint(ctl.node, ctl.sub)
<1>3. e \in {"CONTINUE", "STOP", "FAIL_SUBTEST", "EXC"} /\ (e = "FAIL_SUBTEST" => ctl.sub # 0)
  BY <1>2 DEF EvaluateCheckpoint
<1>4. UNCHANGED <<tree, stack, ends, phases, diag, testOutcome, abort, fullAbort, aborts>>
  BY DEF ExecuteCheckpoint, abortVars
<1>5. \/ /\ ~ctl.td /\ IsFail(ctl.sub)
         /\ records' = [records EXCEPT ![ctl.node] = "SKIP"]
         /\ ctl' = Return("CONTINUE") /\ UNCHANGED <<subtest, lastOutcome>>
      \/ records' = [records EXCEPT ![ctl.node] = e] /\ Apply(e, ctl.sub)
  BY DEF ExecuteCheckpoint
<1> HIDE DEF e
<1>6. QED
  BY <1>1, <1>3, <1>4, <1>5

LEMMA DataTypes ==
  ASSUME TypeOK, ControlInv, PathInv, FreshInv, tree' = tree, [Next]_vars
  PROVE  /\ ends' \in EndsType /\ phases' \in PhasesType /\ Len(phases') <= Len(tree)
         /\ subtest' \in [Nodes -> SubtestOutcomes] /\ records' \in RecordsType
         /\ diag' \in BOOLEAN /\ lastOutcome' \in PhaseEnds \cup {"NONE"}
         /\ testOutcome' \in {"NONE", "PASS", "FAIL", "ERROR", "TIMEOUT", "ABORTED"}
         /\ abort' \in BOOLEAN /\ fullAbort' \in BOOLEAN /\ aborts' \in 0..MaxAborts
<1> USE DEF EndsType, PhasesType, RecordsType
<1>1. /\ ends \in EndsType /\ phases \in PhasesType /\ Len(phases) <= Len(tree) /\ tree \in Trees
      /\ subtest \in [Nodes -> SubtestOutcomes] /\ records \in RecordsType
      /\ diag \in BOOLEAN /\ lastOutcome \in PhaseEnds \cup {"NONE"}
      /\ testOutcome \in {"NONE", "PASS", "FAIL", "ERROR", "TIMEOUT", "ABORTED"}
      /\ abort \in BOOLEAN /\ fullAbort \in BOOLEAN /\ aborts \in 0..MaxAborts
  BY DEF TypeOK
<1>2. Calls => ctl.node \in Nodes /\ ctl.sub \in {0} \cup Nodes /\ Len(phases) + 1 <= Len(tree)
  <2>1. SUFFICES ASSUME Calls PROVE ctl.node \in Nodes /\ ctl.sub \in {0} \cup Nodes /\ Len(phases) + 1 <= Len(tree)
    OBVIOUS
  <2>2. ctl.node \in Nodes /\ ctl.sub \in {0} \cup Nodes
    BY <2>1, ControlFacts DEF Calls, TypeOK
  <2>3. Len(phases) < ctl.node /\ Len(phases) \in Nat
    BY <2>1, <1>1 DEF FreshInv, Untouched
  <2>4. QED
    BY <2>2, <2>3, <1>1, TreeFacts
<1>3. \A s \in {0} \cup Nodes, o \in {"PASS", "FAIL", "SKIP", "ERROR"} :
        /\ Append(phases, [sub |-> s, outcome |-> o]) \in PhasesType
        /\ Len(Append(phases, [sub |-> s, outcome |-> o])) = Len(phases) + 1
  BY <1>1
<1>4. CASE UNCHANGED <<ends, phases, subtest, records, diag, lastOutcome, testOutcome, abort, fullAbort, aborts>>
  BY <1>1, <1>4
<1>5. CASE ExecuteSequence \/ ExecutePhaseGroup \/ GroupSequence \/ ReturnToGroup \/ StartPhase
           \/ WalkReturns \/ Done \/ UNCHANGED vars
  BY <1>4, <1>5 DEF ExecuteSequence, ExecutePhaseGroup, GroupSequence, ReturnToGroup, StartPhase,
                    WalkReturns, Done, vars, recordVars, abortVars
<1>6. CASE ExecuteSubtest
  <2>1. UNCHANGED <<ends, phases, records, diag, lastOutcome, testOutcome, abort, fullAbort, aborts>>
        /\ subtest' = [subtest EXCEPT ![ctl.node] = IF IsFail(ctl.sub) THEN "FAIL" ELSE "PASS"]
    BY <1>6 DEF ExecuteSubtest, abortVars
  <2>2. QED
    BY <2>1, <1>1 DEF SubtestOutcomes
<1>7. CASE ExecutePhaseBranch
  <2>1. UNCHANGED <<ends, phases, subtest, diag, lastOutcome, testOutcome, abort, fullAbort, aborts>>
        /\ (UNCHANGED records \/ records' = [records EXCEPT ![ctl.node] = "NOT_TAKEN"])
    BY <1>7 DEF ExecutePhaseBranch, abortVars
  <2>2. QED
    BY <2>1, <1>1
<1>8. CASE AbortableSequence \/ TeardownSequence \/ ReturnToSequence
  <2>1. UNCHANGED <<ends, phases, diag, lastOutcome, testOutcome, abort, fullAbort, aborts>> /\ InSequence
    BY <1>8 DEF AbortableSequence, TeardownSequence, ReturnToSequence, abortVars
  <2>2. Len(stack) > 0 /\ Top.ret \in Rets
    BY <2>1, StackFacts, TopFacts DEF InSequence
  <2>3. (\E r \in Rets : FinishSequence(r)) \/ UNCHANGED <<subtest, records>>
    BY <1>8, <2>2 DEF AbortableSequence, TeardownSequence, ReturnToSequence, NextNode, Rets
  <2>4. CASE \E r \in Rets : FinishSequence(r)
    BY <2>1, <2>2, <2>4, <1>1, FinishSequenceFacts
  <2>5. QED
    BY <2>1, <2>3, <2>4, <1>4
<1>9. CASE SkipPhase
  <2>1. UNCHANGED <<subtest, records, diag, lastOutcome, testOutcome, abort, fullAbort, aborts>>
        /\ ends' = [ends EXCEPT ![ctl.node] = "SKIPPED"] /\ Calls
        /\ phases' = Append(phases, [sub |-> ctl.sub, outcome |-> "SKIP"])
    BY <1>9, RecordedFacts DEF SkipPhase, abortVars, Calling, Calls
  <2>2. "SKIPPED" \in PhaseEnds
    BY RecordedFacts DEF PhaseEnds
  <2>3. phases' \in PhasesType /\ Len(phases') = Len(phases) + 1
    BY <2>1, <1>2, <1>3
  <2>4. QED
    BY <2>1, <2>2, <2>3, <1>1, <1>2
<1>10. CASE FinishPhase
  <2>1. Calls /\ UNCHANGED <<records, testOutcome, abort, fullAbort, aborts>>
    BY <1>10, FinishPhaseFacts DEF Calls
  <2>2. PICK e \in Ends(ctl.sub) :
              /\ ends' = [ends EXCEPT ![ctl.node] = e]
              /\ e \in DOMAIN Recorded =>
                   phases' = Append(phases, [sub |-> ctl.sub, outcome |-> Recorded[e]])
              /\ e \notin DOMAIN Recorded => phases' = phases
              /\ diag' \in BOOLEAN
              /\ UNCHANGED <<subtest, lastOutcome>> \/ Apply(e, ctl.sub) \/ Apply("STOP", ctl.sub)
    BY <1>10, FinishPhaseFacts
  <2>3. e \in PhaseEnds /\ (e = "FAIL_SUBTEST" => ctl.sub # 0)
    BY EndsFacts
  <2>4. phases' \in PhasesType /\ Len(phases') <= Len(tree)
    <3>1. CASE e \in DOMAIN Recorded
      <4>1. Recorded[e] \in {"PASS", "FAIL", "SKIP", "ERROR"} /\ ctl.sub \in {0} \cup Nodes
        BY <2>1, <3>1, <1>2, RecordedFacts
      <4>2. phases' = Append(phases, [sub |-> ctl.sub, outcome |-> Recorded[e]])
        BY <2>2, <3>1
      <4>3. phases' \in PhasesType /\ Len(phases') = Len(phases) + 1
        BY <4>1, <4>2, <1>3
      <4>4. QED
        BY <4>3, <2>1, <1>2
    <3>2. CASE e \notin DOMAIN Recorded
      BY <2>2, <3>2, <1>1
    <3>3. QED
      BY <3>1, <3>2
  <2>5. ends' \in EndsType
    BY <2>2, <2>3, <1>1
  <2>6. subtest' \in [Nodes -> SubtestOutcomes] /\ lastOutcome' \in PhaseEnds \cup {"NONE"}
    <3>1. "STOP" \in PhaseEnds /\ ctl.sub \in {0} \cup Nodes
      BY <2>1, <1>2, RecordedFacts DEF PhaseEnds
    <3>2. QED
      BY <2>2, <2>3, <3>1, <1>1, ApplyFacts
  <2>7. QED
    BY <2>1, <2>2, <2>4, <2>5, <2>6, <1>1
<1>11. CASE ExecuteCheckpoint
  <2>1. ctl.sub \in {0} \cup Nodes /\ UNCHANGED <<ends, phases, diag, testOutcome, abort, fullAbort, aborts>>
    BY <1>11, CheckpointFacts
  <2>2. \/ records' = [records EXCEPT ![ctl.node] = "SKIP"] /\ UNCHANGED <<subtest, lastOutcome>>
        \/ \E e \in {"CONTINUE", "STOP", "FAIL_SUBTEST", "EXC"} :
              /\ e = "FAIL_SUBTEST" => ctl.sub # 0
              /\ records' = [records EXCEPT ![ctl.node] = e]
              /\ Apply(e, ctl.sub)
    BY <1>11, CheckpointFacts
  <2>3. CASE records' = [records EXCEPT ![ctl.node] = "SKIP"] /\ UNCHANGED <<subtest, lastOutcome>>
    BY <2>1, <2>3, <1>1
  <2>4. CASE \E e \in {"CONTINUE", "STOP", "FAIL_SUBTEST", "EXC"} :
              /\ e = "FAIL_SUBTEST" => ctl.sub # 0
              /\ records' = [records EXCEPT ![ctl.node] = e]
              /\ Apply(e, ctl.sub)
    <3>1. PICK e \in {"CONTINUE", "STOP", "FAIL_SUBTEST", "EXC"} :
              /\ e = "FAIL_SUBTEST" => ctl.sub # 0
              /\ records' = [records EXCEPT ![ctl.node] = e]
              /\ Apply(e, ctl.sub)
      BY <2>4
    <3>2. e \in PhaseEnds \cup {"CONTINUE"}
      BY RecordedFacts DEF PhaseEnds
    <3>3. subtest' \in [Nodes -> SubtestOutcomes] /\ lastOutcome' \in PhaseEnds \cup {"NONE"}
      BY <3>1, <3>2, <2>1, ApplyFacts
    <3>4. records' \in RecordsType
      BY <3>1, <1>1 DEF SubtestOutcomes
    <3>5. QED
      BY <2>1, <3>3, <3>4, <1>1
  <2>5. QED
    BY <2>2, <2>3, <2>4
<1>12. CASE FinalizeTest
  <2>1. UNCHANGED <<ends, phases, subtest, records, diag, lastOutcome, abort, fullAbort, aborts>>
    BY <1>12 DEF FinalizeTest, abortVars
  <2>2. testOutcome' \in {"PASS", "FAIL", "ERROR", "TIMEOUT", "ABORTED"}
    BY <1>12 DEF FinalizeTest, NormalOutcome
  <2>3. QED
    BY <2>1, <2>2, <1>1
<1>13. CASE Abort
  <2>1. UNCHANGED <<ends, phases, subtest, records, diag, lastOutcome, testOutcome>>
        /\ abort' = TRUE /\ fullAbort' = abort /\ aborts' = aborts + 1 /\ aborts < MaxAborts
    BY <1>13 DEF Abort, recordVars
  <2>2. aborts' \in 0..MaxAborts
    BY <2>1, <1>1, ConstantsAssumption
  <2>3. QED
    BY <2>1, <2>2, <1>1
<1>14. QED
  BY <1>5, <1>6, <1>7, <1>8, <1>9, <1>10, <1>11, <1>12, <1>13 DEF Next

(* The inductive invariant of the walk, whatever its outcomes. *)
Shape == TypeOK /\ PathInv /\ ControlInv /\ AncestorInv /\ FreshInv

LEMMA ShapeInit == Init => Shape
<1> SUFFICES ASSUME Init PROVE Shape
  OBVIOUS
<1>1. /\ tree \in Trees /\ stack = <<>> /\ Len(stack) = 0 /\ phases = <<>> /\ Len(phases) = 0
      /\ ctl = [op |-> "call", node |-> 1, sub |-> 0, td |-> FALSE]
      /\ \A n \in Nodes : ends[n] = "NONE" /\ records[n] = "NONE" /\ subtest[n] = "NONE"
  BY DEF Init, Call
<1>2. 1 \in Nodes /\ Len(tree) \in Nat /\ Len(tree) >= 1
  BY <1>1, TreeFacts
<1>3. ctl.op = "call" /\ ctl.node = 1 /\ ctl.sub = 0 /\ ctl.td = FALSE /\ ctl \in Control
  BY <1>1, <1>2 DEF Control
<1>4. TypeOK
  <2>1. /\ ends \in [Nodes -> PhaseEnds \cup {"NONE"}]
        /\ subtest \in [Nodes -> SubtestOutcomes]
        /\ records \in [Nodes -> SubtestOutcomes \cup {"SKIP", "TAKEN", "NOT_TAKEN", "CONTINUE",
                                                       "FAIL_SUBTEST", "EXC"}]
    BY DEF Init, SubtestOutcomes
  <2>2. /\ stack \in Seq(Frame) /\ Len(phases) <= Len(tree)
        /\ phases \in Seq([sub : {0} \cup Nodes, outcome : {"PASS", "FAIL", "SKIP", "ERROR"}])
        /\ \A k \in 1..Len(stack) : stack[k].i <= Len(Kids(stack[k].node))
    BY <1>1, <1>2
  <2>3. diag = FALSE /\ lastOutcome = "NONE" /\ testOutcome = "NONE" /\ abort = FALSE
        /\ fullAbort = FALSE /\ aborts = 0
    BY DEF Init
  <2>4. aborts \in 0..MaxAborts
    BY <2>3, ConstantsAssumption
  <2>5. QED
    BY <1>1, <1>3, <2>1, <2>2, <2>3, <2>4 DEF TypeOK
<1>5. PathInv /\ AncestorInv
  BY <1>1 DEF PathInv, AncestorInv
<1>6. ControlInv
  BY <1>1, <1>3 DEF ControlInv, Calls
<1>7. FreshInv
  BY <1>1, <1>3 DEF FreshInv, Untouched, Calls
<1>8. QED
  BY <1>4, <1>5, <1>6, <1>7 DEF Shape

LEMMA ShapeStep == Shape /\ [Next]_vars => Shape'
<1> SUFFICES ASSUME Shape, [Next]_vars PROVE Shape'
  OBVIOUS
<1> USE DEF Shape
<1>1. tree' = tree /\ Moves /\ stack' \in Seq(Frame') /\ ctl' \in Control'
  BY Walk
<1>2. PathInv' /\ ControlInv' /\ AncestorInv' /\ FreshInv'
  BY <1>1, PathStep, ControlStep, AncestorStep, FreshStep
<1>3. \A k \in 1..Len(stack') : stack'[k].i <= Len(Kids(stack'[k].node))
  BY <1>1, BoundStep
<1>4. TypeOK'
  <2>1. tree' \in Trees /\ Nodes' = Nodes
    BY <1>1, SameTree DEF TypeOK
  <2>2. (\A k \in 1..Len(stack) : stack[k].i <= Len(Kids(stack[k].node)))'
    BY <1>1, <1>3 DEF Kids
  <2>3. /\ ends' \in EndsType /\ phases' \in PhasesType /\ Len(phases') <= Len(tree)
        /\ subtest' \in [Nodes -> SubtestOutcomes] /\ records' \in RecordsType
        /\ diag' \in BOOLEAN /\ lastOutcome' \in PhaseEnds \cup {"NONE"}
        /\ testOutcome' \in {"NONE", "PASS", "FAIL", "ERROR", "TIMEOUT", "ABORTED"}
        /\ abort' \in BOOLEAN /\ fullAbort' \in BOOLEAN /\ aborts' \in 0..MaxAborts
    BY <1>1, DataTypes
  <2>4. /\ (ends \in [Nodes -> PhaseEnds \cup {"NONE"}])'
        /\ (phases \in Seq([sub : {0} \cup Nodes, outcome : {"PASS", "FAIL", "SKIP", "ERROR"}]))'
        /\ (Len(phases) <= Len(tree))' /\ (subtest \in [Nodes -> SubtestOutcomes])'
        /\ (records \in [Nodes -> SubtestOutcomes \cup {"SKIP", "TAKEN", "NOT_TAKEN", "CONTINUE",
                                                        "FAIL_SUBTEST", "EXC"}])'
    BY <1>1, <2>1, <2>3 DEF EndsType, PhasesType, RecordsType
  <2>5. (stack \in Seq(Frame))' /\ (ctl \in Control)'
    BY <1>1
  <2>6. QED
    BY <2>1, <2>2, <2>3, <2>4, <2>5 DEF TypeOK
<1>5. QED
  BY <1>2, <1>4

(* Every variable keeps its type, no frame goes beyond the kids of its node and no phase is
   recorded twice. *)
THEOREM TypeCorrect == Spec => []TypeOK
<1>1. Shape => TypeOK
  BY DEF Shape
<1>2. QED
  BY ShapeInit, ShapeStep, <1>1, PTL DEF Spec

-----------------------------------------------------------------------------
(* The steps of the walk one by one, each with what it leaves alone. *)

Flags == UNCHANGED <<abort, fullAbort>>
Quiet == SameData /\ UNCHANGED lastOutcome

Enters == EnterMove /\ UNCHANGED lastOutcome /\ Flags

Starts == StartPhase /\ RunMove /\ UNCHANGED lastOutcome /\ Flags

(* A branch that is not run. *)
PassesBranch ==
    /\ ctl.op = "call" /\ Kind(ctl.node) = "branch" /\ stack' = stack /\ ctl' = Return("CONTINUE")
    /\ \/ ~ctl.td /\ IsFail(ctl.sub) /\ UNCHANGED records
       \/ records' = [records EXCEPT ![ctl.node] = "NOT_TAKEN"]
    /\ UNCHANGED <<ends, phases, subtest, lastOutcome>> /\ Flags

InSeq == Len(stack) > 0 /\ Kind(Top.node) \in SequenceKinds
InGrp == Len(stack) > 0 /\ Kind(Top.node) = "group"

(* A sequence ends at its last node, on an abort, or on a terminal return. *)
EndsSequence(r) ==
    /\ InSeq /\ Popped /\ ctl' = Return(r)
    /\ \/ ctl.op = "loop" /\ AtEnd /\ ~Top.td /\ r = "CONTINUE"
       \/ ctl.op = "loop" /\ AtEnd /\ Top.td /\ r = Top.ret
       \/ ctl.op = "loop" /\ ~Top.td /\ abort /\ r = "TERMINAL"
       \/ ctl.op = "loop" /\ Top.td /\ fullAbort /\ r = "TERMINAL"
       \/ ctl.op = "return" /\ ctl.ret = "TERMINAL" /\ ~Top.td /\ r = "TERMINAL"
    /\ \A m \in Nodes : m # Top.node => subtest'[m] = subtest[m] /\ records'[m] = records[m]
    /\ subtest'[Top.node] = IF Kind(Top.node) = "subtest" /\ r = "TERMINAL" THEN "STOP" ELSE subtest[Top.node]
    /\ records'[Top.node] = CASE Kind(Top.node) = "subtest" -> subtest'[Top.node]
                              [] Kind(Top.node) = "branch" -> "TAKEN"
                              [] OTHER -> records[Top.node]
    /\ UNCHANGED <<ends, phases, lastOutcome>> /\ Flags

(* The next node of a sequence, or the next part of a group. *)
StepsSequence ==
    /\ InSeq /\ ctl.op = "loop" /\ TopSet(Top.i + 1, Top.ret, Top.skip)
    /\ Top.i + 1 <= Len(Kids(Top.node)) /\ Kids(Top.node)[Top.i + 1] # 0
    /\ ctl' = Call(Kids(Top.node)[Top.i + 1], Top.sub, Top.td)
    /\ IF Top.td THEN ~fullAbort ELSE ~abort
    /\ Quiet /\ Flags

StepsGroup == InGrp /\ StepMove /\ Top.i < 3 /\ UNCHANGED lastOutcome /\ Flags

(* What a sequence and a group do with a return. *)
NotesSequence ==
    /\ InSeq /\ ctl.op = "return" /\ (ctl.ret = "TERMINAL" => Top.td)
    /\ TopSet(Top.i, MoreCritical(Top.ret, ctl.ret), Top.skip) /\ ctl' = Loop
    /\ Quiet /\ Flags

LeavesGroup ==
    /\ InGrp /\ ctl.op = "return" /\ Top.i = 1 /\ ctl.ret = "TERMINAL"
    /\ Popped /\ ctl' = ctl /\ Quiet /\ Flags

EntersGroup ==
    /\ InGrp /\ ctl.op = "return" /\ Top.i = 1 /\ ctl.ret = "CONTINUE"
    /\ TopSet(1, Top.ret, Top.skip \/ IsFail(Top.sub)) /\ ctl' = Loop
    /\ Quiet /\ Flags

NotesMain ==
    /\ InGrp /\ ctl.op = "return" /\ Top.i = 2
    /\ TopSet(2, ctl.ret, Top.skip) /\ ctl' = Loop
    /\ Quiet /\ Flags

EndsGroup ==
    /\ InGrp /\ ctl.op = "return" /\ Top.i = 3
    /\ Popped /\ ctl' = Return(MoreCritical(Top.ret, ctl.ret))
    /\ Quiet /\ Flags

EndsWalk ==
    /\ Len(stack) = 0 /\ stack' = stack /\ Quiet /\ Flags
    /\ \/ ctl.op = "return" /\ ctl'.op = "finish"
       \/ ctl.op = "finish" /\ ctl'.op = "done"

Stays == UNCHANGED <<stack, ctl>> /\ Quiet /\ (abort => abort') /\ (fullAbort => fullAbort')
         /\ (fullAbort' => abort')

LEMMA Acts ==
  ASSUME TypeOK, ControlInv, [Next]_vars, fullAbort => abort
  PROVE  \/ Enters \/ Starts \/ PassesBranch \/ SkipPhase \/ FinishPhase \/ ExecuteCheckpoint
         \/ (\E r \in Rets : EndsSequence(r)) \/ StepsSequence \/ NotesSequence
         \/ StepsGroup \/ LeavesGroup \/ EntersGroup \/ NotesMain \/ EndsGroup
         \/ EndsWalk \/ Stays
<1> USE DEF Quiet, Flags, SameData
<1>1. tree' = tree /\ Moves
  BY Walk
<1>2. CASE UNCHANGED vars \/ Abort \/ Done
  BY <1>2 DEF vars, Abort, Done, walkVars, recordVars, abortVars, Stays, TypeOK
<1>3. CASE ExecuteSequence \/ ExecuteSubtest \/ ExecutePhaseGroup
  <2>1. UNCHANGED <<lastOutcome, abort, fullAbort>> /\ ctl.op = "call" /\ ctl'.op = "loop"
        /\ Kind(ctl.node) \in SequenceKinds \cup {"group"} /\ Kind(ctl.node) # "branch"
    BY <1>3 DEF ExecuteSequence, ExecuteSubtest, ExecutePhaseGroup, recordVars, abortVars, Calling,
                SequenceKinds, Push, Loop
  <2>2. EnterMove
    BY <2>1, <1>1 DEF Moves, LeafMove, RunMove, LeaveMove, StepMove, NoteMove, EndMove, StayMove,
       SequenceKinds
  <2>3. QED
    BY <2>1, <2>2 DEF Enters
<1>4. CASE ExecutePhaseBranch
  <2>1. UNCHANGED <<ends, phases, subtest, lastOutcome, abort, fullAbort>> /\ ctl.op = "call"
        /\ Kind(ctl.node) = "branch"
    BY <1>4 DEF ExecutePhaseBranch, abortVars, Calling
  <2>2. CASE ctl'.op = "loop"
    <3>1. EnterMove
      BY <2>1, <2>2, <1>1 DEF Moves, LeafMove, RunMove, LeaveMove, StepMove, NoteMove, EndMove, StayMove
    <3>2. QED
      BY <2>1, <3>1 DEF Enters
  <2>3. CASE ctl'.op # "loop"
    BY <1>4, <2>1, <2>3 DEF ExecutePhaseBranch, PassesBranch, Push, Loop
  <2>4. QED
    BY <2>2, <2>3
<1>5. CASE AbortableSequence \/ TeardownSequence \/ ReturnToSequence
  <2>1. UNCHANGED <<ends, phases, lastOutcome, abort, fullAbort>> /\ InSequence
    BY <1>5 DEF AbortableSequence, TeardownSequence, ReturnToSequence, abortVars
  <2>2. InSeq /\ Len(stack) > 0 /\ Top.ret \in Rets /\ Top.td \in BOOLEAN /\ Top = stack[Len(stack)]
    BY <2>1, StackFacts, TopFacts DEF InSequence, InSeq
  <2>3. ASSUME NEW r \in Rets, FinishSequence(r),
               \/ ctl.op = "loop" /\ AtEnd /\ ~Top.td /\ r = "CONTINUE"
               \/ ctl.op = "loop" /\ AtEnd /\ Top.td /\ r = Top.ret
               \/ ctl.op = "loop" /\ ~Top.td /\ abort /\ r = "TERMINAL"
               \/ ctl.op = "loop" /\ Top.td /\ fullAbort /\ r = "TERMINAL"
               \/ ctl.op = "return" /\ ctl.ret = "TERMINAL" /\ ~Top.td /\ r = "TERMINAL"
        PROVE  EndsSequence(r)
    BY <2>1, <2>2, <2>3, <1>1, FinishSequenceFacts DEF EndsSequence
  <2>4. ASSUME ~AtEnd, NextNode(Top.td), ctl.op = "loop", IF Top.td THEN ~fullAbort ELSE ~abort
        PROVE  StepsSequence
    BY <2>1, <2>2, <2>4, <1>1, NextNodeFacts DEF StepsSequence
  <2>5. CASE AbortableSequence
    <3>1. ctl.op = "loop" /\ Top.td = FALSE /\ ~Top.td
      BY <2>2, <2>5 DEF AbortableSequence
    <3>2. CASE AtEnd /\ FinishSequence("CONTINUE")
      BY <3>1, <3>2, <2>3 DEF Rets
    <3>3. CASE abort /\ FinishSequence("TERMINAL")
      BY <3>1, <3>3, <2>3 DEF Rets
    <3>4. CASE ~AtEnd /\ ~abort /\ NextNode(FALSE)
      BY <3>1, <3>4, <2>4
    <3>5. QED
      BY <2>5, <3>2, <3>3, <3>4 DEF AbortableSequence
  <2>6. CASE TeardownSequence
    <3>1. ctl.op = "loop" /\ Top.td = TRUE /\ Top.td
      BY <2>2, <2>6 DEF TeardownSequence
    <3>2. CASE AtEnd /\ FinishSequence(Top.ret)
      BY <3>1, <3>2, <2>2, <2>3
    <3>3. CASE fullAbort /\ FinishSequence("TERMINAL")
      BY <3>1, <3>3, <2>3 DEF Rets
    <3>4. CASE ~AtEnd /\ ~fullAbort /\ NextNode(TRUE)
      BY <3>1, <3>4, <2>4
    <3>5. QED
      BY <2>6, <3>2, <3>3, <3>4 DEF TeardownSequence
  <2>7. CASE ReturnToSequence
    <3>1. ctl.op = "return"
      BY <2>7 DEF ReturnToSequence
    <3>2. CASE ~Top.td /\ ctl.ret = "TERMINAL"
      <4>1. FinishSequence("TERMINAL")
        BY <2>7, <3>2 DEF ReturnToSequence
      <4>2. QED
        BY <4>1, <3>1, <3>2, <2>3 DEF Rets
    <3>3. CASE ~(~Top.td /\ ctl.ret = "TERMINAL")
      <4>1. stack' = [stack EXCEPT ![Len(stack)].ret = MoreCritical(Top.ret, ctl.ret)] /\ ctl' = Loop
            /\ UNCHANGED <<subtest, records>>
        BY <2>2, <2>7, <3>3 DEF ReturnToSequence
      <4>2. MoreCritical(Top.ret, ctl.ret) \in Rets
        BY DEF MoreCritical, Rets
      <4>3. TopSet(Top.i, MoreCritical(Top.ret, ctl.ret), Top.skip)
        BY <4>1, <4>2, <2>2, <1>1, TopSetFacts
      <4>4. QED
        BY <4>1, <4>3, <3>1, <3>3, <2>1, <2>2 DEF NotesSequence
    <3>4. QED
      BY <3>2, <3>3
  <2>8. QED
    BY <1>5, <2>5, <2>6, <2>7
<1>6. CASE GroupSequence
  <2>1. Quiet /\ Flags /\ ctl.op = "loop" /\ InGroup
    BY <1>6 DEF GroupSequence, recordVars, abortVars
  <2>2. InGrp /\ Len(stack) > 0 /\ Kind(Top.node) = "group" /\ Top.i < 3
    BY <2>1, StackFacts DEF InGroup, InGrp, ControlInv
  <2>3. ctl' # ctl /\ ctl'.op # "loop" /\ Len(stack') = Len(stack) /\ stack' # <<>>
    <3>1. ctl'.op \in {"return", "call"}
      BY <1>6 DEF GroupSequence, Return, Call
    <3>2. stack' = [stack EXCEPT ![Len(stack)].i = Top.i + 1]
      BY <1>6 DEF GroupSequence
    <3>3. Len(stack') = Len(stack)
      BY <3>2, <2>2 DEF TypeOK
    <3>4. QED
      BY <2>1, <2>2, <3>1, <3>3
  <2>4. StepMove
    BY <2>1, <2>2, <2>3, <1>1, StackFacts DEF Moves, EnterMove, LeafMove, RunMove, LeaveMove, Popped, NoteMove,
       EndMove, StayMove, Calls
  <2>5. QED
    BY <2>1, <2>2, <2>4 DEF StepsGroup
<1>7. CASE ReturnToGroup
  <2>1. Quiet /\ Flags /\ ctl.op = "return" /\ InGroup
    BY <1>7 DEF ReturnToGroup, recordVars, abortVars
  <2>2. InGrp /\ Len(stack) > 0 /\ Top = stack[Len(stack)] /\ ctl.ret \in Rets
        /\ Top.ret \in Rets /\ Top.skip \in BOOLEAN /\ Top.i \in Nat
    BY <2>1, StackFacts, TopFacts, ControlFacts DEF InGroup, InGrp, TypeOK
  <2>3. CASE Top.i = 1 /\ ctl.ret = "TERMINAL" /\ stack' = Below /\ UNCHANGED ctl
    BY <2>1, <2>2, <2>3, <1>1, PopFacts DEF LeavesGroup
  <2>4. CASE /\ Top.i = 1 /\ ctl.ret = "CONTINUE" /\ ctl' = Loop
             /\ stack' = [stack EXCEPT ![Len(stack)].skip = @ \/ IsFail(Top.sub)]
    <3> DEFINE b == Top.skip \/ IsFail(Top.sub)
    <3>1. b \in BOOLEAN
      BY <2>2 DEF IsFail
    <3>2. stack' = [stack EXCEPT ![Len(stack)].skip = b]
      BY <2>2, <2>4
    <3> HIDE DEF b
    <3>3. TopSet(Top.i, Top.ret, b)
      BY <3>1, <3>2, <2>2, <1>1, TopSetFacts
    <3>4. TopSet(1, Top.ret, b)
      BY <3>3, <2>4
    <3>5. EntersGroup
      BY <3>4, <2>1, <2>2, <2>4 DEF EntersGroup, b
    <3>6. QED
      BY <3>5
  <2>5. CASE Top.i = 2 /\ ctl' = Loop /\ stack' = [stack EXCEPT ![Len(stack)].ret = ctl.ret]
    <3>1. TopSet(Top.i, ctl.ret, Top.skip)
      BY <2>2, <2>5, <1>1, TopSetFacts
    <3>2. TopSet(2, ctl.ret, Top.skip)
      BY <3>1, <2>5
    <3>3. QED
      BY <3>2, <2>1, <2>2, <2>5 DEF NotesMain
  <2>6. CASE Top.i = 3 /\ stack' = Below /\ ctl' = Return(MoreCritical(Top.ret, ctl.ret))
    BY <2>1, <2>2, <2>6, <1>1, PopFacts DEF EndsGroup
  <2>7. QED
    BY <1>7, <2>3, <2>4, <2>5, <2>6 DEF ReturnToGroup
<1>8. CASE StartPhase
  <2>1. SameData /\ UNCHANGED <<stack, lastOutcome, abort, fullAbort>> /\ ctl.op = "call"
        /\ Kind(ctl.node) = "phase" /\ (ctl.td \/ ~IsFail(ctl.sub)) /\ ctl' = [ctl EXCEPT !.op = "run"]
    BY <1>8 DEF StartPhase, recordVars, abortVars, Calling
  <2>2. QED
    BY <2>1, <1>8 DEF Starts, RunMove
<1>9. CASE WalkReturns \/ FinalizeTest
  <2>1. Quiet /\ Flags /\ stack' = stack
        /\ \/ ctl.op = "return" /\ stack = <<>> /\ ctl'.op = "finish"
           \/ ctl.op = "finish" /\ ctl'.op = "done"
    BY <1>9 DEF WalkReturns, FinalizeTest, recordVars, abortVars
  <2>2. Len(stack) = 0
    BY <2>1 DEF ControlInv
  <2>3. QED
    BY <2>1, <2>2 DEF EndsWalk
<1>10. QED
  BY <1>2, <1>3, <1>4, <1>5, <1>6, <1>7, <1>8, <1>9 DEF Next

-----------------------------------------------------------------------------
(* What the ends of phases and checkpoints have in common. *)

Good == {"PASS", "FAIL", "SKIP", "DECLINED"}
FailsNext(s) == s # 0 /\ subtest'[s] = "FAIL"

(* What such an end records, and when it is terminal or fails its subtest. *)
LeafRecords ==
    /\ Len(phases') \in Nat /\ Len(phases) <= Len(phases') /\ \A k \in 1..Len(phases) : phases'[k] = phases[k]
    /\ Kind(ctl.node) = "phase" =>
         /\ records'[ctl.node] = records[ctl.node]
         /\ ends'[ctl.node] \in DOMAIN Recorded =>
              \E k \in 1..Len(phases') : phases'[k].outcome = Recorded[ends'[ctl.node]]
         /\ IsTerminal(ends'[ctl.node]) => ctl'.ret = "TERMINAL"
         /\ ends'[ctl.node] = "SKIPPED" => IsFail(ctl.sub)
    /\ Kind(ctl.node) = "checkpoint" =>
         /\ records'[ctl.node] \in {"SKIP", "CONTINUE", "FAIL_SUBTEST", "STOP", "EXC"}
         /\ records'[ctl.node] \in {"STOP", "EXC"} => ctl'.ret = "TERMINAL"
         /\ records'[ctl.node] \in {"SKIP", "FAIL_SUBTEST"} => FailsNext(ctl.sub)
    /\ Kind(ctl.node) = "branch" =>
         records'[ctl.node] = "NOT_TAKEN" \/ (records'[ctl.node] = records[ctl.node] /\ IsFail(ctl.sub))

(* A phase, a checkpoint or a branch comes to its end. *)
Leaf ==
    /\ Calls /\ Kind(ctl.node) \in {"phase", "checkpoint", "branch"}
    /\ ctl.node \in Nodes /\ ctl.sub \in {0} \cup Nodes
    /\ stack' = stack /\ ctl'.op = "return" /\ ctl'.ret \in Rets
    /\ \A m \in Nodes : m # ctl.node => ends'[m] = ends[m] /\ records'[m] = records[m]
    /\ \A m \in Nodes : subtest'[m] = subtest[m] \/ (m = ctl.sub /\ subtest'[m] = "FAIL")
    /\ lastOutcome' = lastOutcome \/ (ctl'.ret = "TERMINAL" /\ IsTerminal(lastOutcome'))
    /\ ctl'.ret = "TERMINAL" => lastOutcome' # "NONE"
    /\ Kind(ctl.node) # "phase" => ends'[ctl.node] = ends[ctl.node]
    /\ Kind(ctl.node) = "phase" =>
         /\ ctl.op = "call" => ends'[ctl.node] = "SKIPPED" /\ ~ctl.td
         /\ ctl.op = "run" => ends'[ctl.node] \notin {"NONE", "SKIPPED"}
         /\ ctl'.ret = "CONTINUE" => ends'[ctl.node] \in Good \/ FailsNext(ctl.sub)
    /\ LeafRecords /\ Flags

(* The index error of stop_on_first_failure. *)
Crash ==
    /\ ctl.op = "run" /\ StopOnFirstFailure /\ Len(stack') = 0 /\ ctl'.op = "finish"
    /\ ctl.node \in Nodes
    /\ \A m \in Nodes : m # ctl.node => ends'[m] = ends[m]
    /\ \/ ends'[ctl.node] = "DECLINED" /\ "DECLINED" \in Results
       \/ ends'[ctl.node] = "CANCELLED" /\ (abort \/ fullAbort)
    /\ phases' = phases /\ phases = <<>>
    /\ UNCHANGED <<subtest, records, lastOutcome>> /\ Flags

Steps ==
    \/ Enters \/ Starts \/ Leaf \/ Crash
    \/ (\E r \in Rets : EndsSequence(r)) \/ StepsSequence \/ NotesSequence
    \/ StepsGroup \/ LeavesGroup \/ EntersGroup \/ NotesMain \/ EndsGroup
    \/ EndsWalk \/ Stays

LEMMA AppendFacts ==
  ASSUME TypeOK, NEW x, phases' = Append(phases, x)
  PROVE  /\ Len(phases') \in Nat /\ Len(phases') = Len(phases) + 1 /\ Len(phases) <= Len(phases')
         /\ \A k \in 1..Len(phases) : phases'[k] = phases[k]
         /\ Len(phases') \in 1..Len(phases') /\ phases'[Len(phases')] = x
<1>1. phases \in PhasesType
  BY DEF TypeOK, PhasesType
<1>2. \A S : \A s \in Seq(S) : /\ Len(Append(s, x)) = Len(s) + 1 /\ Len(s) \in Nat
                              /\ \A k \in 1..Len(s) : Append(s, x)[k] = s[k]
                              /\ Append(s, x)[Len(s) + 1] = x
  OBVIOUS
<1>3. /\ Len(phases') = Len(phases) + 1 /\ Len(phases) \in Nat
      /\ \A k \in 1..Len(phases) : phases'[k] = phases[k]
      /\ phases'[Len(phases) + 1] = x
  BY <1>1, <1>2 DEF PhasesType
<1>4. QED
  BY <1>3

LEMMA FinishPhaseLeaf ==
  ASSUME TypeOK, ControlInv, FinishPhase
  PROVE  Leaf \/ Crash
<1>1. /\ ctl.op = "run" /\ ctl.node \in Nodes /\ ctl.sub \in {0} \cup Nodes /\ Calls
      /\ Kind(ctl.node) = "phase"
      /\ UNCHANGED <<records, abort, fullAbort>>
  BY FinishPhaseFacts DEF Calls, ControlInv
<1>2. PICK e \in Ends(ctl.sub) :
         /\ ends' = [ends EXCEPT ![ctl.node] = e]
         /\ e \in DOMAIN Recorded =>
              phases' = Append(phases, [sub |-> ctl.sub, outcome |-> Recorded[e]])
         /\ e \notin DOMAIN Recorded => phases' = phases
         /\ \/ /\ StopOnFirstFailure /\ phases' = <<>> /\ ctl' = [op |-> "finish"] /\ stack' = <<>>
               /\ UNCHANGED <<subtest, lastOutcome>>
            \/ /\ stack' = stack
               /\ \/ Apply(e, ctl.sub)
                  \/ StopOnFirstFailure /\ Apply("STOP", ctl.sub)
  BY FinishPhaseFacts
<1>3. e \in PhaseEnds \ {"SKIPPED"} /\ e # "NONE" /\ (e = "FAIL_SUBTEST" => ctl.sub # 0)
  <2>1. e \in PhaseEnds \ {"SKIPPED"} /\ (e = "FAIL_SUBTEST" => ctl.sub # 0)
    BY EndsFacts
  <2>2. QED
    BY <2>1, RecordedFacts DEF PhaseEnds
<1>4. /\ \A m \in Nodes : m # ctl.node => ends'[m] = ends[m] /\ records'[m] = records[m]
      /\ ends'[ctl.node] = e
  BY <1>1, <1>2 DEF TypeOK
<1>5. CASE StopOnFirstFailure /\ phases' = <<>> /\ ctl' = [op |-> "finish"] /\ stack' = <<>>
           /\ UNCHANGED <<subtest, lastOutcome>>
  <2>1. e \notin DOMAIN Recorded
    <3>1. SUFFICES ASSUME e \in DOMAIN Recorded PROVE FALSE
      OBVIOUS
    <3>2. phases \in PhasesType
      BY DEF TypeOK, PhasesType
    <3>3. Len(Append(phases, [sub |-> ctl.sub, outcome |-> Recorded[e]])) = Len(phases) + 1
          /\ Len(phases) \in Nat
      BY <3>2 DEF PhasesType
    <3>4. Len(phases') = 0
      BY <1>5
    <3>5. QED
      BY <3>1, <3>3, <3>4, <1>2
  <2>2. \/ e = "DECLINED" /\ "DECLINED" \in Results
        \/ e = "CANCELLED" /\ (abort \/ fullAbort)
    <3>1. e \in {"DECLINED", "CANCELLED"}
      BY <2>1, <1>3 DEF PhaseEnds
    <3>2. QED
      BY <3>1, EndsFacts
  <2>3. Len(stack') = 0 /\ ctl'.op = "finish" /\ phases' = phases /\ phases = <<>>
    BY <1>2, <1>5, <2>1
  <2>4. Crash
    BY <2>2, <2>3, <1>1, <1>4, <1>5 DEF Crash, Flags
  <2>5. QED
    BY <2>4
<1>6. ASSUME NEW a \in PhaseEnds, a = e \/ a = "STOP", stack' = stack, Apply(a, ctl.sub)
      PROVE  Leaf
  <2>1. a = "FAIL_SUBTEST" => ctl.sub # 0
    BY <1>3, <1>6
  <2>2. /\ subtest' \in [Nodes -> SubtestOutcomes]
        /\ lastOutcome' \in PhaseEnds \cup {"NONE"}
        /\ ctl'.op = "return" /\ ctl'.ret = IF IsTerminal(a) THEN "TERMINAL" ELSE "CONTINUE"
        /\ \A m \in Nodes : m # ctl.sub => subtest'[m] = subtest[m]
        /\ ctl.sub # 0 => subtest'[ctl.sub] = IF a = "FAIL_SUBTEST" THEN "FAIL" ELSE subtest[ctl.sub]
        /\ lastOutcome' = IF IsTerminal(a) /\ lastOutcome = "NONE" THEN a ELSE lastOutcome
    BY <2>1, <1>1, <1>6, ApplyFacts
  <2>3. \A m \in Nodes : subtest'[m] = subtest[m] \/ (m = ctl.sub /\ subtest'[m] = "FAIL")
    <3>1. \A m \in Nodes : m # 0
      BY TreeFacts DEF TypeOK
    <3>2. QED
      BY <2>2, <3>1
  <2>4. /\ lastOutcome' = lastOutcome \/ (ctl'.ret = "TERMINAL" /\ IsTerminal(lastOutcome'))
        /\ ctl'.ret = "TERMINAL" => lastOutcome' # "NONE"
        /\ ctl'.ret \in Rets
    BY <2>2 DEF Rets, IsTerminal
  <2>5. ctl'.ret = "CONTINUE" => e \in Good \/ FailsNext(ctl.sub)
    <3>1. SUFFICES ASSUME ctl'.ret = "CONTINUE" PROVE e \in Good \/ FailsNext(ctl.sub)
      OBVIOUS
    <3>2. ~IsTerminal(a) /\ a # "STOP" /\ a = e
      BY <2>2, <3>1, <1>6 DEF IsTerminal
    <3>3. e \in {"PASS", "FAIL", "SKIP", "DECLINED", "FAIL_SUBTEST"}
      BY <3>2, <1>3, RecordedFacts DEF IsTerminal, PhaseEnds
    <3>4. QED
      BY <3>2, <3>3, <2>1, <2>2 DEF Good, FailsNext
  <2>6. LeafRecords
    <3>1. Len(phases') \in Nat /\ Len(phases) <= Len(phases') /\ \A k \in 1..Len(phases) : phases'[k] = phases[k]
      <4>1. CASE e \in DOMAIN Recorded
        BY <4>1, <1>2, AppendFacts
      <4>2. CASE e \notin DOMAIN Recorded
        <5>1. phases \in PhasesType
          BY DEF TypeOK, PhasesType
        <5>2. Len(phases) \in Nat
          BY <5>1 DEF PhasesType
        <5>3. QED
          BY <4>2, <5>2, <1>2
      <4>3. QED
        BY <4>1, <4>2
    <3>2. e \in DOMAIN Recorded => \E k \in 1..Len(phases') : phases'[k].outcome = Recorded[e]
      <4>1. SUFFICES ASSUME e \in DOMAIN Recorded
                     PROVE  \E k \in 1..Len(phases') : phases'[k].outcome = Recorded[e]
        OBVIOUS
      <4>2. phases' = Append(phases, [sub |-> ctl.sub, outcome |-> Recorded[e]])
        BY <4>1, <1>2
      <4>3. Len(phases') \in 1..Len(phases')
            /\ phases'[Len(phases')] = [sub |-> ctl.sub, outcome |-> Recorded[e]]
        BY <4>2, AppendFacts
      <4>4. QED
        BY <4>3
    <3>3. IsTerminal(e) => ctl'.ret = "TERMINAL"
      BY <2>2, <1>6 DEF IsTerminal
    <3>4. e # "SKIPPED"
      BY <1>3
    <3>5. QED
      BY <3>1, <3>2, <3>3, <3>4, <1>1, <1>4 DEF LeafRecords
  <2>7. QED
    BY <2>2, <2>3, <2>4, <2>5, <2>6, <1>1, <1>3, <1>4, <1>6 DEF Leaf, Flags
<1>7. e \in PhaseEnds /\ "STOP" \in PhaseEnds
  BY <1>3, RecordedFacts DEF PhaseEnds
<1>8. QED
  BY <1>2, <1>5, <1>6, <1>7

LEMMA PhasesLength ==
  ASSUME TypeOK, phases' = phases
  PROVE  Len(phases') \in Nat /\ Len(phases) <= Len(phases') /\ \A k \in 1..Len(phases) : phases'[k] = phases[k]
<1>1. phases \in PhasesType
  BY DEF TypeOK, PhasesType
<1>2. Len(phases) \in Nat
  BY <1>1 DEF PhasesType
<1>3. QED
  BY <1>2

LEMMA CheckpointLeaf ==
  ASSUME TypeOK, ExecuteCheckpoint
  PROVE  Leaf
<1>1. /\ ctl.op = "call" /\ Kind(ctl.node) = "checkpoint" /\ ctl.node \in Nodes /\ ctl.sub \in {0} \cup Nodes
      /\ UNCHANGED <<stack, ends, phases, abort, fullAbort>> /\ Calls
  BY CheckpointFacts DEF Calls
<1>2. CASE /\ IsFail(ctl.sub)
           /\ records' = [records EXCEPT ![ctl.node] = "SKIP"]
           /\ ctl' = Return("CONTINUE") /\ UNCHANGED <<subtest, lastOutcome>>
  <2>1. ctl'.op = "return" /\ ctl'.ret = "CONTINUE" /\ ctl'.ret \in Rets
    BY <1>2 DEF Return, Rets
  <2>2. records'[ctl.node] = "SKIP" /\ \A m \in Nodes : m # ctl.node => records'[m] = records[m]
    BY <1>1, <1>2 DEF TypeOK
  <2>3. LeafRecords
    BY <1>1, <1>2, <2>2, PhasesLength DEF LeafRecords, IsFail, FailsNext
  <2>4. QED
    BY <1>1, <1>2, <2>1, <2>2, <2>3 DEF Leaf, Flags
<1>3. CASE \E e \in {"CONTINUE", "STOP", "FAIL_SUBTEST", "EXC"} :
                 /\ e = "FAIL_SUBTEST" => ctl.sub # 0
                 /\ records' = [records EXCEPT ![ctl.node] = e]
                 /\ Apply(e, ctl.sub)
  <2>1. PICK e \in {"CONTINUE", "STOP", "FAIL_SUBTEST", "EXC"} :
                 /\ e = "FAIL_SUBTEST" => ctl.sub # 0
                 /\ records' = [records EXCEPT ![ctl.node] = e]
                 /\ Apply(e, ctl.sub)
    BY <1>3
  <2>2. e \in PhaseEnds \cup {"CONTINUE"}
    BY RecordedFacts DEF PhaseEnds
  <2>3. /\ ctl'.op = "return" /\ ctl'.ret = IF IsTerminal(e) THEN "TERMINAL" ELSE "CONTINUE"
        /\ \A m \in Nodes : m # ctl.sub => subtest'[m] = subtest[m]
        /\ ctl.sub # 0 => subtest'[ctl.sub] = IF e = "FAIL_SUBTEST" THEN "FAIL" ELSE subtest[ctl.sub]
        /\ lastOutcome' = IF IsTerminal(e) /\ lastOutcome = "NONE" THEN e ELSE lastOutcome
    BY <2>1, <2>2, <1>1, ApplyFacts
  <2>4. \A m \in Nodes : subtest'[m] = subtest[m] \/ (m = ctl.sub /\ subtest'[m] = "FAIL")
    <3>1. \A m \in Nodes : m # 0
      BY TreeFacts DEF TypeOK
    <3>2. QED
      BY <2>3, <3>1
  <2>5. records'[ctl.node] = e /\ \A m \in Nodes : m # ctl.node => records'[m] = records[m]
    BY <1>1, <2>1 DEF TypeOK
  <2>6. /\ lastOutcome' = lastOutcome \/ (ctl'.ret = "TERMINAL" /\ IsTerminal(lastOutcome'))
        /\ ctl'.ret = "TERMINAL" => lastOutcome' # "NONE"
        /\ ctl'.ret \in Rets
    BY <2>3 DEF Rets, IsTerminal
  <2>7. LeafRecords
    <3>1. e \in {"STOP", "EXC"} => ctl'.ret = "TERMINAL"
      BY <2>3 DEF IsTerminal
    <3>2. e = "FAIL_SUBTEST" => FailsNext(ctl.sub)
      BY <2>1, <2>3 DEF FailsNext
    <3>3. QED
      BY <3>1, <3>2, <1>1, <2>1, <2>5, PhasesLength DEF LeafRecords
  <2>8. QED
    BY <1>1, <2>3, <2>4, <2>5, <2>6, <2>7 DEF Leaf, Flags
<1>4. QED
  BY <1>2, <1>3, CheckpointFacts

LEMMA StepsFacts ==
  ASSUME TypeOK, ControlInv, [Next]_vars, fullAbort => abort
  PROVE  tree' = tree /\ Steps
<1>1. tree' = tree
  BY Walk
<1>2. CASE SkipPhase
  <2>1. /\ ctl.op = "call" /\ Calls /\ Kind(ctl.node) = "phase" /\ IsFail(ctl.sub) /\ ~ctl.td
        /\ ends' = [ends EXCEPT ![ctl.node] = "SKIPPED"] /\ ctl' = Return("CONTINUE")
        /\ UNCHANGED <<stack, subtest, records, lastOutcome, abort, fullAbort>>
    BY <1>2 DEF SkipPhase, Calling, Calls, abortVars
  <2>2. ctl.node \in Nodes /\ ctl.sub \in {0} \cup Nodes
    BY <2>1, ControlFacts DEF TypeOK
  <2>3. ctl'.op = "return" /\ ctl'.ret = "CONTINUE" /\ ctl'.ret \in Rets
    BY <2>1 DEF Return, Rets
  <2>4. ends'[ctl.node] = "SKIPPED" /\ \A m \in Nodes : m # ctl.node => ends'[m] = ends[m]
    BY <2>1, <2>2 DEF TypeOK
  <2>5. LeafRecords
    <3>1. phases' = Append(phases, [sub |-> ctl.sub, outcome |-> Recorded["SKIPPED"]])
      BY <1>2 DEF SkipPhase
    <3>2. /\ Len(phases') \in Nat /\ Len(phases) <= Len(phases') /\ \A k \in 1..Len(phases) : phases'[k] = phases[k]
          /\ Len(phases') \in 1..Len(phases')
          /\ phases'[Len(phases')] = [sub |-> ctl.sub, outcome |-> Recorded["SKIPPED"]]
      BY <3>1, AppendFacts
    <3>3. phases'[Len(phases')].outcome = Recorded[ends'[ctl.node]] /\ ~IsTerminal(ends'[ctl.node])
      BY <3>2, <2>4 DEF IsTerminal
    <3>4. QED
      BY <2>1, <3>2, <3>3 DEF LeafRecords
  <2>6. Leaf
    BY <2>1, <2>2, <2>3, <2>4, <2>5 DEF Leaf, Flags, IsFail, FailsNext
  <2>7. QED
    BY <1>1, <2>6 DEF Steps
<1>3. CASE FinishPhase \/ ExecuteCheckpoint
  BY <1>1, <1>3, FinishPhaseLeaf, CheckpointLeaf DEF Steps
<1>4. CASE PassesBranch
  <2>1. /\ ctl.op = "call" /\ Calls /\ Kind(ctl.node) = "branch" /\ ctl' = Return("CONTINUE")
        /\ UNCHANGED <<stack, ends, phases, subtest, lastOutcome, abort, fullAbort>>
        /\ (IsFail(ctl.sub) /\ UNCHANGED records) \/ records' = [records EXCEPT ![ctl.node] = "NOT_TAKEN"]
    BY <1>4 DEF PassesBranch, Calls, Flags
  <2>2. ctl.node \in Nodes /\ ctl.sub \in {0} \cup Nodes
    BY <2>1, ControlFacts DEF TypeOK
  <2>3. ctl'.op = "return" /\ ctl'.ret = "CONTINUE" /\ ctl'.ret \in Rets
    BY <2>1 DEF Return, Rets
  <2>4. /\ records'[ctl.node] = "NOT_TAKEN" \/ (records'[ctl.node] = records[ctl.node] /\ IsFail(ctl.sub))
        /\ \A m \in Nodes : m # ctl.node => records'[m] = records[m]
    BY <2>1, <2>2 DEF TypeOK
  <2>5. LeafRecords
    BY <2>1, <2>4, PhasesLength DEF LeafRecords
  <2>6. Leaf
    BY <2>1, <2>2, <2>3, <2>4, <2>5 DEF Leaf, Flags
  <2>7. QED
    BY <1>1, <2>6 DEF Steps
<1>5. QED
  BY <1>1, <1>2, <1>3, <1>4, Acts DEF Steps

-----------------------------------------------------------------------------
(* Subtests: what the frames know of the failure of the subtest around them. *)

(* A subtest on the stack has not been stopped; a frame is told of the innermost subtest around
   it, whose failure follows from that of any further out; a group is skipped only in a failed
   subtest, and outside a teardown no phase runs in one. *)
SubtestInv ==
    /\ \A k \in 1..Len(stack) :
         /\ Kind(stack[k].node) = "subtest" => subtest[stack[k].node] \in {"PASS", "FAIL"}
         /\ stack[k].sub # 0 =>
              \E j \in 1..k : stack[j].node = stack[k].sub /\ Kind(stack[j].node) = "subtest"
         /\ stack[k].skip => Kind(stack[k].node) = "group" /\ IsFail(stack[k].sub)
         /\ \A j \in 1..k : /\ stack[j].sub <= stack[k].sub
                            /\ IsFail(stack[j].sub) => IsFail(stack[k].sub)
    /\ ctl.op = "run" /\ ~ctl.td => ~IsFail(ctl.sub)

LEMMA SubtestPrime ==
  ASSUME tree' = tree,
         \A k \in 1..Len(stack') :
           /\ Kind(stack'[k].node) = "subtest" => subtest'[stack'[k].node] \in {"PASS", "FAIL"}
           /\ stack'[k].sub # 0 =>
                \E j \in 1..k : stack'[j].node = stack'[k].sub /\ Kind(stack'[j].node) = "subtest"
           /\ stack'[k].skip => Kind(stack'[k].node) = "group" /\ FailsNext(stack'[k].sub)
           /\ \A j \in 1..k : /\ stack'[j].sub <= stack'[k].sub
                              /\ FailsNext(stack'[j].sub) => FailsNext(stack'[k].sub),
         ctl'.op = "run" /\ ~ctl'.td => ~FailsNext(ctl'.sub)
  PROVE  SubtestInv'
BY DEF SubtestInv, Kind, IsFail, FailsNext

LEMMA OwnSub ==
  ASSUME Shape, NEW k \in 1..Len(stack), Kind(stack[k].node) = "subtest"
  PROVE  stack[k].sub = stack[k].node
<1>1. Len(stack) \in Nat /\ Kind(1) = "sequence"
  BY StackFacts, TreeFacts DEF Shape, TypeOK
<1>2. k # 1
  BY <1>1 DEF Shape, PathInv
<1>3. k \in 2..Len(stack)
  BY <1>1, <1>2
<1>4. QED
  BY <1>3 DEF Shape, PathInv, Own

LEMMA SubtestStep ==
  ASSUME Shape, SubtestInv, tree' = tree, Steps
  PROVE  SubtestInv'
<1> USE DEF Shape
<1>1. /\ Len(stack) \in Nat /\ tree \in Trees /\ \A m \in Nodes : m \in Nat /\ m # 0
      /\ \A k \in 1..Len(stack) : /\ stack[k].node \in Nodes /\ stack[k].sub \in {0} \cup Nodes
                                  /\ stack[k].sub \in Nat
      /\ Len(stack) > 0 => Len(stack) \in 1..Len(stack) /\ Top = stack[Len(stack)]
      /\ subtest \in [Nodes -> SubtestOutcomes]
  BY StackFacts, TreeFacts DEF TypeOK, Top
<1>2. ctl.op = "run" \/ ctl.op = "call" =>
        /\ Calls /\ ctl.node \in Nodes /\ ctl.sub \in {0} \cup Nodes /\ ctl.sub \in Nat
        /\ Len(stack) > 0 => ctl.sub = Top.sub
        /\ Len(stack) = 0 => ctl.sub = 0
  BY <1>1, ControlFacts DEF TypeOK, Calls, ControlInv
(* The stack loses its top or is as it was, but for the skip of the top and counters. *)
<1>3. ASSUME Len(stack') \in Nat, Len(stack') <= Len(stack), ctl'.op # "run" \/ ~(ctl'.op = "run" /\ ~ctl'.td),
             \A k \in 1..Len(stack') :
               /\ stack'[k].node = stack[k].node /\ stack'[k].sub = stack[k].sub
               /\ stack'[k].skip => stack[k].skip \/ (Kind(stack[k].node) = "group" /\ IsFail(stack[k].sub)),
             \A k \in 1..Len(stack') : /\ subtest'[stack[k].node] = subtest[stack[k].node]
                                       /\ FailsNext(stack[k].sub) <=> IsFail(stack[k].sub)
      PROVE  SubtestInv'
  <2>1. ASSUME NEW k \in 1..Len(stack')
        PROVE  /\ Kind(stack'[k].node) = "subtest" => subtest'[stack'[k].node] \in {"PASS", "FAIL"}
               /\ stack'[k].sub # 0 =>
                    \E j \in 1..k : stack'[j].node = stack'[k].sub /\ Kind(stack'[j].node) = "subtest"
               /\ stack'[k].skip => Kind(stack'[k].node) = "group" /\ FailsNext(stack'[k].sub)
               /\ \A j \in 1..k : /\ stack'[j].sub <= stack'[k].sub
                                  /\ FailsNext(stack'[j].sub) => FailsNext(stack'[k].sub)
    <3>1. k \in 1..Len(stack) /\ \A j \in 1..k : j \in 1..Len(stack) /\ j \in 1..Len(stack')
      BY <1>1, <1>3
    <3>2. QED
      BY <3>1, <1>3 DEF SubtestInv
  <2>2. QED
    BY <2>1, <1>3, SubtestPrime
<1>4. CASE Enters
  <2>1. /\ Len(stack') = Len(stack) + 1 /\ \A k \in 1..Len(stack) : stack'[k] = stack[k]
        /\ stack'[Len(stack) + 1].node = ctl.node /\ stack'[Len(stack) + 1].sub = Own(ctl.node, ctl.sub)
        /\ stack'[Len(stack) + 1].skip = (Kind(ctl.node) = "group" /\ IsFail(ctl.sub))
        /\ ctl'.op = "loop" /\ ctl.op = "call"
        /\ \A m \in Nodes : m # ctl.node => subtest'[m] = subtest[m]
        /\ Kind(ctl.node) = "subtest" => subtest'[ctl.node] = IF IsFail(ctl.sub) THEN "FAIL" ELSE "PASS"
        /\ Kind(ctl.node) # "subtest" => subtest' = subtest
    BY <1>1, <1>2, <1>4 DEF Enters, EnterMove, Pushed, Lower, Loop
  <2>2. \A k \in 1..Len(stack) : /\ stack[k].node < ctl.node /\ stack[k].sub < ctl.node
                                 /\ stack[k].sub <= ctl.sub
                                 /\ IsFail(stack[k].sub) => IsFail(ctl.sub)
    BY <2>1, <1>1, <1>2, Called DEF AncestorInv, SubtestInv
  <2>3. \A k \in 1..Len(stack) : /\ subtest'[stack[k].node] = subtest[stack[k].node]
                                 /\ FailsNext(stack[k].sub) <=> IsFail(stack[k].sub)
    BY <2>1, <2>2, <1>1 DEF FailsNext, IsFail
  <2>4. ctl.sub < ctl.node \/ ctl.sub = 0
    BY <2>1, <1>1, <1>2, Called
  <2> DEFINE new == Len(stack) + 1
             s == Own(ctl.node, ctl.sub)
  <2>5. /\ ctl.sub <= s /\ (IsFail(ctl.sub) => FailsNext(s))
    <3>1. CASE Kind(ctl.node) = "subtest"
      BY <3>1, <2>1, <2>4, <1>1, <1>2 DEF Own, FailsNext
    <3>2. CASE Kind(ctl.node) # "subtest"
      BY <3>2, <2>1, <1>2 DEF Own, FailsNext, IsFail
    <3>3. QED
      BY <3>1, <3>2
  <2>6. ASSUME NEW k \in 1..Len(stack'), k = new
        PROVE  /\ Kind(stack'[k].node) = "subtest" => subtest'[stack'[k].node] \in {"PASS", "FAIL"}
               /\ stack'[k].sub # 0 =>
                    \E j \in 1..k : stack'[j].node = stack'[k].sub /\ Kind(stack'[j].node) = "subtest"
               /\ stack'[k].skip => Kind(stack'[k].node) = "group" /\ FailsNext(stack'[k].sub)
               /\ \A j \in 1..k : /\ stack'[j].sub <= stack'[k].sub
                                  /\ FailsNext(stack'[j].sub) => FailsNext(stack'[k].sub)
    <3>1. Kind(stack'[k].node) = "subtest" => subtest'[stack'[k].node] \in {"PASS", "FAIL"}
      BY <2>1, <2>6
    <3>2. stack'[k].sub # 0 =>
             \E j \in 1..k : stack'[j].node = stack'[k].sub /\ Kind(stack'[j].node) = "subtest"
      <4>1. CASE Kind(ctl.node) = "subtest"
        BY <4>1, <2>1, <2>6 DEF Own
      <4>2. CASE Kind(ctl.node) # "subtest"
        <5>1. SUFFICES ASSUME ctl.sub # 0
                       PROVE  \E j \in 1..k : stack'[j].node = ctl.sub /\ Kind(stack'[j].node) = "subtest"
          BY <4>2, <2>1, <2>6 DEF Own
        <5>2. Len(stack) > 0 /\ ctl.sub = Top.sub
          BY <5>1, <2>1, <1>1, <1>2
        <5>3. PICK j \in 1..Len(stack) : stack[j].node = Top.sub /\ Kind(stack[j].node) = "subtest"
          BY <5>1, <5>2, <1>1 DEF SubtestInv
        <5>4. j \in 1..k
          BY <2>6, <1>1
        <5>5. QED
          BY <5>2, <5>3, <5>4, <2>1
      <4>3. QED
        BY <4>1, <4>2
    <3>3. stack'[k].skip => Kind(stack'[k].node) = "group" /\ FailsNext(stack'[k].sub)
      BY <2>1, <2>5, <2>6
    <3>4. ASSUME NEW j \in 1..k
          PROVE  stack'[j].sub <= stack'[k].sub /\ (FailsNext(stack'[j].sub) => FailsNext(stack'[k].sub))
      <4>1. s \in Nat
        BY <1>2, <2>1 , <1>1 DEF Own
      <4>2. CASE j = k
        BY <4>1, <4>2, <2>1, <2>6
      <4>3. CASE j # k
        <5>1. j \in 1..Len(stack) /\ stack'[j] = stack[j]
          BY <4>3, <2>1, <2>6, <1>1
        <5>2. QED
          BY <4>1, <5>1, <2>1, <2>2, <2>3, <2>5, <2>6, <1>1, <1>2
      <4>4. QED
        BY <4>2, <4>3
    <3>5. QED
      BY <3>1, <3>2, <3>3, <3>4
  <2>7. ASSUME NEW k \in 1..Len(stack'), k # new
        PROVE  /\ Kind(stack'[k].node) = "subtest" => subtest'[stack'[k].node] \in {"PASS", "FAIL"}
               /\ stack'[k].sub # 0 =>
                    \E j \in 1..k : stack'[j].node = stack'[k].sub /\ Kind(stack'[j].node) = "subtest"
               /\ stack'[k].skip => Kind(stack'[k].node) = "group" /\ FailsNext(stack'[k].sub)
               /\ \A j \in 1..k : /\ stack'[j].sub <= stack'[k].sub
                                  /\ FailsNext(stack'[j].sub) => FailsNext(stack'[k].sub)
    <3>1. k \in 1..Len(stack) /\ \A j \in 1..k : j \in 1..Len(stack)
      BY <2>1, <2>7, <1>1
    <3>2. QED
      BY <3>1, <2>1, <2>3 DEF SubtestInv
  <2> HIDE DEF new, s
  <2>8. QED
    BY <2>1, <2>6, <2>7, SubtestPrime
<1>5. CASE Starts
  <2>1. /\ stack' = stack /\ subtest' = subtest /\ ctl.op = "call" /\ (ctl.td \/ ~IsFail(ctl.sub))
        /\ ctl' = [ctl EXCEPT !.op = "run"]
        /\ ctl = [op |-> ctl.op, node |-> ctl.node, sub |-> ctl.sub, td |-> ctl.td]
    BY <1>5, ControlFacts DEF Starts, RunMove, SameData, TypeOK
  <2>2. ctl'.sub = ctl.sub /\ ctl'.td = ctl.td
    BY <2>1
  <2>3. \A x : FailsNext(x) <=> IsFail(x)
    BY <2>1 DEF FailsNext, IsFail
  <2>4. QED
    BY <2>1, <2>2, <2>3, SubtestPrime DEF SubtestInv
<1>6. CASE Leaf
  <2>1. /\ stack' = stack /\ ctl'.op = "return" /\ Calls
        /\ \A m \in Nodes : subtest'[m] = subtest[m] \/ (m = ctl.sub /\ subtest'[m] = "FAIL")
        /\ Len(stack) > 0 => ctl.sub = Top.sub
    BY <1>6, <1>2 DEF Leaf, Calls
  <2>2. ASSUME NEW k \in 1..Len(stack)
        PROVE  /\ Kind(stack[k].node) = "subtest" => subtest'[stack[k].node] \in {"PASS", "FAIL"}
               /\ stack[k].skip => Kind(stack[k].node) = "group" /\ FailsNext(stack[k].sub)
               /\ \A j \in 1..k : FailsNext(stack[j].sub) => FailsNext(stack[k].sub)
    <3>1. Kind(stack[k].node) = "subtest" => subtest'[stack[k].node] \in {"PASS", "FAIL"}
      BY <2>1, <1>1 DEF SubtestInv
    <3>2. \A x \in {0} \cup Nodes : IsFail(x) => FailsNext(x)
      BY <2>1 DEF IsFail, FailsNext
    <3>3. stack[k].skip => Kind(stack[k].node) = "group" /\ FailsNext(stack[k].sub)
      BY <3>2, <1>1 DEF SubtestInv
    <3>4. ASSUME NEW j \in 1..k, FailsNext(stack[j].sub)
          PROVE  FailsNext(stack[k].sub)
      <4>1. j \in 1..Len(stack) /\ stack[j].sub \in Nodes
        BY <3>4, <1>1 DEF FailsNext
      <4>2. CASE IsFail(stack[j].sub)
        BY <4>2, <3>2, <1>1 DEF SubtestInv
      <4>3. CASE ~IsFail(stack[j].sub)
        <5>1. stack[j].sub = Top.sub
          BY <4>1, <4>3, <3>4, <2>1, <1>1 DEF FailsNext, IsFail
        <5>2. stack[j].sub <= stack[k].sub /\ stack[k].sub <= Top.sub
          BY <1>1 DEF SubtestInv
        <5>3. stack[k].sub = stack[j].sub
          BY <5>1, <5>2, <4>1, <1>1
        <5>4. QED
          BY <5>3, <3>4
      <4>4. QED
        BY <4>2, <4>3
    <3>5. QED
      BY <3>1, <3>3, <3>4
  <2>3. QED
    BY <2>1, <2>2, SubtestPrime DEF SubtestInv
<1>7. CASE Crash
  BY <1>7, SubtestPrime DEF Crash
<1>8. CASE \E r \in Rets : EndsSequence(r)
  <2>1. PICK r \in Rets : EndsSequence(r)
    BY <1>8
  <2>2. /\ Len(stack) > 0 /\ Len(stack') = Len(stack) - 1 /\ \A k \in 1..Len(stack') : stack'[k] = stack[k]
        /\ ctl'.op = "return"
        /\ \A m \in Nodes : m # Top.node => subtest'[m] = subtest[m]
    BY <2>1 DEF EndsSequence, InSeq, Popped, Lower, Return
  <2>3. ASSUME NEW k \in 1..Len(stack')
        PROVE  stack[k].node \in Nodes /\ stack[k].sub \in {0} \cup Nodes
               /\ stack[k].node # Top.node /\ stack[k].sub # Top.node
    <3>1. k \in 1..(Len(stack) - 1) /\ k \in 1..Len(stack)
      BY <2>2, <1>1
    <3>2. stack[k].node < Top.node /\ stack[k].sub <= stack[k].node
      BY <3>1, <2>2, <1>1 DEF AncestorInv
    <3>3. QED
      BY <3>1, <3>2, <2>2, <1>1
  <2>4. \A k \in 1..Len(stack') : /\ subtest'[stack[k].node] = subtest[stack[k].node]
                                  /\ FailsNext(stack[k].sub) <=> IsFail(stack[k].sub)
    BY <2>2, <2>3 DEF FailsNext, IsFail
  <2>5. Len(stack') \in Nat /\ Len(stack') <= Len(stack)
    BY <2>2, <1>1
  <2>6. QED
    BY <2>2, <2>4, <2>5, <1>3
<1>9. CASE LeavesGroup \/ EndsGroup
  <2>1. /\ Len(stack) > 0 /\ Len(stack') = Len(stack) - 1 /\ \A k \in 1..Len(stack') : stack'[k] = stack[k]
        /\ ctl'.op = "return" /\ subtest' = subtest
    BY <1>9 DEF LeavesGroup, EndsGroup, Popped, Lower, Return, Quiet, SameData
  <2>2. \A x : FailsNext(x) <=> IsFail(x)
    BY <2>1 DEF FailsNext, IsFail
  <2>3. Len(stack') \in Nat /\ Len(stack') <= Len(stack)
    BY <2>1, <1>1
  <2>4. QED
    BY <2>1, <2>2, <2>3, <1>3
<1>10. CASE StepsSequence \/ NotesSequence \/ StepsGroup \/ EntersGroup \/ NotesMain
  <2>1. PICK i, ret, skip : /\ TopSet(i, ret, skip)
                            /\ skip => Top.skip \/ (Kind(Top.node) = "group" /\ IsFail(Top.sub))
    <3>1. CASE EntersGroup
      <4> DEFINE b == Top.skip \/ IsFail(Top.sub)
      <4>1. TopSet(1, Top.ret, b) /\ Kind(Top.node) = "group"
        BY <3>1 DEF EntersGroup, InGrp
      <4>2. b => Top.skip \/ (Kind(Top.node) = "group" /\ IsFail(Top.sub))
        BY <4>1
      <4> HIDE DEF b
      <4>3. QED
        BY <4>1, <4>2
    <3>2. CASE ~EntersGroup
      <4>1. \E i, ret : TopSet(i, ret, Top.skip)
        BY <1>10, <3>2 DEF StepsSequence, NotesSequence, StepsGroup, StepMove, NotesMain
      <4>2. QED
        BY <4>1
    <3>3. QED
      BY <3>1, <3>2
  <2>2. ctl'.op # "run" /\ subtest' = subtest
    BY <1>10 DEF StepsSequence, NotesSequence, StepsGroup, StepMove, EntersGroup, NotesMain, Quiet, SameData,
       Loop, Return, Call
  <2>3. \A x : FailsNext(x) <=> IsFail(x)
    BY <2>2 DEF FailsNext, IsFail
  <2>4. /\ Len(stack) > 0 /\ Len(stack') = Len(stack) /\ \A k \in 1..(Len(stack) - 1) : stack'[k] = stack[k]
        /\ stack'[Len(stack)].node = Top.node /\ stack'[Len(stack)].sub = Top.sub
        /\ stack'[Len(stack)].skip = skip
    BY <2>1 DEF TopSet, Lower
  <2>5. \A k \in 1..Len(stack') :
               /\ stack'[k].node = stack[k].node /\ stack'[k].sub = stack[k].sub
               /\ stack'[k].skip => stack[k].skip \/ (Kind(stack[k].node) = "group" /\ IsFail(stack[k].sub))
    BY <2>1, <2>4, <1>1
  <2>6. QED
    BY <2>2, <2>3, <2>4, <2>5, <1>1, <1>3
<1>11. CASE EndsWalk \/ Stays
  <2>1. stack' = stack /\ subtest' = subtest /\ (ctl' = ctl \/ ctl'.op \in {"finish", "done"})
    BY <1>11 DEF EndsWalk, Stays, Quiet, SameData
  <2>2. \A x : FailsNext(x) <=> IsFail(x)
    BY <2>1 DEF FailsNext, IsFail
  <2>3. QED
    BY <2>1, <2>2, SubtestPrime DEF SubtestInv
<1>12. QED
  BY <1>4, <1>5, <1>6, <1>7, <1>8, <1>9, <1>10, <1>11 DEF Steps

-----------------------------------------------------------------------------
(* Aborts and terminal outcomes: what is still carried down the stack. *)

LEMMA EntersFacts ==
  ASSUME Shape, Enters
  PROVE  /\ ctl.op = "call" /\ Calls /\ ctl'.op = "loop" /\ ctl.node \in Nodes
         /\ Kind(ctl.node) \in SequenceKinds \cup {"group"}
         /\ Len(stack) \in Nat /\ Len(stack') = Len(stack) + 1
         /\ \A k \in 1..Len(stack) : stack'[k] = stack[k]
         /\ \A k \in 1..Len(stack') : k \in 1..Len(stack) \/ k = Len(stack) + 1
         /\ stack'[Len(stack) + 1].node = ctl.node
         /\ stack'[Len(stack) + 1].i = 0 /\ stack'[Len(stack) + 1].ret = "CONTINUE"
         /\ stack'[Len(stack) + 1].td = ctl.td
         /\ stack'[Len(stack) + 1].sub = Own(ctl.node, ctl.sub)
         /\ stack'[Len(stack) + 1].skip = (Kind(ctl.node) = "group" /\ IsFail(ctl.sub))
<1>1. Len(stack) \in Nat
  BY StackFacts DEF Shape
<1>2. ctl.op = "call" => ctl.node \in Nodes
  BY ControlFacts DEF Shape, TypeOK
<1>3. QED
  BY <1>1, <1>2 DEF Enters, EnterMove, Pushed, Lower, Loop, Calls

(* All steps but one that enters a collection leave the frames as they are below the top. *)
LEMMA OtherSteps ==
  ASSUME Shape, Steps, ~Enters
  PROVE  /\ Len(stack) \in Nat /\ Len(stack') \in Nat /\ Len(stack') <= Len(stack)
         /\ \A k \in 1..Len(stack') :
              /\ k \in 1..Len(stack)
              /\ stack'[k].node = stack[k].node /\ stack'[k].sub = stack[k].sub
              /\ stack'[k].td = stack[k].td
              /\ k < Len(stack) \/ stack' = stack => stack'[k] = stack[k]
              /\ stack'[k].i \in Nat /\ stack'[k].i >= stack[k].i
<1>1. /\ Len(stack) \in Nat /\ (Len(stack) > 0 => Top = stack[Len(stack)])
      /\ \A k \in 1..Len(stack) : stack[k].i \in Nat /\ stack[k].i >= stack[k].i
  BY StackFacts DEF Shape, Top
<1>2. ASSUME stack' = stack
      PROVE  /\ Len(stack') \in Nat /\ Len(stack') <= Len(stack)
             /\ \A k \in 1..Len(stack') :
                  /\ k \in 1..Len(stack)
                  /\ stack'[k].node = stack[k].node /\ stack'[k].sub = stack[k].sub
                  /\ stack'[k].td = stack[k].td
                  /\ k < Len(stack) \/ stack' = stack => stack'[k] = stack[k]
                  /\ stack'[k].i \in Nat /\ stack'[k].i >= stack[k].i
  BY <1>1, <1>2
<1>3. ASSUME Popped
      PROVE  /\ Len(stack') \in Nat /\ Len(stack') <= Len(stack)
             /\ \A k \in 1..Len(stack') :
                  /\ k \in 1..Len(stack)
                  /\ stack'[k].node = stack[k].node /\ stack'[k].sub = stack[k].sub
                  /\ stack'[k].td = stack[k].td
                  /\ k < Len(stack) \/ stack' = stack => stack'[k] = stack[k]
                  /\ stack'[k].i \in Nat /\ stack'[k].i >= stack[k].i
  BY <1>1, <1>3 DEF Popped, Lower
<1>4. ASSUME NEW i \in {Top.i, Top.i + 1}, NEW ret, NEW skip, TopSet(i, ret, skip)
      PROVE  /\ Len(stack') \in Nat /\ Len(stack') <= Len(stack)
             /\ \A k \in 1..Len(stack') :
                  /\ k \in 1..Len(stack)
                  /\ stack'[k].node = stack[k].node /\ stack'[k].sub = stack[k].sub
                  /\ stack'[k].td = stack[k].td
                  /\ k < Len(stack) \/ stack' = stack => stack'[k] = stack[k]
                  /\ stack'[k].i \in Nat /\ stack'[k].i >= stack[k].i
  <2>1. /\ Len(stack) > 0 /\ Len(stack') = Len(stack) /\ \A k \in 1..(Len(stack) - 1) : stack'[k] = stack[k]
        /\ stack'[Len(stack)].node = Top.node /\ stack'[Len(stack)].sub = Top.sub
        /\ stack'[Len(stack)].td = Top.td /\ stack'[Len(stack)].i = i
    BY <1>4 DEF TopSet, Lower
  <2>2. Top.i \in Nat
    BY <2>1, <1>1
  <2>3. ASSUME NEW k \in 1..Len(stack')
        PROVE  /\ k \in 1..Len(stack)
               /\ stack'[k].node = stack[k].node /\ stack'[k].sub = stack[k].sub
               /\ stack'[k].td = stack[k].td
               /\ k < Len(stack) \/ stack' = stack => stack'[k] = stack[k]
               /\ stack'[k].i \in Nat /\ stack'[k].i >= stack[k].i
    <3>1. CASE k = Len(stack)
      BY <3>1, <2>1, <2>2, <1>1
    <3>2. CASE k # Len(stack)
      <4>1. k \in 1..(Len(stack) - 1) /\ k \in 1..Len(stack)
        BY <3>2, <2>1, <1>1
      <4>2. QED
        BY <4>1, <2>1, <1>1
    <3>3. QED
      BY <3>1, <3>2
  <2>4. QED
    BY <2>1, <2>3, <1>1
<1>5. CASE stack' = stack \/ Len(stack') = 0
  BY <1>1, <1>2, <1>5
<1>6. CASE Popped
  BY <1>1, <1>3, <1>6
<1>7. CASE \E i \in {Top.i, Top.i + 1} : \E ret, skip : TopSet(i, ret, skip)
  BY <1>1, <1>4, <1>7
<1>8. CASE StepsSequence \/ NotesSequence \/ StepsGroup \/ NotesMain
  <2>1. \E i \in {Top.i, Top.i + 1} : \E ret, skip : TopSet(i, ret, skip)
    BY <1>8 DEF StepsSequence, NotesSequence, StepsGroup, StepMove, NotesMain
  <2>2. QED
    BY <2>1, <1>7
<1>9. CASE EntersGroup
  <2> DEFINE b == Top.skip \/ IsFail(Top.sub)
  <2>1. TopSet(Top.i, Top.ret, b)
    BY <1>9 DEF EntersGroup
  <2> HIDE DEF b
  <2>2. QED
    BY <2>1, <1>7
<1>10. QED
  <2>1. stack' = stack \/ Len(stack') = 0 \/ Popped
        \/ StepsSequence \/ NotesSequence \/ StepsGroup \/ NotesMain \/ EntersGroup
    BY DEF Steps, Starts, RunMove, Leaf, Crash, EndsSequence, LeavesGroup, EndsGroup, EndsWalk, Stays
  <2>2. QED
    BY <2>1, <1>5, <1>6, <1>8, <1>9

(* A frame in the teardown way of running is in the third part of a group. *)
TeardownInv ==
    \A k \in 1..Len(stack) : stack[k].td =>
        \E j \in 1..(k - 1) : Kind(stack[j].node) = "group" /\ stack[j].i = 3

LEMMA TeardownPrime ==
  ASSUME tree' = tree,
         \A k \in 1..Len(stack') : stack'[k].td =>
           \E j \in 1..(k - 1) : Kind(stack'[j].node) = "group" /\ stack'[j].i = 3
  PROVE  TeardownInv'
BY DEF TeardownInv, Kind

LEMMA TeardownStep ==
  ASSUME Shape, TeardownInv, tree' = tree, Steps
  PROVE  TeardownInv'
<1>1. CASE Enters
  <2>1. ASSUME NEW k \in 1..Len(stack'), stack'[k].td
        PROVE  \E j \in 1..(k - 1) : Kind(stack'[j].node) = "group" /\ stack'[j].i = 3
    <3>1. CASE k \in 1..Len(stack)
      <4>1. stack'[k] = stack[k] /\ \A j \in 1..(k - 1) : stack'[j] = stack[j]
        BY <3>1, <1>1, EntersFacts
      <4>2. QED
        BY <4>1, <3>1, <2>1 DEF TeardownInv
    <3>2. CASE k = Len(stack) + 1
      <4>1. ctl.td /\ Calls /\ Len(stack) \in Nat
        BY <3>2, <2>1, <1>1, EntersFacts
      <4>2. Len(stack) > 0 /\ Passed(Top) /\ Len(stack) \in 1..Len(stack) /\ Top = stack[Len(stack)]
        <5>1. Len(stack) > 0
          BY <4>1 DEF Shape, ControlInv
        <5>2. ctl.td = Passed(Top)
          BY <5>1, <4>1 DEF Shape, ControlInv
        <5>3. QED
          BY <5>1, <5>2, <4>1 DEF Top
      <4>3. \A j \in 1..Len(stack) : stack'[j] = stack[j] /\ j \in 1..(k - 1)
        BY <3>2, <4>1, <1>1, EntersFacts
      <4>4. CASE Kind(Top.node) = "group" /\ Top.i = 3
        BY <4>2, <4>3, <4>4
      <4>5. CASE ~(Kind(Top.node) = "group" /\ Top.i = 3)
        <5>1. Top.td
          BY <4>2, <4>5 DEF Passed
        <5>2. PICK j \in 1..(Len(stack) - 1) : Kind(stack[j].node) = "group" /\ stack[j].i = 3
          BY <5>1, <4>2 DEF TeardownInv
        <5>3. j \in 1..Len(stack)
          BY <5>2, <4>1
        <5>4. QED
          BY <5>2, <5>3, <4>3
      <4>6. QED
        BY <4>4, <4>5
    <3>3. QED
      BY <3>1, <3>2, <1>1, EntersFacts
  <2>2. QED
    BY <2>1, TeardownPrime
<1>2. CASE ~Enters
  <2>1. ASSUME NEW k \in 1..Len(stack'), stack'[k].td
        PROVE  \E j \in 1..(k - 1) : Kind(stack'[j].node) = "group" /\ stack'[j].i = 3
    <3>1. /\ k \in 1..Len(stack) /\ stack[k].td
          /\ Len(stack') \in Nat /\ Len(stack) \in Nat /\ Len(stack') <= Len(stack)
      BY <2>1, <1>2, OtherSteps
    <3>2. PICK j \in 1..(k - 1) : Kind(stack[j].node) = "group" /\ stack[j].i = 3
      BY <3>1 DEF TeardownInv
    <3>3. j \in 1..Len(stack') /\ j < Len(stack)
      BY <3>1, <3>2
    <3>4. stack'[j] = stack[j]
      BY <3>3, <1>2, OtherSteps
    <3>5. QED
      BY <3>2, <3>4
  <2>2. QED
    BY <2>1, TeardownPrime
<1>3. QED
  BY <1>1, <1>2

(* Where the TERMINAL of a sequence or of a main sequence is remembered. *)
Remembers(k) ==
    \/ Kind(stack[k].node) \in SequenceKinds /\ stack[k].td
    \/ Kind(stack[k].node) = "group" /\ stack[k].i = 3
    \/ Kind(stack[k].node) = "group" /\ stack[k].i = 2 /\ k = Len(stack) /\ ctl.op = "loop"

(* A frame holds a terminal return only where the code goes on with a teardown. *)
ReturnInv == \A k \in 1..Len(stack) : stack[k].ret = "TERMINAL" => Remembers(k)

RemembersNext(k) ==
    \/ Kind(stack'[k].node) \in SequenceKinds /\ stack'[k].td
    \/ Kind(stack'[k].node) = "group" /\ stack'[k].i = 3
    \/ Kind(stack'[k].node) = "group" /\ stack'[k].i = 2 /\ k = Len(stack') /\ ctl'.op = "loop"

LEMMA ReturnPrime ==
  ASSUME tree' = tree, \A k \in 1..Len(stack') : stack'[k].ret = "TERMINAL" => RemembersNext(k)
  PROVE  ReturnInv'
BY DEF ReturnInv, Remembers, RemembersNext, Kind

LEMMA ReturnStep ==
  ASSUME Shape, ReturnInv, tree' = tree, Steps
  PROVE  ReturnInv'
<1>1. /\ Len(stack) \in Nat /\ (Len(stack) > 0 => Len(stack) \in 1..Len(stack) /\ Top = stack[Len(stack)])
      /\ "group" \notin SequenceKinds
  BY StackFacts DEF Shape, Top, SequenceKinds
<1>2. \A k \in 1..Len(stack) : stack'[k] = stack[k] /\ stack[k].ret = "TERMINAL"
                               /\ (k < Len(stack) \/ ctl.op # "loop") => RemembersNext(k)
  BY <1>1 DEF ReturnInv, Remembers, RemembersNext
<1>3. CASE Enters
  <2>1. ASSUME NEW k \in 1..Len(stack'), stack'[k].ret = "TERMINAL"
        PROVE  RemembersNext(k)
    <3>1. k \in 1..Len(stack) /\ stack'[k] = stack[k] /\ ctl.op # "loop"
      BY <2>1, <1>3, EntersFacts
    <3>2. QED
      BY <3>1, <2>1, <1>2
  <2>2. QED
    BY <2>1, ReturnPrime
<1>4. CASE stack' = stack /\ (ctl.op # "loop" \/ ctl' = ctl)
  <2>1. ASSUME NEW k \in 1..Len(stack'), stack'[k].ret = "TERMINAL"
        PROVE  RemembersNext(k)
    BY <2>1, <1>2, <1>4 DEF ReturnInv, Remembers, RemembersNext
  <2>2. QED
    BY <2>1, ReturnPrime
<1>5. CASE Popped \/ Len(stack') = 0
  <2>1. ASSUME NEW k \in 1..Len(stack'), stack'[k].ret = "TERMINAL"
        PROVE  RemembersNext(k)
    <3>1. Len(stack') = Len(stack) - 1 /\ \A j \in 1..(Len(stack) - 1) : stack'[j] = stack[j]
      BY <2>1, <1>5 DEF Popped, Lower
    <3>2. k \in 1..Len(stack) /\ k < Len(stack) /\ stack'[k] = stack[k]
      BY <3>1, <1>1
    <3>3. QED
      BY <3>2, <2>1, <1>2
  <2>2. QED
    BY <2>1, ReturnPrime
<1>6. ASSUME NEW i, NEW ret, NEW skip, TopSet(i, ret, skip),
             ret = "TERMINAL" =>
               \/ Kind(Top.node) \in SequenceKinds /\ Top.td
               \/ Kind(Top.node) = "group" /\ i = 3
               \/ Kind(Top.node) = "group" /\ i = 2 /\ ctl'.op = "loop"
      PROVE  ReturnInv'
  <2>1. /\ Len(stack) > 0 /\ Len(stack') = Len(stack) /\ \A j \in 1..(Len(stack) - 1) : stack'[j] = stack[j]
        /\ stack'[Len(stack)].node = Top.node /\ stack'[Len(stack)].i = i
        /\ stack'[Len(stack)].td = Top.td /\ stack'[Len(stack)].ret = ret
    BY <1>6 DEF TopSet, Lower
  <2>2. ASSUME NEW k \in 1..Len(stack'), stack'[k].ret = "TERMINAL"
        PROVE  RemembersNext(k)
    <3>1. CASE k = Len(stack)
      BY <3>1, <2>1, <2>2, <1>6 DEF RemembersNext
    <3>2. CASE k # Len(stack)
      <4>1. k \in 1..(Len(stack) - 1) /\ k \in 1..Len(stack) /\ k < Len(stack)
        BY <3>2, <2>1, <1>1
      <4>2. QED
        BY <4>1, <2>1, <2>2, <1>2
    <3>3. QED
      BY <3>1, <3>2
  <2>3. QED
    BY <2>2, ReturnPrime
<1>7. Len(stack) > 0 /\ Top.ret = "TERMINAL" =>
        \/ Kind(Top.node) \in SequenceKinds /\ Top.td
        \/ Kind(Top.node) = "group" /\ Top.i = 3
        \/ Kind(Top.node) = "group" /\ Top.i = 2 /\ ctl.op = "loop"
  BY <1>1 DEF ReturnInv, Remembers
<1>8. CASE StepsSequence
  <2>1. TopSet(Top.i + 1, Top.ret, Top.skip) /\ Len(stack) > 0 /\ Kind(Top.node) \in SequenceKinds
    BY <1>8 DEF StepsSequence, InSeq
  <2>2. Top.ret = "TERMINAL" => Kind(Top.node) \in SequenceKinds /\ Top.td
    BY <2>1, <1>1, <1>7
  <2>3. QED
    BY <2>1, <2>2, <1>6
<1>9. CASE NotesSequence
  <2>1. /\ TopSet(Top.i, MoreCritical(Top.ret, ctl.ret), Top.skip) /\ Len(stack) > 0
        /\ Kind(Top.node) \in SequenceKinds /\ (ctl.ret = "TERMINAL" => Top.td)
    BY <1>9 DEF NotesSequence, InSeq
  <2>2. MoreCritical(Top.ret, ctl.ret) = "TERMINAL" => Kind(Top.node) \in SequenceKinds /\ Top.td
    BY <2>1, <1>1, <1>7 DEF MoreCritical
  <2>3. QED
    BY <2>1, <2>2, <1>6
<1>10. CASE StepsGroup
  <2>1. TopSet(Top.i + 1, Top.ret, Top.skip) /\ Len(stack) > 0 /\ Kind(Top.node) = "group" /\ Top.i < 3
    BY <1>10 DEF StepsGroup, StepMove, InGrp
  <2>2. Top.i \in Nat
    BY <2>1, TopFacts DEF Shape
  <2>3. Top.ret = "TERMINAL" => Kind(Top.node) = "group" /\ Top.i + 1 = 3
    BY <2>1, <2>2, <1>1, <1>7
  <2>4. QED
    BY <2>1, <2>3, <1>6
<1>11. CASE EntersGroup
  <2> DEFINE b == Top.skip \/ IsFail(Top.sub)
  <2>1. /\ TopSet(1, Top.ret, b) /\ Len(stack) > 0 /\ Kind(Top.node) = "group" /\ Top.i = 1
        /\ ctl.op = "return"
    BY <1>11 DEF EntersGroup, InGrp
  <2> HIDE DEF b
  <2>2. Top.ret # "TERMINAL"
    BY <2>1, <1>1, <1>7
  <2>3. QED
    BY <2>1, <2>2, <1>6
<1>12. CASE NotesMain
  <2>1. TopSet(2, ctl.ret, Top.skip) /\ Kind(Top.node) = "group" /\ ctl'.op = "loop"
    BY <1>12 DEF NotesMain, InGrp, Loop
  <2>2. QED
    BY <2>1, <1>6
<1>13. CASE EndsWalk
  BY <1>5, <1>13 DEF EndsWalk
<1>14. QED
  <2>1. \/ stack' = stack /\ (ctl.op # "loop" \/ ctl' = ctl)
        \/ Popped \/ Len(stack') = 0 \/ Enters
        \/ StepsSequence \/ NotesSequence \/ StepsGroup \/ NotesMain \/ EntersGroup \/ EndsWalk
    BY DEF Steps, Starts, RunMove, Leaf, Calls, Crash, EndsSequence, LeavesGroup, EndsGroup, Stays
  <2>2. QED
    BY <2>1, <1>3, <1>4, <1>5, <1>8, <1>9, <1>10, <1>11, <1>12, <1>13

(* A terminal outcome is on its way down to the end of the test. *)
Carried == \/ ctl.op = "return" /\ ctl.ret = "TERMINAL"
           \/ \E k \in 1..Len(stack) : stack[k].ret = "TERMINAL"
(* _last_outcome is set only while its TERMINAL is on its way to the end of the test. *)
TerminalInv == lastOutcome # "NONE" => ctl.op \in {"finish", "done"} \/ Carried
FullInv == fullAbort => abort

(* Carried to the next state: what is carried stays so until the test ends. *)
LEMMA CarriedStep ==
  ASSUME Shape, ReturnInv, Steps, Carried
  PROVE  Carried' \/ ctl'.op \in {"finish", "done"}
<1>1. /\ Len(stack) \in Nat /\ (Len(stack) > 0 => Len(stack) \in 1..Len(stack) /\ Top = stack[Len(stack)])
      /\ "group" \notin SequenceKinds
  BY StackFacts DEF Shape, Top, SequenceKinds
<1>2. ASSUME NEW k \in 1..Len(stack'), stack'[k].ret = "TERMINAL"
      PROVE  Carried'
  BY <1>2 DEF Carried
<1>3. ASSUME ctl' = Return("TERMINAL")
      PROVE  Carried'
  BY <1>3 DEF Carried, Return
<1>4. ASSUME NEW k \in 1..(Len(stack) - 1), stack[k].ret = "TERMINAL", ~Enters, Len(stack') >= Len(stack) - 1
      PROVE  Carried'
  <2>1. k \in 1..Len(stack') /\ stack'[k] = stack[k]
    BY <1>1, <1>4, OtherSteps
  <2>2. QED
    BY <2>1, <1>2, <1>4
<1>5. ASSUME Len(stack) > 0
      PROVE  \/ ctl.op = "return" /\ ctl.ret = "TERMINAL"
             \/ Top.ret = "TERMINAL" \/ \E k \in 1..(Len(stack) - 1) : stack[k].ret = "TERMINAL"
  <2>1. \A k \in 1..Len(stack) : k = Len(stack) \/ k \in 1..(Len(stack) - 1)
    BY <1>1
  <2>2. QED
    BY <2>1, <1>1, <1>5 DEF Carried
<1>6. Len(stack) > 0 /\ Top.ret = "TERMINAL" =>
        \/ Kind(Top.node) \in SequenceKinds /\ Top.td
        \/ Kind(Top.node) = "group" /\ Top.i = 3
        \/ Kind(Top.node) = "group" /\ Top.i = 2 /\ ctl.op = "loop"
  BY <1>1 DEF ReturnInv, Remembers
<1>7. CASE Enters
  <2>1. PICK k \in 1..Len(stack) : stack[k].ret = "TERMINAL"
    BY <1>7, EntersFacts DEF Carried
  <2>2. k \in 1..Len(stack') /\ stack'[k] = stack[k]
    BY <1>7, EntersFacts
  <2>3. QED
    BY <2>1, <2>2, <1>2
<1>8. CASE Starts \/ Leaf \/ (Stays /\ ctl.op # "return")
  <2>1. stack' = stack /\ ctl.op # "return"
    BY <1>8 DEF Starts, RunMove, Leaf, Calls, Stays
  <2>2. PICK k \in 1..Len(stack) : stack[k].ret = "TERMINAL"
    BY <2>1 DEF Carried
  <2>3. QED
    BY <2>1, <2>2, <1>2
<1>9. CASE Stays /\ ctl.op = "return"
  BY <1>9 DEF Stays, Carried
<1>10. CASE Crash \/ EndsWalk
  BY <1>10 DEF Crash, EndsWalk
<1>11. ASSUME NEW ret, \E i, skip : TopSet(i, ret, skip), ~Enters,
              Top.ret = "TERMINAL" \/ (ctl.op = "return" /\ ctl.ret = "TERMINAL") => ret = "TERMINAL"
       PROVE  Carried'
  <2>1. Len(stack) > 0 /\ Len(stack') = Len(stack) /\ stack'[Len(stack)].ret = ret
    BY <1>11 DEF TopSet
  <2>2. CASE ret = "TERMINAL"
    BY <2>1, <2>2, <1>1, <1>2
  <2>3. CASE ret # "TERMINAL"
    <3>1. PICK k \in 1..(Len(stack) - 1) : stack[k].ret = "TERMINAL"
      BY <2>1, <2>3, <1>5, <1>11
    <3>2. QED
      BY <3>1, <2>1, <1>1, <1>4, <1>11
  <2>4. QED
    BY <2>2, <2>3
<1>12. CASE \E r \in Rets : EndsSequence(r)
  <2>1. PICK r \in Rets : EndsSequence(r)
    BY <1>12
  <2>2. /\ Len(stack) > 0 /\ Len(stack') = Len(stack) - 1 /\ ctl' = Return(r) /\ ctl.op \in {"loop", "return"}
        /\ Kind(Top.node) \in SequenceKinds
    BY <2>1 DEF EndsSequence, InSeq, Popped
  <2>3. ~Enters
    BY <2>2 DEF Enters, EnterMove
  <2>4. CASE \E k \in 1..(Len(stack) - 1) : stack[k].ret = "TERMINAL"
    BY <2>2, <2>3, <2>4, <1>1, <1>4
  <2>5. CASE (ctl.op = "return" /\ ctl.ret = "TERMINAL") \/ Top.ret = "TERMINAL"
    <3>1. r = "TERMINAL"
      <4>1. Top.ret = "TERMINAL" => Top.td
        BY <2>2, <1>1, <1>6
      <4>2. QED
        BY <4>1, <2>1, <2>5 DEF EndsSequence
    <3>2. QED
      BY <3>1, <2>2, <1>3
  <2>6. QED
    BY <2>2, <2>4, <2>5, <1>5
<1>13. CASE StepsSequence \/ StepsGroup
  <2>1. /\ \E i, skip : TopSet(i, Top.ret, skip)
        /\ ctl.op = "loop"
    BY <1>13 DEF StepsSequence, StepsGroup, StepMove
  <2>2. ~Enters
    BY <2>1 DEF Enters, EnterMove
  <2>3. QED
    BY <2>1, <2>2, <1>11
<1>14. CASE NotesSequence
  <2>1. (\E i, skip : TopSet(i, MoreCritical(Top.ret, ctl.ret), skip)) /\ ctl.op = "return"
    BY <1>14 DEF NotesSequence
  <2>2. ~Enters
    BY <2>1 DEF Enters, EnterMove
  <2>3. Top.ret = "TERMINAL" \/ ctl.ret = "TERMINAL" => MoreCritical(Top.ret, ctl.ret) = "TERMINAL"
    BY DEF MoreCritical
  <2>4. QED
    BY <2>1, <2>2, <2>3, <1>11
<1>15. CASE LeavesGroup
  BY <1>15 DEF LeavesGroup, Carried
<1>16. CASE EntersGroup
  <2> DEFINE b == Top.skip \/ IsFail(Top.sub)
  <2>1. TopSet(1, Top.ret, b) /\ ctl.op = "return" /\ ctl.ret = "CONTINUE"
    BY <1>16 DEF EntersGroup
  <2> HIDE DEF b
  <2>2. ~Enters
    BY <2>1 DEF Enters, EnterMove
  <2>3. QED
    BY <2>1, <2>2, <1>11
<1>17. CASE NotesMain
  <2>1. /\ TopSet(2, ctl.ret, Top.skip) /\ ctl.op = "return" /\ Kind(Top.node) = "group" /\ Top.i = 2
        /\ Len(stack) > 0
    BY <1>17 DEF NotesMain, InGrp
  <2>2. ~Enters
    BY <2>1 DEF Enters, EnterMove
  <2>3. Top.ret # "TERMINAL"
    BY <2>1, <1>1, <1>6
  <2>4. QED
    BY <2>1, <2>2, <2>3, <1>11
<1>18. CASE EndsGroup
  <2>1. /\ Len(stack) > 0 /\ Len(stack') = Len(stack) - 1
        /\ ctl' = Return(MoreCritical(Top.ret, ctl.ret)) /\ ctl.op = "return"
    BY <1>18 DEF EndsGroup, InGrp, Popped
  <2>2. ~Enters
    BY <2>1 DEF Enters, EnterMove
  <2>3. CASE \E k \in 1..(Len(stack) - 1) : stack[k].ret = "TERMINAL"
    BY <2>1, <2>2, <2>3, <1>1, <1>4
  <2>4. CASE ctl.ret = "TERMINAL" \/ Top.ret = "TERMINAL"
    <3>1. MoreCritical(Top.ret, ctl.ret) = "TERMINAL"
      BY <2>4 DEF MoreCritical
    <3>2. QED
      BY <3>1, <2>1, <1>3
  <2>5. QED
    BY <2>1, <2>3, <2>4, <1>5
<1>19. QED
  BY <1>7, <1>8, <1>9, <1>10, <1>12, <1>13, <1>14, <1>15, <1>16, <1>17, <1>18 DEF Steps

LEMMA TerminalStep ==
  ASSUME Shape, ReturnInv, TerminalInv, Steps
  PROVE  TerminalInv'
<1>1. CASE lastOutcome' = lastOutcome
  <2>1. CASE Carried
    BY <2>1, CarriedStep DEF TerminalInv
  <2>2. CASE lastOutcome = "NONE"
    BY <2>2, <1>1 DEF TerminalInv
  <2>3. CASE ctl.op \in {"finish", "done"} /\ ~Carried
    <3>1. Len(stack) = 0
      BY <2>3 DEF Shape, ControlInv
    <3>2. ctl'.op \in {"finish", "done"}
      BY <3>1, <2>3 DEF Steps, Enters, EnterMove, Starts, RunMove, StepMove, Leaf, Calls, Crash, EndsSequence, InSeq, InGrp,
         StepsSequence, NotesSequence, StepsGroup, LeavesGroup, EntersGroup, NotesMain, EndsGroup, EndsWalk, Stays
    <3>3. QED
      BY <3>2 DEF TerminalInv
  <2>4. QED
    BY <2>1, <2>2, <2>3 DEF TerminalInv
<1>2. CASE lastOutcome' # lastOutcome
  <2>1. Leaf
    BY <1>2 DEF Steps, Enters, Starts, Crash, EndsSequence, Quiet,
       StepsSequence, NotesSequence, StepsGroup, LeavesGroup, EntersGroup, NotesMain, EndsGroup, EndsWalk, Stays
  <2>2. ctl'.op = "return" /\ ctl'.ret = "TERMINAL"
    BY <2>1, <1>2 DEF Leaf
  <2>3. QED
    BY <2>2 DEF TerminalInv, Carried
<1>3. QED
  BY <1>1, <1>2

LEMMA FullStep ==
  ASSUME FullInv, Steps
  PROVE  FullInv'
BY DEF FullInv, Flags, Steps, Enters, Starts, Leaf, Crash, EndsSequence,
   StepsSequence, NotesSequence, StepsGroup, LeavesGroup, EntersGroup, NotesMain, EndsGroup, EndsWalk, Stays

(* What the walk keeps whatever the tree. *)
Core == Shape /\ SubtestInv /\ TeardownInv /\ ReturnInv /\ TerminalInv /\ FullInv

LEMMA CoreInit == Init => Core
<1> SUFFICES ASSUME Init PROVE Core
  OBVIOUS
<1>1. Shape
  BY ShapeInit
<1>2. stack = <<>> /\ Len(stack) = 0 /\ ctl.op = "call" /\ lastOutcome = "NONE" /\ fullAbort = FALSE
  BY DEF Init, Call
<1>3. QED
  BY <1>1, <1>2 DEF Core, SubtestInv, TeardownInv, ReturnInv, TerminalInv, FullInv

LEMMA CoreStep == Core /\ [Next]_vars => Core' /\ tree' = tree /\ Steps
<1> SUFFICES ASSUME Core, [Next]_vars PROVE Core' /\ tree' = tree /\ Steps
  OBVIOUS
<1>1. tree' = tree /\ Steps
  BY StepsFacts DEF Core, Shape, FullInv
<1>2. Shape'
  BY ShapeStep DEF Core
<1>3. QED
  BY <1>1, <1>2, SubtestStep, TeardownStep, ReturnStep, TerminalStep, FullStep DEF Core

-----------------------------------------------------------------------------
(* What may still be started. *)

LEMMA StartsOutside ==
  ASSUME Core, StartPhase, ~InTeardownPart
  PROVE  ~IsFail(ctl.sub)
<1>1. Calls /\ (ctl.td \/ ~IsFail(ctl.sub))
  BY DEF StartPhase, Calling, Calls
<1>2. SUFFICES ASSUME ctl.td PROVE FALSE
  BY <1>1
<1>3. Len(stack) \in Nat /\ (Len(stack) = 0 => ~ctl.td) /\ (Len(stack) > 0 => ctl.td = Passed(Top))
  BY <1>1, StackFacts DEF Core, Shape, ControlInv
<1>4. Len(stack) \in 1..Len(stack) /\ Passed(Top) /\ Top = stack[Len(stack)]
  <2>1. Len(stack) > 0 /\ Passed(Top)
    <3>1. Len(stack) > 0
      BY <1>2, <1>3
    <3>2. ctl.td = Passed(Top)
      BY <3>1, <1>3
    <3>3. QED
      BY <3>1, <3>2, <1>2
  <2>2. QED
    BY <2>1, <1>3 DEF Top
<1>5. CASE Kind(Top.node) = "group" /\ Top.i = 3
  BY <1>4, <1>5 DEF InTeardownPart
<1>6. CASE ~(Kind(Top.node) = "group" /\ Top.i = 3)
  <2>1. Top.td
    BY <1>4, <1>6 DEF Passed
  <2>2. PICK j \in 1..(Len(stack) - 1) : Kind(stack[j].node) = "group" /\ stack[j].i = 3
    BY <2>1, <1>4 DEF Core, TeardownInv
  <2>3. j \in 1..Len(stack)
    BY <1>3
  <2>4. QED
    BY <2>2, <2>3 DEF InTeardownPart
<1>7. QED
  BY <1>5, <1>6

LEMMA StartsAfterTerminal ==
  ASSUME Core PROVE AfterTerminal
<1>1. SUFFICES ASSUME StartPhase, lastOutcome # "NONE" PROVE InTeardownPart
  BY DEF AfterTerminal
<1>2. ctl.op = "call"
  BY <1>1 DEF StartPhase, Calling
<1>3. PICK k \in 1..Len(stack) : stack[k].ret = "TERMINAL"
  BY <1>1, <1>2 DEF Core, TerminalInv, Carried
<1>4. Remembers(k)
  BY <1>3 DEF Core, ReturnInv
<1>5. CASE stack[k].td
  <2>1. PICK j \in 1..(k - 1) : Kind(stack[j].node) = "group" /\ stack[j].i = 3
    BY <1>5 DEF Core, TeardownInv
  <2>2. j \in 1..Len(stack)
    BY StackFacts DEF Core, Shape
  <2>3. QED
    BY <2>1, <2>2 DEF InTeardownPart
<1>6. CASE ~stack[k].td
  BY <1>2, <1>4, <1>6 DEF Remembers, InTeardownPart
<1>7. QED
  BY <1>5, <1>6

LEMMA StartsInSubtest ==
  ASSUME Core PROVE AfterFailedSubtest
<1>1. SUFFICES ASSUME StartPhase, ~InTeardownPart, NEW k \in 1..Len(stack), Kind(stack[k].node) = "subtest"
               PROVE  subtest[stack[k].node] = "PASS"
  BY DEF AfterFailedSubtest
<1>2. ~IsFail(ctl.sub)
  BY <1>1, StartsOutside
<1>3. /\ Len(stack) \in Nat /\ Len(stack) \in 1..Len(stack) /\ k \in 1..Len(stack)
      /\ stack[k].node \in Nodes /\ stack[k].node # 0
  BY StackFacts, TreeFacts DEF Core, Shape, TypeOK
<1>4. ctl.sub = stack[Len(stack)].sub
  BY <1>1, <1>3 DEF Core, Shape, ControlInv, Calls, StartPhase, Calling, Top
<1>5. stack[k].sub = stack[k].node /\ subtest[stack[k].node] \in {"PASS", "FAIL"}
  BY <1>1, OwnSub DEF Core, SubtestInv
<1>6. IsFail(stack[k].sub) => IsFail(ctl.sub)
  BY <1>3, <1>4 DEF Core, SubtestInv
<1>7. QED
  BY <1>2, <1>3, <1>5, <1>6 DEF IsFail

LEMMA ComesAfterAbort ==
  ASSUME Core, tree' = tree, Steps PROVE AfterAbort
<1>1. SUFFICES ASSUME abort, ctl.op # "call", ctl'.op = "call", Kind(ctl'.node) = "phase"
               PROVE  InTeardownPart'
  BY DEF AfterAbort
<1>2. StepsSequence \/ StepsGroup
  BY <1>1 DEF Steps, Enters, EnterMove, Pushed, Starts, RunMove, Leaf, Crash, EndsSequence, Return, NotesSequence,
     Loop, LeavesGroup, EntersGroup, NotesMain, EndsGroup, EndsWalk, Stays
<1>3. CASE StepsGroup
  <2>1. /\ Kind(Top.node) = "group" /\ Len(stack) > 0 /\ Top.i + 1 <= Len(Kids(Top.node))
        /\ \/ ctl' = Return("CONTINUE")
           \/ Kids(Top.node)[Top.i + 1] # 0 /\ \E td : ctl' = Call(Kids(Top.node)[Top.i + 1], Top.sub, td)
    BY <1>3 DEF StepsGroup, StepMove, InGrp
  <2>2. Kids(Top.node)[Top.i + 1] # 0 /\ ctl'.node = Kids(Top.node)[Top.i + 1]
    BY <2>1, <1>1 DEF Return, Call
  <2>3. Top.node \in Nodes /\ Top.i + 1 \in 1..Len(Kids(Top.node)) /\ tree \in Trees
    BY <2>1, TopFacts, TreeFacts DEF Core, Shape, TypeOK
  <2>4. Kind(ctl'.node) = "sequence"
    BY <2>1, <2>2, <2>3, TreeFacts
  <2>5. QED
    BY <2>4, <1>1
<1>4. CASE StepsSequence
  <2>1. Len(stack) > 0 /\ Top.td /\ TopSet(Top.i + 1, Top.ret, Top.skip)
    BY <1>1, <1>4 DEF StepsSequence, InSeq, Core, FullInv
  <2>2. Len(stack) \in 1..Len(stack) /\ Top = stack[Len(stack)] /\ Len(stack) \in Nat
    BY <2>1, StackFacts DEF Core, Shape, Top
  <2>3. PICK j \in 1..(Len(stack) - 1) : Kind(stack[j].node) = "group" /\ stack[j].i = 3
    BY <2>1, <2>2 DEF Core, TeardownInv
  <2>4. j \in 1..Len(stack') /\ stack'[j] = stack[j]
    BY <2>1, <2>2, <2>3 DEF TopSet, Lower
  <2>5. QED
    BY <2>3, <2>4 DEF InTeardownPart, Kind
<1>5. QED
  BY <1>2, <1>3, <1>4

(* Nothing but the teardowns of entered groups follows a terminal outcome, an abort or,
   inside it, the failure of a subtest. *)
THEOREM OnlyTeardownsFollow == Spec => OnlyTeardowns
<1>1. Core /\ [Next]_vars => [AfterTerminal /\ AfterAbort /\ AfterFailedSubtest]_vars
  BY CoreStep, StartsAfterTerminal, StartsInSubtest, ComesAfterAbort
<1>2. QED
  BY CoreInit, CoreStep, <1>1, PTL DEF Spec, OnlyTeardowns

-----------------------------------------------------------------------------
(* Setups and subtests: what has come to a good end so far. *)

(* How a phase ended is never changed. *)
LEMMA EndsStay ==
  ASSUME Core, Steps
  PROVE  \A m \in Nodes : ends[m] # "NONE" => ends'[m] = ends[m]
<1>1. CASE Leaf \/ Crash
  <2>1. Calls /\ ctl.node \in Nodes /\ \A m \in Nodes : m # ctl.node => ends'[m] = ends[m]
    BY <1>1 DEF Leaf, Crash, Calls
  <2>2. ends[ctl.node] = "NONE"
    <3>1. Untouched(ctl.node)
      BY <2>1 DEF Core, Shape, FreshInv
    <3>2. ctl.node >= ctl.node
      BY <2>1, TreeFacts DEF Core, Shape, TypeOK
    <3>3. QED
      BY <3>1, <3>2, <2>1 DEF Untouched
  <2>3. QED
    BY <2>1, <2>2
<1>2. CASE ~(Leaf \/ Crash)
  <2>1. ends' = ends
    BY <1>2 DEF Steps, Enters, EnterMove, Starts, RunMove, StepMove, EndsSequence, Quiet, SameData,
       StepsSequence, NotesSequence, StepsGroup, LeavesGroup, EntersGroup, NotesMain, EndsGroup, EndsWalk, Stays
  <2>2. QED
    BY <2>1
<1>3. QED
  BY <1>1, <1>2

(* Nor is the failure of a subtest, while it is on the stack. *)
LEMMA FailStays ==
  ASSUME Core, Steps, NEW k \in 1..Len(stack'), k \in 1..Len(stack), IsFail(stack[k].sub)
  PROVE  FailsNext(stack[k].sub)
<1>1. /\ Len(stack) \in Nat /\ stack[k].node \in Nodes /\ stack[k].sub \in Nodes /\ tree \in Trees
      /\ \A m \in Nodes : m \in Nat
  BY StackFacts, TreeFacts DEF Core, Shape, IsFail, TypeOK
<1>2. subtest[stack[k].sub] = "FAIL" /\ stack[k].sub # 0
  BY DEF IsFail
<1>3. CASE Enters
  <2>1. stack[k].sub < ctl.node /\ \A m \in Nodes : m # ctl.node => subtest'[m] = subtest[m]
    <3>1. stack[k].node < ctl.node
      BY <1>1, <1>3, EntersFacts, Called DEF Core, Shape
    <3>2. stack[k].sub <= stack[k].node
      BY <1>1 DEF Core, Shape, AncestorInv
    <3>3. \A m \in Nodes : m # ctl.node => subtest'[m] = subtest[m]
      BY <1>3 DEF Enters, EnterMove, Core, Shape, TypeOK
    <3>4. ctl.node \in Nodes
      BY <1>3, EntersFacts DEF Core
    <3>5. QED
      BY <3>1, <3>2, <3>3, <3>4, <1>1
  <2>2. stack[k].sub # ctl.node
    BY <2>1, <1>1
  <2>3. QED
    BY <2>1, <2>2, <1>1, <1>2 DEF FailsNext
<1>4. CASE Leaf
  BY <1>1, <1>2, <1>4 DEF Leaf, FailsNext
<1>5. CASE \E r \in Rets : EndsSequence(r)
  <2>1. /\ Len(stack) > 0 /\ Len(stack') = Len(stack) - 1
        /\ \A m \in Nodes : m # Top.node => subtest'[m] = subtest[m]
    BY <1>5 DEF EndsSequence, InSeq, Popped
  <2>2. Top.node \in Nodes /\ Top = stack[Len(stack)] /\ k \in 1..(Len(stack) - 1) /\ Len(stack) \in 1..Len(stack)
    BY <2>1, <1>1, TopFacts DEF Core, Shape
  <2>3. stack[k].node < Top.node /\ stack[k].sub <= stack[k].node
    BY <2>2, <1>1 DEF Core, Shape, AncestorInv
  <2>4. stack[k].sub # Top.node
    BY <2>2, <2>3, <1>1
  <2>5. QED
    BY <2>1, <2>4, <1>1, <1>2 DEF FailsNext
<1>6. CASE ~(Enters \/ Leaf \/ \E r \in Rets : EndsSequence(r))
  <2>1. subtest' = subtest
    BY <1>6 DEF Steps, Starts, RunMove, StepMove, Crash, Quiet, SameData,
       StepsSequence, NotesSequence, StepsGroup, LeavesGroup, EntersGroup, NotesMain, EndsGroup, EndsWalk, Stays
  <2>2. QED
    BY <2>1, <1>2 DEF FailsNext
<1>7. QED
  BY <1>3, <1>4, <1>5, <1>6

(* The kids of a node whose return its frame has taken note of. *)
Noted(k) == IF k = Len(stack) /\ ctl.op = "loop" THEN stack[k].i ELSE stack[k].i - 1
NotedNext(k) == IF k = Len(stack') /\ ctl'.op = "loop" THEN stack'[k].i ELSE stack'[k].i - 1

(* As far as it is noted, a step takes no frame beyond what it had noted, unless it is the
   top that takes note of a return. *)
LEMMA NotedStep ==
  ASSUME Core, Steps, NEW k \in 1..Len(stack')
  PROVE  \/ /\ k \in 1..Len(stack) /\ NotedNext(k) = Noted(k)
            /\ stack'[k].node = stack[k].node /\ stack'[k].sub = stack[k].sub
            /\ stack'[k].ret = stack[k].ret /\ stack'[k].skip = stack[k].skip
         \/ Enters /\ k = Len(stack) + 1 /\ NotedNext(k) = 0
         \/ /\ NotesSequence \/ EntersGroup \/ NotesMain
            /\ k = Len(stack) /\ Noted(k) = Top.i - 1 /\ NotedNext(k) = Top.i
            /\ stack'[k].node = Top.node /\ stack'[k].sub = Top.sub
<1>1. /\ Len(stack) \in Nat /\ (Len(stack) > 0 => Len(stack) \in 1..Len(stack) /\ Top = stack[Len(stack)])
      /\ \A j \in 1..Len(stack) : stack[j].i \in Nat
  BY StackFacts DEF Core, Shape, Top
<1>2. CASE Enters
  <2>1. CASE k \in 1..Len(stack)
    BY <2>1, <1>2, EntersFacts DEF Core, Noted, NotedNext
  <2>2. CASE k = Len(stack) + 1
    BY <2>2, <1>2, EntersFacts DEF Core, NotedNext
  <2>3. QED
    BY <2>1, <2>2, <1>2, EntersFacts DEF Core
<1>3. CASE ~Enters /\ k < Len(stack)
  <2>1. /\ k \in 1..Len(stack) /\ stack'[k] = stack[k] /\ Len(stack') <= Len(stack) /\ Len(stack') \in Nat
    BY <1>3, OtherSteps DEF Core
  <2>2. Noted(k) = stack[k].i - 1
    BY <1>3 DEF Noted
  <2>3. CASE k = Len(stack')
    <3>1. ctl'.op # "loop"
      <4>1. Len(stack') # Len(stack)
        BY <1>3, <2>3
      <4>2. Len(stack') # 0
        BY <2>3
      <4>3. LeavesGroup \/ EndsGroup \/ \E r \in Rets : EndsSequence(r)
        BY <4>1, <4>2, <1>3 DEF Steps, Starts, RunMove, Leaf, Crash, StepsSequence, StepsGroup, StepMove, NotesSequence,
           EntersGroup, NotesMain, TopSet, EndsWalk, Stays
      <4>4. QED
        BY <4>3 DEF LeavesGroup, EndsGroup, EndsSequence, Return
    <3>2. QED
      BY <3>1, <2>1, <2>2 DEF NotedNext
  <2>4. CASE k # Len(stack')
    BY <2>1, <2>2, <2>4 DEF NotedNext
  <2>5. QED
    BY <2>3, <2>4
<1>4. CASE ~Enters /\ ~(k < Len(stack))
  <2>1. /\ k \in 1..Len(stack) /\ k = Len(stack) /\ Len(stack') = Len(stack) /\ Len(stack) > 0
        /\ stack'[k].node = stack[k].node /\ stack'[k].sub = stack[k].sub
    BY <1>1, <1>4, OtherSteps DEF Core
  <2>2. CASE Starts \/ Leaf \/ Stays
    <3>1. stack' = stack /\ (ctl.op = "loop" <=> ctl'.op = "loop")
      <4>1. CASE Starts
        <5>1. ctl = [op |-> ctl.op, node |-> ctl.node, sub |-> ctl.sub, td |-> ctl.td]
              /\ ctl.op = "call" /\ ctl' = [ctl EXCEPT !.op = "run"] /\ stack' = stack
          BY <4>1, ControlFacts DEF Starts, RunMove, Core, Shape, TypeOK
        <5>2. QED
          BY <5>1
      <4>2. QED
        BY <2>2, <4>1 DEF Leaf, Calls, Stays
    <3>2. QED
      BY <3>1, <2>1 DEF Noted, NotedNext
  <2>3. CASE StepsSequence \/ StepsGroup
    <3>1. /\ TopSet(Top.i + 1, Top.ret, Top.skip) /\ ctl.op = "loop" /\ ctl'.op # "loop"
      BY <2>3 DEF StepsSequence, StepsGroup, StepMove, Call, Return
    <3>2. stack'[k].i = Top.i + 1 /\ stack'[k].ret = Top.ret /\ stack'[k].skip = Top.skip
      BY <3>1, <2>1 DEF TopSet
    <3>3. QED
      BY <3>1, <3>2, <2>1, <1>1 DEF Noted, NotedNext
  <2>4. CASE NotesSequence \/ EntersGroup \/ NotesMain
    <3>1. ctl.op = "return" /\ ctl'.op = "loop" /\ \E ret, skip : TopSet(Top.i, ret, skip)
      <4>1. CASE EntersGroup
        <5> DEFINE b == Top.skip \/ IsFail(Top.sub)
        <5>1. TopSet(Top.i, Top.ret, b) /\ ctl.op = "return" /\ ctl'.op = "loop"
          BY <4>1 DEF EntersGroup, Loop
        <5> HIDE DEF b
        <5>2. QED
          BY <5>1
      <4>2. CASE NotesSequence \/ NotesMain
        BY <4>2 DEF NotesSequence, NotesMain, Loop
      <4>3. QED
        BY <2>4, <4>1, <4>2
    <3>2. stack'[k].i = Top.i
      BY <3>1, <2>1 DEF TopSet
    <3>3. QED
      BY <3>1, <3>2, <2>1, <2>4, <1>1 DEF Noted, NotedNext
  <2>5. CASE Crash \/ EndsWalk \/ LeavesGroup \/ EndsGroup \/ (\E r \in Rets : EndsSequence(r))
    BY <2>1, <2>5 DEF Crash, EndsWalk, LeavesGroup, EndsGroup, EndsSequence, Popped
  <2>6. QED
    BY <2>2, <2>3, <2>4, <2>5, <1>4 DEF Steps
<1>5. QED
  BY <1>2, <1>3, <1>4

(* All phases of s came to a good end. *)
GoodPhases(s) == \A j \in 1..Len(Kids(s)) : Kind(Kids(s)[j]) = "phase" => ends[Kids(s)[j]] \in Good

(* Node c came to an end that does not keep its group from being entered. *)
Clean(c) ==
    /\ Kind(c) = "phase" => ends[c] \in Good
    /\ Kind(c) = "sequence" => GoodPhases(c)

(* As long as a sequence has no terminal return and its subtest has not failed, its phases
   came to a good end; so did what has just returned. *)
DoneInv ==
    /\ \A k \in 1..Len(stack) :
         Kind(stack[k].node) \in SequenceKinds /\ stack[k].ret = "CONTINUE" /\ ~IsFail(stack[k].sub) =>
           \A j \in 1..Noted(k) : Kind(Kids(stack[k].node)[j]) = "phase" =>
                                    ends[Kids(stack[k].node)[j]] \in Good
    /\ ctl.op = "return" /\ Len(stack) > 0 /\ ctl.ret = "CONTINUE" /\ ~IsFail(Top.sub)
         /\ Kids(Top.node)[Top.i] # 0 => Clean(Kids(Top.node)[Top.i])

(* A group that is past its setup and not skipped was entered. *)
SetupInv ==
    \A k \in 1..Len(stack) :
        Kind(stack[k].node) = "group" /\ Noted(k) >= 1 /\ ~stack[k].skip /\ Kids(stack[k].node)[1] # 0 =>
          Clean(Kids(stack[k].node)[1])

CleanNext(c) ==
    /\ Kind(c) = "phase" => ends'[c] \in Good
    /\ Kind(c) = "sequence" =>
         \A j \in 1..Len(Kids(c)) : Kind(Kids(c)[j]) = "phase" => ends'[Kids(c)[j]] \in Good

LEMMA DonePrime ==
  ASSUME tree' = tree,
         \A k \in 1..Len(stack') :
           Kind(stack'[k].node) \in SequenceKinds /\ stack'[k].ret = "CONTINUE" /\ ~FailsNext(stack'[k].sub) =>
             \A j \in 1..NotedNext(k) : Kind(Kids(stack'[k].node)[j]) = "phase" =>
                                          ends'[Kids(stack'[k].node)[j]] \in Good,
         NEW f, f = stack'[Len(stack')],
         ctl'.op = "return" /\ Len(stack') > 0 /\ ctl'.ret = "CONTINUE" /\ ~FailsNext(f.sub)
           /\ Kids(f.node)[f.i] # 0 => CleanNext(Kids(f.node)[f.i])
  PROVE  DoneInv'
<1>1. (\A k \in 1..Len(stack) :
         Kind(stack[k].node) \in SequenceKinds /\ stack[k].ret = "CONTINUE" /\ ~IsFail(stack[k].sub) =>
           \A j \in 1..Noted(k) : Kind(Kids(stack[k].node)[j]) = "phase" =>
                                    ends[Kids(stack[k].node)[j]] \in Good)'
  BY DEF Kind, Kids, IsFail, FailsNext, Noted, NotedNext
<1>2. (ctl.op = "return" /\ Len(stack) > 0 /\ ctl.ret = "CONTINUE" /\ ~IsFail(Top.sub)
         /\ Kids(Top.node)[Top.i] # 0 => Clean(Kids(Top.node)[Top.i]))'
  BY DEF Kind, Kids, IsFail, FailsNext, Top, Clean, CleanNext, GoodPhases
<1>3. QED
  BY <1>1, <1>2 DEF DoneInv

LEMMA SetupPrime ==
  ASSUME tree' = tree,
         \A k \in 1..Len(stack') :
           Kind(stack'[k].node) = "group" /\ NotedNext(k) >= 1 /\ ~stack'[k].skip
             /\ Kids(stack'[k].node)[1] # 0 => CleanNext(Kids(stack'[k].node)[1])
  PROVE  SetupInv'
BY DEF SetupInv, Kind, Kids, Noted, NotedNext, Clean, CleanNext, GoodPhases

LEMMA GoodStays ==
  ASSUME Core, Steps
  PROVE  /\ \A n \in Nodes : ends[n] \in Good => ends'[n] \in Good
         /\ \A n \in Nodes : Clean(n) => CleanNext(n)
<1>1. \A n \in Nodes : ends[n] \in Good => ends'[n] \in Good
  BY EndsStay DEF Good
<1>2. ASSUME NEW n \in Nodes, Clean(n)
      PROVE  CleanNext(n)
  <2>1. ASSUME NEW j \in 1..Len(Kids(n)), Kind(n) = "sequence"
        PROVE  Kids(n)[j] \in Nodes
    BY <2>1, TreeFacts DEF Core, Shape, TypeOK
  <2>2. QED
    BY <2>1, <1>1, <1>2 DEF Clean, CleanNext, GoodPhases
<1>3. QED
  BY <1>1, <1>2

(* A kid of a frame that is a sequence. *)
LEMMA KidFacts ==
  ASSUME Core, NEW n \in Nodes, NEW j \in 1..Len(Kids(n))
  PROVE  /\ Kids(n)[j] \in {0} \cup Nodes
         /\ Kids(n)[j] # 0 => Kids(n)[j] \in Nodes /\ Kids(n)[j] > n
         /\ Kind(n) \in SequenceKinds => Kids(n)[j] # 0 /\ Kids(n)[j] \in Nodes
         /\ Kind(n) = "group" /\ Kids(n)[j] # 0 => Kind(Kids(n)[j]) = "sequence"
BY TreeFacts DEF Core, Shape, TypeOK, SequenceKinds

LEMMA DoneStep ==
  ASSUME Core, DoneInv, tree' = tree, Steps, Core'
  PROVE  DoneInv'
<1>1. /\ Len(stack) \in Nat /\ (Len(stack) > 0 => Len(stack) \in 1..Len(stack) /\ Top = stack[Len(stack)])
      /\ \A k \in 1..Len(stack) : stack[k].node \in Nodes /\ stack[k].i \in Nat
                                  /\ stack[k].i <= Len(Kids(stack[k].node))
                                  /\ Len(Kids(stack[k].node)) \in Nat
      /\ "group" \notin SequenceKinds
  BY StackFacts, TreeFacts DEF Core, Shape, Top, SequenceKinds, TypeOK
<1>2. ASSUME NEW k \in 1..Len(stack), NEW j \in 1..stack[k].i
      PROVE  j \in 1..Len(Kids(stack[k].node))
  BY <1>1
<1>3. ASSUME NEW k \in 1..Len(stack')
      PROVE  Kind(stack'[k].node) \in SequenceKinds /\ stack'[k].ret = "CONTINUE" /\ ~FailsNext(stack'[k].sub) =>
               \A j \in 1..NotedNext(k) : Kind(Kids(stack'[k].node)[j]) = "phase" =>
                                            ends'[Kids(stack'[k].node)[j]] \in Good
  <2>1. SUFFICES ASSUME Kind(stack'[k].node) \in SequenceKinds, stack'[k].ret = "CONTINUE",
                        ~FailsNext(stack'[k].sub), NEW j \in 1..NotedNext(k),
                        Kind(Kids(stack'[k].node)[j]) = "phase"
                 PROVE  ends'[Kids(stack'[k].node)[j]] \in Good
    OBVIOUS
  <2>2. CASE /\ k \in 1..Len(stack) /\ NotedNext(k) = Noted(k)
             /\ stack'[k].node = stack[k].node /\ stack'[k].sub = stack[k].sub
             /\ stack'[k].ret = stack[k].ret
    <3>1. ~IsFail(stack[k].sub)
      BY <2>1, <2>2, FailStays
    <3>2. ends[Kids(stack[k].node)[j]] \in Good
      BY <2>1, <2>2, <3>1 DEF DoneInv
    <3>3. Noted(k) \in Int /\ Noted(k) <= stack[k].i
      BY <2>2, <1>1 DEF Noted
    <3>4. j \in 1..Len(Kids(stack[k].node))
      BY <3>3, <2>2, <1>1
    <3>5. Kids(stack[k].node)[j] \in Nodes
      BY <3>4, <2>1, <2>2, <1>1, KidFacts
    <3>6. QED
      BY <3>2, <3>5, <2>2, GoodStays
  <2>3. CASE Enters /\ NotedNext(k) = 0
    BY <2>1, <2>3
  <2>4. CASE NotesSequence /\ k = Len(stack) /\ NotedNext(k) = Top.i /\ Noted(k) = Top.i - 1
             /\ stack'[k].node = Top.node /\ stack'[k].sub = Top.sub
    <3>1. /\ ctl.op = "return" /\ Len(stack) > 0 /\ k \in 1..Len(stack) /\ Kind(Top.node) \in SequenceKinds
          /\ stack'[k].ret = MoreCritical(Top.ret, ctl.ret)
      BY <2>4, <1>1 DEF NotesSequence, InSeq, TopSet
    <3>2. Top.ret = "CONTINUE" /\ ctl.ret = "CONTINUE"
      <4>1. Top.ret \in Rets /\ ctl.ret \in Rets
        BY <3>1, TopFacts, ControlFacts DEF Core, Shape, TypeOK
      <4>2. QED
        BY <4>1, <3>1, <2>1 DEF MoreCritical, Rets
    <3>3. ~IsFail(Top.sub) /\ Top = stack[k]
      BY <2>1, <2>4, <3>1, <1>1, FailStays
    <3>4. j \in 1..Len(Kids(Top.node)) /\ j \in 1..Top.i
      BY <2>4, <3>1, <3>3, <1>1
    <3>5. Kids(Top.node)[j] \in Nodes /\ Kids(Top.node)[j] # 0
      BY <3>1, <3>3, <3>4, <1>1, KidFacts
    <3>6. ends[Kids(Top.node)[j]] \in Good
      <4>1. CASE j = Top.i
        <5>1. Clean(Kids(Top.node)[Top.i])
          BY <4>1, <3>1, <3>2, <3>3, <3>5 DEF DoneInv
        <5>2. QED
          BY <4>1, <5>1, <2>1, <2>4 DEF Clean
      <4>2. CASE j # Top.i
        <5>1. j \in 1..Noted(k)
          BY <4>2, <3>3, <3>4, <2>4, <1>1, <3>1
        <5>2. QED
          BY <5>1, <3>1, <3>2, <3>3, <2>1, <2>4 DEF DoneInv
      <4>3. QED
        BY <4>1, <4>2
    <3>7. QED
      BY <3>5, <3>6, <2>4, GoodStays
  <2>5. CASE (EntersGroup \/ NotesMain) /\ k = Len(stack) /\ stack'[k].node = Top.node
    BY <2>1, <2>5, <1>1 DEF EntersGroup, NotesMain, InGrp
  <2>6. QED
    BY <2>2, <2>3, <2>4, <2>5, NotedStep
<1> DEFINE f == stack'[Len(stack')]
<1>4. ASSUME ctl'.op = "return", Len(stack') > 0, ctl'.ret = "CONTINUE", ~FailsNext(f.sub),
             Kids(f.node)[f.i] # 0
      PROVE  CleanNext(Kids(f.node)[f.i])
  <2>1. CASE Leaf
    <3>1. /\ stack' = stack /\ Calls /\ ctl.node \in Nodes /\ f = Top
          /\ Kind(ctl.node) \in {"phase", "checkpoint", "branch"}
          /\ Kind(ctl.node) = "phase" => ends'[ctl.node] \in Good \/ FailsNext(ctl.sub)
      BY <2>1, <1>4 DEF Leaf, Top
    <3>2. Kids(Top.node)[Top.i] = ctl.node /\ ctl.sub = Top.sub
      BY <3>1, <1>4 DEF Core, Shape, ControlInv
    <3>3. QED
      BY <3>1, <3>2, <1>4 DEF CleanNext
  <2>2. CASE \E r \in Rets : EndsSequence(r)
    <3>1. PICK r \in Rets : EndsSequence(r)
      BY <2>2
    <3>2. /\ Len(stack) > 0 /\ Len(stack') = Len(stack) - 1 /\ \A k \in 1..(Len(stack) - 1) : stack'[k] = stack[k]
          /\ r = "CONTINUE" /\ Kind(Top.node) \in SequenceKinds
      BY <3>1, <1>4 DEF EndsSequence, InSeq, Popped, Lower, Return
    <3>3. /\ Len(stack) \in 2..Len(stack) /\ Len(stack') \in 1..(Len(stack) - 1) /\ f = stack[Len(stack) - 1]
          /\ Len(stack') \in 1..Len(stack)
      BY <3>2, <1>1, <1>4
    <3>4. /\ Kids(f.node)[f.i] = Top.node /\ Top.sub = Own(Top.node, f.sub) /\ Top.node \in Nodes
      BY <3>3, <1>1 DEF Core, Shape, PathInv
    <3>5. SUFFICES ASSUME Kind(Top.node) = "sequence", NEW j \in 1..Len(Kids(Top.node)),
                          Kind(Kids(Top.node)[j]) = "phase"
                   PROVE  ends'[Kids(Top.node)[j]] \in Good
      BY <3>2, <3>4 DEF CleanNext, SequenceKinds
    <3>6. Top.sub = f.sub
      BY <3>4, <3>5 DEF Own
    <3>7. ~IsFail(Top.sub)
      BY <3>2, <3>3, <3>6, <1>1, <1>4, FailStays
    <3>8. ctl.op = "loop" /\ AtEnd /\ Top.ret = "CONTINUE"
      <4>1. ctl.op = "loop" /\ AtEnd /\ (Top.td => Top.ret = "CONTINUE")
        BY <3>1, <3>2 DEF EndsSequence
      <4>2. Top.ret = "TERMINAL" => Remembers(Len(stack))
        BY <3>2, <1>1 DEF Core, ReturnInv
      <4>3. Top.ret \in Rets
        BY <3>2, TopFacts DEF Core, Shape
      <4>4. QED
        BY <4>1, <4>2, <4>3, <3>2, <1>1 DEF Remembers, Rets
    <3>9. Noted(Len(stack)) = Len(Kids(Top.node))
      BY <3>2, <3>8, <1>1 DEF Noted, AtEnd
    <3>10. ends[Kids(Top.node)[j]] \in Good
      BY <3>2, <3>5, <3>7, <3>8, <3>9, <1>1 DEF DoneInv
    <3>11. QED
      BY <3>2, <3>4, <3>10, KidFacts, GoodStays
  <2>3. CASE EndsGroup
    <3>1. /\ Len(stack) > 0 /\ Len(stack') = Len(stack) - 1 /\ \A k \in 1..(Len(stack) - 1) : stack'[k] = stack[k]
          /\ Kind(Top.node) = "group"
      BY <2>3 DEF EndsGroup, InGrp, Popped, Lower
    <3>2. /\ Len(stack) \in 2..Len(stack) /\ Len(stack') \in 1..(Len(stack) - 1) /\ f = stack[Len(stack) - 1]
      BY <3>1, <1>1, <1>4
    <3>3. Kids(f.node)[f.i] = Top.node
      BY <3>1, <3>2, <1>1 DEF Core, Shape, PathInv
    <3>4. QED
      BY <3>1, <3>3 DEF CleanNext
  <2>4. CASE StepsGroup
    <3>1. /\ TopSet(Top.i + 1, Top.ret, Top.skip) /\ Len(stack) > 0
          /\ \/ Kids(Top.node)[Top.i + 1] = 0
             \/ \E td : ctl' = Call(Kids(Top.node)[Top.i + 1], Top.sub, td)
      BY <2>4 DEF StepsGroup, StepMove, InGrp
    <3>2. f.node = Top.node /\ f.i = Top.i + 1
      BY <3>1 DEF TopSet
    <3>3. QED
      BY <3>1, <3>2, <1>4 DEF Call
  <2>5. CASE LeavesGroup
    BY <2>5, <1>4 DEF LeavesGroup
  <2>6. CASE Stays
    <3>1. stack' = stack /\ ctl' = ctl /\ subtest' = subtest /\ f = Top
      BY <2>6 DEF Stays, Quiet, SameData, Top
    <3>2. ~IsFail(Top.sub)
      BY <3>1, <1>4 DEF IsFail, FailsNext
    <3>3. Clean(Kids(Top.node)[Top.i])
      BY <3>1, <3>2, <1>4 DEF DoneInv
    <3>4. Top.i \in 1..Len(Kids(Top.node)) /\ Top.node \in Nodes
      <4>1. Top.i >= 1
        BY <3>1, <1>4 DEF Core, Shape, ControlInv
      <4>2. QED
        BY <4>1, <3>1, <1>1, <1>4
    <3>5. QED
      BY <3>1, <3>3, <3>4, <1>4, KidFacts, GoodStays
  <2>7. ~Starts
    <3>1. SUFFICES ASSUME Starts PROVE FALSE
      OBVIOUS
    <3>2. /\ ctl = [op |-> ctl.op, node |-> ctl.node, sub |-> ctl.sub, td |-> ctl.td]
          /\ ctl.op = "call" /\ ctl' = [ctl EXCEPT !.op = "run"]
      BY <3>1, ControlFacts DEF Starts, RunMove, Core, Shape, TypeOK
    <3>3. ctl'.op = "run"
      BY <3>2
    <3>4. QED
      BY <3>3, <1>4
  <2>8. QED
    BY <2>1, <2>2, <2>3, <2>4, <2>5, <2>6, <2>7, <1>4 DEF Steps, Enters, EnterMove, Pushed, Loop, Crash,
       StepsSequence, NotesSequence, EntersGroup, NotesMain, Call, EndsWalk
<1> HIDE DEF f
<1>5. f = stack'[Len(stack')]
  BY DEF f
<1>6. QED
  BY <1>3, <1>4, <1>5, DonePrime

LEMMA GroupFacts ==
  ASSUME tree \in Trees
  PROVE  /\ \A g \in Nodes : Kind(g) = "group" =>
              Len(Kids(g)) = 3 /\ 1 \in 1..Len(Kids(g)) /\ \A p \in 1..3 : p \in 1..Len(Kids(g))
         /\ \A g \in Groups : /\ g \in Nodes /\ Kind(g) = "group" /\ 1 \in 1..Len(Kids(g))
                              /\ \A p \in 1..3 : p \in 1..Len(Kids(g))
<1>1. ASSUME NEW g \in Nodes, Kind(g) = "group"
      PROVE  Len(Kids(g)) = 3 /\ 1 \in 1..Len(Kids(g)) /\ \A p \in 1..3 : p \in 1..Len(Kids(g))
  <2>1. Len(Kids(g)) = 3
    BY <1>1, TreeFacts
  <2>2. QED
    BY <2>1
<1>2. QED
  BY <1>1 DEF Groups

LEMMA SetupStep ==
  ASSUME Core, DoneInv, SetupInv, tree' = tree, Steps
  PROVE  SetupInv'
<1>1. /\ Len(stack) \in Nat /\ (Len(stack) > 0 => Len(stack) \in 1..Len(stack) /\ Top = stack[Len(stack)])
      /\ \A k \in 1..Len(stack) : stack[k].node \in Nodes
      /\ "group" \notin SequenceKinds
      /\ \A n \in Nodes : Kind(n) = "group" => 1 \in 1..Len(Kids(n))
  BY StackFacts, GroupFacts DEF Core, Shape, Top, SequenceKinds, TypeOK
<1>2. ASSUME NEW g \in Nodes, Kind(g) = "group", Kids(g)[1] # 0, Clean(Kids(g)[1])
      PROVE  CleanNext(Kids(g)[1])
  <2>1. Kids(g)[1] \in Nodes
    BY <1>1, <1>2, KidFacts
  <2>2. QED
    BY <2>1, <1>2, GoodStays
<1>3. ASSUME NEW k \in 1..Len(stack'), Kind(stack'[k].node) = "group", NotedNext(k) >= 1, ~stack'[k].skip,
             Kids(stack'[k].node)[1] # 0
      PROVE  CleanNext(Kids(stack'[k].node)[1])
  <2>1. CASE /\ k \in 1..Len(stack) /\ NotedNext(k) = Noted(k)
             /\ stack'[k].node = stack[k].node /\ stack'[k].skip = stack[k].skip
    BY <2>1, <1>1, <1>2, <1>3 DEF SetupInv
  <2>2. CASE Enters /\ NotedNext(k) = 0
    BY <2>2, <1>3
  <2>3. CASE NotesSequence /\ k = Len(stack) /\ stack'[k].node = Top.node
    BY <2>3, <1>1, <1>3 DEF NotesSequence, InSeq
  <2>4. CASE EntersGroup /\ k = Len(stack) /\ stack'[k].node = Top.node
    <3> DEFINE b == Top.skip \/ IsFail(Top.sub)
    <3>1. /\ ctl.op = "return" /\ ctl.ret = "CONTINUE" /\ Top.i = 1 /\ stack'[k].skip = b /\ Len(stack) > 0
      BY <2>4 DEF EntersGroup, InGrp, TopSet
    <3>2. ~IsFail(Top.sub)
      BY <3>1, <1>3
    <3> HIDE DEF b
    <3>3. Clean(Kids(Top.node)[Top.i])
      BY <3>1, <3>2, <2>4, <1>3 DEF DoneInv
    <3>4. QED
      BY <3>1, <3>3, <2>4, <1>1, <1>2, <1>3
  <2>5. CASE NotesMain /\ k = Len(stack) /\ Noted(k) = Top.i - 1 /\ stack'[k].node = Top.node
    <3>1. Len(stack) > 0 /\ Top.i = 2 /\ stack'[k].skip = Top.skip
      BY <2>5 DEF NotesMain, InGrp, TopSet
    <3>2. k \in 1..Len(stack) /\ Top = stack[k] /\ Noted(k) >= 1
      BY <3>1, <2>5, <1>1
    <3>3. QED
      BY <3>1, <3>2, <2>5, <1>1, <1>2, <1>3 DEF SetupInv
  <2>6. QED
    BY <2>1, <2>2, <2>3, <2>4, <2>5, NotedStep
<1>4. QED
  BY <1>3, SetupPrime

(* A phase that is called in part p of a group: the two frames above it. *)
LEMMA InPart ==
  ASSUME Core, Calls, NEW g \in Groups, NEW p \in 1..3, ctl.node \in PartPhases(g, p)
  PROVE  /\ Len(stack) \in Nat /\ Len(stack) \in 2..Len(stack) /\ Len(stack) - 1 \in 1..Len(stack)
         /\ Len(stack) \in 1..Len(stack)
         /\ stack[Len(stack) - 1].node = g /\ stack[Len(stack) - 1].i = p
         /\ Top = stack[Len(stack)] /\ Top.node = Kids(g)[p] /\ Kind(Top.node) = "sequence"
         /\ Top.td = Passed(stack[Len(stack) - 1]) /\ Top.sub = stack[Len(stack) - 1].sub
         /\ ctl.td = Top.td /\ ctl.sub = Top.sub
<1>1. /\ tree \in Trees /\ g \in Nodes /\ Kind(g) = "group" /\ p \in 1..Len(Kids(g))
      /\ \A m \in Nodes : m \in Nat /\ m # 0 /\ m >= 1
      /\ Len(stack) \in Nat
  <2>1. tree \in Trees /\ Len(stack) \in Nat
    BY StackFacts DEF Core, Shape, TypeOK
  <2>2. g \in Nodes /\ Kind(g) = "group" /\ p \in 1..Len(Kids(g))
    BY <2>1, GroupFacts
  <2>3. QED
    BY <2>1, <2>2, TreeFacts
<1>2. /\ Kids(g)[p] # 0 /\ ctl.node \in Nodes /\ Kind(ctl.node) = "phase"
      /\ \E j \in 1..Len(Kids(Kids(g)[p])) : Kids(Kids(g)[p])[j] = ctl.node
  BY DEF PartPhases
<1> DEFINE t == Kids(g)[p]
<1>3. t \in Nodes /\ Kind(t) = "sequence" /\ t > g /\ t # 1
  BY <1>1, <1>2, KidFacts
<1> HIDE DEF t
<1>4. PICK j \in 1..Len(Kids(t)) : Kids(t)[j] = ctl.node
  BY <1>2 DEF t
<1>5. Len(stack) > 0
  <2>1. SUFFICES ASSUME Len(stack) = 0 PROVE FALSE
    BY <1>1
  <2>2. ctl.node = 1
    BY <2>1 DEF Core, Shape, ControlInv
  <2>3. QED
    BY <2>2, <1>2, TreeFacts, <1>1
<1>6. /\ Len(stack) \in 1..Len(stack) /\ Top = stack[Len(stack)] /\ Top.node \in Nodes
      /\ Top.i \in 1..Len(Kids(Top.node)) /\ Kids(Top.node)[Top.i] = ctl.node
      /\ ctl.sub = Top.sub /\ ctl.td = Passed(Top)
  <2>1. Top.i >= 1 /\ Kids(Top.node)[Top.i] = ctl.node /\ ctl.sub = Top.sub /\ ctl.td = Passed(Top)
    BY <1>5 DEF Core, Shape, ControlInv
  <2>2. Len(stack) \in 1..Len(stack) /\ Top = stack[Len(stack)] /\ Top.node \in Nodes
        /\ Top.i \in Nat /\ Top.i <= Len(Kids(Top.node)) /\ Len(Kids(Top.node)) \in Nat
    BY <1>1, <1>5, TopFacts, TreeFacts DEF Core, Shape
  <2>3. Top.i \in 1..Len(Kids(Top.node))
    BY <2>1, <2>2
  <2>4. QED
    BY <2>1, <2>2, <2>3
<1>7. Top.node = t
  BY <1>1, <1>2, <1>3, <1>4, <1>6, OneParent
<1>8. Len(stack) # 1
  BY <1>3, <1>6, <1>7 DEF Core, Shape, PathInv
<1>9. Len(stack) \in 2..Len(stack) /\ Len(stack) - 1 \in 1..Len(stack)
  <2>1. Len(stack) \in Nat /\ Len(stack) > 0 /\ Len(stack) # 1
    BY <1>1, <1>5, <1>8
  <2>2. \A n \in Nat : n > 0 /\ n # 1 => n \in 2..n /\ n - 1 \in 1..n
    OBVIOUS
  <2>3. QED
    BY <2>1, <2>2
<1> DEFINE f == stack[Len(stack) - 1]
<1>10. /\ f.i >= 1 /\ Kids(f.node)[f.i] = Top.node /\ Top.sub = Own(Top.node, f.sub) /\ Top.td = Passed(f)
       /\ f.node \in Nodes /\ f.i \in Nat /\ f.i <= Len(Kids(f.node)) /\ Len(Kids(f.node)) \in Nat
  <2>1. f.i >= 1 /\ Kids(f.node)[f.i] = Top.node /\ Top.sub = Own(Top.node, f.sub) /\ Top.td = Passed(f)
    BY <1>6, <1>9 DEF Core, Shape, PathInv
  <2>2. f.node \in Nodes /\ f.i \in Nat /\ f.i <= Len(Kids(f.node)) /\ Len(Kids(f.node)) \in Nat
    BY <1>1, <1>9, StackFacts, TreeFacts DEF Core, Shape
  <2>3. QED
    BY <2>1, <2>2
<1> HIDE DEF f
<1>11. f.i \in 1..Len(Kids(f.node))
  BY <1>10
<1>12. f.node = g /\ f.i = p
  BY <1>1, <1>3, <1>7, <1>10, <1>11, OneParent DEF t
<1>13. Passed(Top) = Top.td /\ Top.sub = f.sub
  BY <1>3, <1>7, <1>10 DEF Passed, Own
<1>14. QED
  BY <1>1, <1>3, <1>6, <1>7, <1>9, <1>10, <1>12, <1>13 DEF f, t

(* A phase that runs, or ends without being skipped, in the teardown of a group: the group was
   entered. In the main part: the group is not skipped, unless it is in a teardown. *)
LEMMA RunsInPart ==
  ASSUME Core, ctl.op = "run", NEW g \in Groups, NEW p \in 1..3, ctl.node \in PartPhases(g, p),
         stack[Len(stack) - 1].skip
  PROVE  p # 3 /\ stack[Len(stack) - 1].td
<1> DEFINE f == stack[Len(stack) - 1]
<1>1. Calls
  BY DEF Calls
<1>2. /\ Len(stack) \in Nat /\ Len(stack) - 1 \in 1..Len(stack) /\ Len(stack) \in 1..Len(stack)
      /\ f.node = g /\ f.i = p /\ Top = stack[Len(stack)]
      /\ Top.td = Passed(f) /\ Top.sub = f.sub /\ ctl.td = Top.td /\ ctl.sub = Top.sub
  BY <1>1, InPart
<1>3. IsFail(f.sub)
  BY <1>2 DEF Core, SubtestInv
<1>4. IsFail(ctl.sub)
  BY <1>2, <1>3
<1>5. ctl.td
  BY <1>4 DEF Core, SubtestInv
<1>6. Passed(f)
  BY <1>2, <1>5
<1>7. Kind(f.node) = "group"
  BY <1>2 DEF Groups
<1>8. QED
  BY <1>2, <1>6, <1>7 DEF Passed


LEMMA TeardownOnlyStep ==
  ASSUME Core, SetupInv, TeardownOnlyIfEntered, tree' = tree, Steps
  PROVE  TeardownOnlyIfEntered'
<1>1. ASSUME NEW g \in Groups, NEW n \in PartPhases(g, 3), ends'[n] \notin {"NONE", "SKIPPED"},
             NEW m \in PartPhases(g, 1)
      PROVE  ends'[m] \in Good
  <2>1. n \in Nodes /\ m \in Nodes
    BY DEF PartPhases
  <2>2. CASE ends[n] \notin {"NONE", "SKIPPED"}
    <3>1. ends[m] \in Good
      BY <2>2, <1>1 DEF TeardownOnlyIfEntered, Ran, Good
    <3>2. QED
      BY <3>1, <2>1, GoodStays
  <2>3. CASE ends[n] \in {"NONE", "SKIPPED"}
    <3>1. ends'[n] # ends[n]
      BY <2>3, <1>1
    <3>2. Leaf \/ Crash
      BY <3>1 DEF Steps, Enters, EnterMove, Starts, RunMove, StepMove, EndsSequence, Quiet, SameData,
         StepsSequence, NotesSequence, StepsGroup, LeavesGroup, EntersGroup, NotesMain, EndsGroup, EndsWalk, Stays
    <3>3. n = ctl.node /\ ctl.op = "run" /\ Calls
      BY <3>1, <3>2, <2>1, <1>1 DEF Leaf, Crash, Calls, PartPhases
    <3> DEFINE f == stack[Len(stack) - 1]
    <3>4. Len(stack) - 1 \in 1..Len(stack) /\ f.node = g /\ f.i = 3 /\ Kind(f.node) = "group"
          /\ ~(Len(stack) - 1 = Len(stack))
      BY <3>3, InPart DEF Groups
    <3>5. ~f.skip
      BY <3>3, RunsInPart
    <3>6. Noted(Len(stack) - 1) = 2
      BY <3>4 DEF Noted
    <3>7. Kids(g)[1] # 0 /\ \E j \in 1..Len(Kids(Kids(g)[1])) : Kids(Kids(g)[1])[j] = m
      BY DEF PartPhases
    <3>8. Clean(Kids(g)[1])
      BY <3>4, <3>5, <3>6, <3>7 DEF SetupInv
    <3>9. Kind(Kids(g)[1]) = "sequence" /\ Kind(m) = "phase"
      <4>1. g \in Nodes /\ Kind(g) = "group" /\ 1 \in 1..Len(Kids(g))
        BY GroupFacts DEF Core, Shape, TypeOK
      <4>2. QED
        BY <4>1, <3>7, KidFacts DEF PartPhases
    <3>10. ends[m] \in Good
      BY <3>7, <3>8, <3>9 DEF Clean, GoodPhases
    <3>11. QED
      BY <3>10, <2>1, GoodStays
  <2>4. QED
    BY <2>2, <2>3
<1>2. Groups' = Groups /\ \A g, p : PartPhases(g, p)' = PartPhases(g, p)
  BY DEF Groups, PartPhases, Kids, Kind, Nodes
<1>3. QED
  BY <1>1, <1>2 DEF TeardownOnlyIfEntered, Ran, Good

LEMMA SubtestPassStep ==
  ASSUME Core, DoneInv, SubtestPassIsEarned, tree' = tree, Steps
  PROVE  SubtestPassIsEarned'
<1>1. ASSUME NEW s \in Nodes, Kind(s) = "subtest", records'[s] = "PASS",
             NEW j \in 1..Len(Kids(s)), Kind(Kids(s)[j]) = "phase"
      PROVE  ends'[Kids(s)[j]] \in Good
  <2>1. Kids(s)[j] \in Nodes
    BY <1>1, KidFacts DEF SequenceKinds
  <2>2. CASE records[s] = "PASS"
    <3>1. ends[Kids(s)[j]] \in Good
      BY <2>2, <1>1 DEF SubtestPassIsEarned, Good
    <3>2. QED
      BY <3>1, <2>1, GoodStays
  <2>3. CASE records[s] # "PASS"
    <3>1. \E r \in Rets : EndsSequence(r)
      BY <2>3, <1>1 DEF Steps, Enters, EnterMove, Starts, RunMove, StepMove, Leaf, Crash, Quiet, SameData,
         StepsSequence, NotesSequence, StepsGroup, LeavesGroup, EntersGroup, NotesMain, EndsGroup, EndsWalk, Stays
    <3>2. PICK r \in Rets : EndsSequence(r)
      BY <3>1
    <3>3. s = Top.node /\ Len(stack) > 0
      BY <3>2, <2>3, <1>1 DEF EndsSequence, InSeq
    <3>4. /\ r = "CONTINUE" /\ subtest[s] = "PASS"
          /\ ctl.op = "loop" /\ AtEnd /\ (Top.td => Top.ret = "CONTINUE")
      <4>1. subtest'[s] = "PASS"
        BY <3>2, <3>3, <1>1 DEF EndsSequence
      <4>2. r # "TERMINAL" /\ subtest[s] = "PASS"
        BY <4>1, <3>2, <3>3, <1>1 DEF EndsSequence
      <4>3. QED
        BY <4>2, <3>2 DEF EndsSequence, Rets
    <3>5. Len(stack) \in 1..Len(stack) /\ Top = stack[Len(stack)] /\ Top.ret \in Rets /\ Kind(Top.node) \in SequenceKinds
          /\ Kind(Top.node) # "group"
      BY <3>3, <1>1, StackFacts, TopFacts DEF Core, Shape, SequenceKinds
    <3>6. Top.ret = "CONTINUE"
      BY <3>4, <3>5 DEF Core, ReturnInv, Remembers, Rets
    <3>7. ~IsFail(Top.sub)
      BY <3>3, <3>4, <3>5, <1>1, OwnSub DEF Core, IsFail
    <3>8. Noted(Len(stack)) = Len(Kids(s))
      BY <3>3, <3>4, <3>5 DEF Noted, AtEnd
    <3>9. ends[Kids(s)[j]] \in Good
      BY <3>3, <3>5, <3>6, <3>7, <3>8, <1>1 DEF DoneInv
    <3>10. QED
      BY <3>9, <2>1, GoodStays
  <2>4. QED
    BY <2>2, <2>3
<1>2. QED
  BY <1>1 DEF SubtestPassIsEarned, Nodes, Kind, Kids, Good

(* The inductive invariant of SubtestPassIsEarned and TeardownOnlyIfEntered. *)
Earned == Core /\ DoneInv /\ SetupInv /\ TeardownOnlyIfEntered /\ SubtestPassIsEarned

LEMMA EarnedInit == Init => Earned
<1> SUFFICES ASSUME Init PROVE Earned
  OBVIOUS
<1>1. Core
  BY CoreInit
<1>2. /\ Len(stack) = 0 /\ ctl.op = "call"
      /\ \A n \in Nodes : ends[n] = "NONE" /\ records[n] = "NONE"
  BY DEF Init, Call
<1>3. DoneInv /\ SetupInv
  BY <1>2 DEF DoneInv, SetupInv
<1>4. TeardownOnlyIfEntered /\ SubtestPassIsEarned
  BY <1>2 DEF TeardownOnlyIfEntered, SubtestPassIsEarned, PartPhases, Ran
<1>5. QED
  BY <1>1, <1>3, <1>4 DEF Earned

LEMMA EarnedStep == Earned /\ [Next]_vars => Earned' /\ tree' = tree /\ Steps
<1> SUFFICES ASSUME Earned, [Next]_vars PROVE Earned' /\ tree' = tree /\ Steps
  OBVIOUS
<1>1. Core' /\ tree' = tree /\ Steps
  BY CoreStep DEF Earned
<1>2. DoneInv' /\ SetupInv' /\ TeardownOnlyIfEntered' /\ SubtestPassIsEarned'
  BY <1>1, DoneStep, SetupStep, TeardownOnlyStep, SubtestPassStep DEF Earned
<1>3. QED
  BY <1>1, <1>2 DEF Earned

(* A teardown phase runs only when every setup phase of its group ended well. *)
THEOREM TeardownOnlyAfterSetup == Spec => []TeardownOnlyIfEntered
<1>1. Earned => TeardownOnlyIfEntered
  BY DEF Earned
<1>2. QED
  BY EarnedInit, EarnedStep, <1>1, PTL DEF Spec

(* None of the phases of a subtest that is recorded as PASS was skipped, ended the test or
   failed the subtest. *)
THEOREM SubtestPass == Spec => []SubtestPassIsEarned
<1>1. Earned => SubtestPassIsEarned
  BY DEF Earned
<1>2. QED
  BY EarnedInit, EarnedStep, <1>1, PTL DEF Spec

-----------------------------------------------------------------------------
(* The teardown of a group that was entered. *)

(* A test whose groups are not in the teardown of another group and in a subtest as well, and
   that does not stop on its first failure. *)
Plain ==
    /\ ~StopOnFirstFailure
    /\ ~ \E g, h, s \in Nodes : /\ Kind(g) = "group" /\ Kind(h) = "group" /\ Kind(s) = "subtest"
                                /\ Within(s, g) /\ Kids(h)[3] # 0 /\ Within(Kids(h)[3], g)

(* The kids of a node that have returned to its frame. *)
Completed(k) == IF k = Len(stack) /\ ctl.op \in {"loop", "return"} THEN stack[k].i ELSE stack[k].i - 1
CompletedNext(k) ==
    IF k = Len(stack') /\ ctl'.op \in {"loop", "return"} THEN stack'[k].i ELSE stack'[k].i - 1

RanNext(n) == ends'[n] \notin {"NONE", "SKIPPED"}

(* The phases of a teardown sequence run one after another. *)
TdDoneInv ==
    ~fullAbort => \A k \in 1..Len(stack) : Kind(stack[k].node) \in SequenceKinds /\ stack[k].td =>
        \A j \in 1..Completed(k) : Kind(Kids(stack[k].node)[j]) = "phase" => Ran(Kids(stack[k].node)[j])

(* When a teardown returns to its group, its phases have run. *)
ReturnedInv ==
    ~fullAbort /\ ctl.op = "return" /\ Len(stack) > 0
      /\ Kind(Top.node) = "group" /\ Top.i = 3 /\ ~Top.skip =>
        \A n \in PartPhases(Top.node, 3) : Ran(n)

(* The main phases of a group that is skipped do not run. *)
MainSkipInv ==
    \A k \in 1..Len(stack) : Kind(stack[k].node) = "group" /\ stack[k].skip =>
        \A n \in PartPhases(stack[k].node, 2) : ~Ran(n)

(* A group whose main phases have run is still on the stack, or has been torn down. *)
AfterMainInv ==
    ~fullAbort => \A g \in Groups : (\E n \in PartPhases(g, 2) : Ran(n)) =>
        \/ \E k \in 1..Len(stack) : stack[k].node = g
        \/ \A n \in PartPhases(g, 3) : Ran(n)

LEMMA RanStays ==
  ASSUME Core, Steps
  PROVE  /\ \A n \in Nodes : Ran(n) => RanNext(n)
         /\ fullAbort => fullAbort'
         /\ \A n \in Nodes : RanNext(n) /\ ~Ran(n) =>
              n = ctl.node /\ ctl.op = "run" /\ Calls /\ (Leaf \/ Crash)
<1>1. \A n \in Nodes : Ran(n) => RanNext(n)
  BY EndsStay DEF Ran, RanNext
<1>2. fullAbort => fullAbort'
  BY DEF Flags, Steps, Enters, Starts, Leaf, Crash, EndsSequence,
   StepsSequence, NotesSequence, StepsGroup, LeavesGroup, EntersGroup, NotesMain, EndsGroup, EndsWalk, Stays
<1>3. ASSUME NEW n \in Nodes, RanNext(n), ~Ran(n)
      PROVE  n = ctl.node /\ ctl.op = "run" /\ Calls /\ (Leaf \/ Crash)
  <2>1. ends'[n] # ends[n] /\ ends'[n] \notin {"NONE", "SKIPPED"}
    BY <1>3 DEF Ran, RanNext
  <2>2. Leaf \/ Crash
    BY <2>1 DEF Steps, Enters, EnterMove, Starts, RunMove, StepMove, EndsSequence, Quiet, SameData,
       StepsSequence, NotesSequence, StepsGroup, LeavesGroup, EntersGroup, NotesMain, EndsGroup, EndsWalk, Stays
  <2>3. QED
    BY <2>1, <2>2 DEF Leaf, Crash, Calls
<1>4. QED
  BY <1>1, <1>2, <1>3

(* How far a step takes the frames. *)
LEMMA CompletedStep ==
  ASSUME Core, Steps, NEW k \in 1..Len(stack')
  PROVE  \/ /\ k \in 1..Len(stack) /\ CompletedNext(k) = Completed(k)
            /\ stack'[k].node = stack[k].node /\ stack'[k].td = stack[k].td
         \/ Enters /\ k = Len(stack) + 1 /\ CompletedNext(k) = 0
         \/ /\ Leaf /\ k = Len(stack) /\ stack' = stack /\ Len(stack) > 0
            /\ CompletedNext(k) = Top.i /\ Completed(k) = Top.i - 1 /\ Kids(Top.node)[Top.i] = ctl.node
         \/ /\ Popped /\ k = Len(stack) - 1 /\ stack'[k] = stack[k]
            /\ CompletedNext(k) = stack[k].i /\ Completed(k) = stack[k].i - 1
            /\ Kids(stack[k].node)[stack[k].i] = Top.node
         \/ /\ StepsGroup /\ k = Len(stack) /\ stack'[k].node = Top.node /\ Completed(k) = Top.i
            /\ \/ CompletedNext(k) = Top.i
               \/ CompletedNext(k) = Top.i + 1 /\ Kids(Top.node)[Top.i + 1] = 0
<1>1. /\ Len(stack) \in Nat /\ (Len(stack) > 0 => Len(stack) \in 1..Len(stack) /\ Top = stack[Len(stack)])
      /\ \A j \in 1..Len(stack) : stack[j].i \in Nat
  BY StackFacts DEF Core, Shape, Top
<1>2. CASE Enters
  <2>1. CASE k \in 1..Len(stack)
    BY <2>1, <1>2, EntersFacts DEF Core, Completed, CompletedNext
  <2>2. CASE k = Len(stack) + 1
    BY <2>2, <1>2, EntersFacts DEF Core, CompletedNext
  <2>3. QED
    BY <2>1, <2>2, <1>2, EntersFacts DEF Core
<1>3. CASE ~Enters /\ k < Len(stack)
  <2>1. /\ k \in 1..Len(stack) /\ stack'[k] = stack[k] /\ Len(stack') <= Len(stack) /\ Len(stack') \in Nat
    BY <1>3, OtherSteps DEF Core
  <2>2. Completed(k) = stack[k].i - 1
    BY <1>3 DEF Completed
  <2>3. CASE k = Len(stack')
    <3>1. Popped /\ ctl'.op = "return"
      <4>1. Len(stack') # Len(stack)
        BY <1>3, <2>3
      <4>2. Len(stack') # 0
        BY <2>3
      <4>3. LeavesGroup \/ EndsGroup \/ \E r \in Rets : EndsSequence(r)
        BY <4>1, <4>2, <1>3 DEF Steps, Starts, RunMove, Leaf, Crash, StepsSequence, StepsGroup, StepMove, NotesSequence,
           EntersGroup, NotesMain, TopSet, EndsWalk, Stays
      <4>4. QED
        BY <4>3 DEF LeavesGroup, EndsGroup, EndsSequence, Return
    <3>2. k = Len(stack) - 1 /\ Len(stack) \in 2..Len(stack)
      <4>1. Len(stack') = Len(stack) - 1
        BY <3>1 DEF Popped
      <4>2. QED
        BY <4>1, <2>1, <2>3, <1>1, <1>3
    <3>3. Kids(stack[k].node)[stack[k].i] = Top.node
      BY <3>2, <1>1 DEF Core, Shape, PathInv
    <3>4. QED
      BY <3>1, <3>2, <3>3, <2>1, <2>2, <2>3 DEF CompletedNext
  <2>4. CASE k # Len(stack')
    BY <2>1, <2>2, <2>4 DEF CompletedNext
  <2>5. QED
    BY <2>3, <2>4
<1>4. CASE ~Enters /\ ~(k < Len(stack))
  <2>1. /\ k \in 1..Len(stack) /\ k = Len(stack) /\ Len(stack') = Len(stack) /\ Len(stack) > 0
        /\ stack'[k].node = stack[k].node /\ stack'[k].td = stack[k].td
    BY <1>1, <1>4, OtherSteps DEF Core
  <2>2. CASE Starts
    <3>1. ctl = [op |-> ctl.op, node |-> ctl.node, sub |-> ctl.sub, td |-> ctl.td]
          /\ ctl.op = "call" /\ ctl' = [ctl EXCEPT !.op = "run"] /\ stack' = stack
      BY <2>2, ControlFacts DEF Starts, RunMove, Core, Shape, TypeOK
    <3>2. ctl'.op = "run"
      BY <3>1
    <3>3. QED
      BY <3>1, <3>2, <2>1 DEF Completed, CompletedNext
  <2>3. CASE Stays
    BY <2>1, <2>3 DEF Stays, Completed, CompletedNext
  <2>4. CASE Leaf
    <3>1. /\ stack' = stack /\ Calls /\ ctl'.op = "return"
      BY <2>4 DEF Leaf
    <3>2. Kids(Top.node)[Top.i] = ctl.node
      BY <3>1, <2>1 DEF Core, Shape, ControlInv
    <3>3. QED
      BY <3>1, <3>2, <2>1, <2>4, <1>1 DEF Completed, CompletedNext, Calls
  <2>5. CASE StepsSequence
    <3>1. TopSet(Top.i + 1, Top.ret, Top.skip) /\ ctl.op = "loop" /\ ctl'.op = "call"
      BY <2>5 DEF StepsSequence, Call
    <3>2. stack'[k].i = Top.i + 1
      BY <3>1, <2>1 DEF TopSet
    <3>3. QED
      BY <3>1, <3>2, <2>1, <1>1 DEF Completed, CompletedNext
  <2>6. CASE StepsGroup
    <3>1. TopSet(Top.i + 1, Top.ret, Top.skip) /\ ctl.op = "loop"
      BY <2>6 DEF StepsGroup, StepMove
    <3>2. \/ ctl'.op = "call"
          \/ ctl'.op = "return" /\ Kids(Top.node)[Top.i + 1] = 0
      BY <2>6 DEF StepsGroup, StepMove, Call, Return
    <3>3. stack'[k].i = Top.i + 1 /\ stack'[k].node = Top.node
      BY <3>1, <2>1 DEF TopSet
    <3>4. /\ Completed(k) = Top.i
          /\ \/ CompletedNext(k) = Top.i
             \/ CompletedNext(k) = Top.i + 1 /\ Kids(Top.node)[Top.i + 1] = 0
      BY <3>1, <3>2, <3>3, <2>1, <1>1 DEF Completed, CompletedNext
    <3>5. QED
      BY <3>4, <3>3, <2>1, <2>6
  <2>7. CASE NotesSequence \/ EntersGroup \/ NotesMain
    <3>1. ctl.op = "return" /\ ctl'.op = "loop" /\ \E ret, skip : TopSet(Top.i, ret, skip)
      <4>1. CASE EntersGroup
        <5> DEFINE b == Top.skip \/ IsFail(Top.sub)
        <5>1. TopSet(Top.i, Top.ret, b) /\ ctl.op = "return" /\ ctl'.op = "loop"
          BY <4>1 DEF EntersGroup, Loop
        <5> HIDE DEF b
        <5>2. QED
          BY <5>1
      <4>2. CASE NotesSequence \/ NotesMain
        BY <4>2 DEF NotesSequence, NotesMain, Loop
      <4>3. QED
        BY <2>7, <4>1, <4>2
    <3>2. stack'[k].i = Top.i
      BY <3>1, <2>1 DEF TopSet
    <3>3. QED
      BY <3>1, <3>2, <2>1, <1>1 DEF Completed, CompletedNext
  <2>8. CASE Crash \/ EndsWalk \/ LeavesGroup \/ EndsGroup \/ (\E r \in Rets : EndsSequence(r))
    BY <2>1, <2>8 DEF Crash, EndsWalk, LeavesGroup, EndsGroup, EndsSequence, Popped
  <2>9. QED
    BY <2>2, <2>3, <2>4, <2>5, <2>6, <2>7, <2>8, <1>4 DEF Steps
<1>5. QED
  BY <1>2, <1>3, <1>4

LEMMA TdDonePrime ==
  ASSUME tree' = tree,
         ~fullAbort' => \A k \in 1..Len(stack') : Kind(stack'[k].node) \in SequenceKinds /\ stack'[k].td =>
            \A j \in 1..CompletedNext(k) : Kind(Kids(stack'[k].node)[j]) = "phase" =>
                                             RanNext(Kids(stack'[k].node)[j])
  PROVE  TdDoneInv'
BY DEF TdDoneInv, Kind, Kids, Ran, RanNext, Completed, CompletedNext

LEMMA TdDoneStep ==
  ASSUME Core, TdDoneInv, tree' = tree, Steps
  PROVE  TdDoneInv'
<1>1. /\ Len(stack) \in Nat /\ (Len(stack) > 0 => Len(stack) \in 1..Len(stack) /\ Top = stack[Len(stack)])
      /\ \A k \in 1..Len(stack) : stack[k].node \in Nodes /\ stack[k].i \in Nat
                                  /\ stack[k].i <= Len(Kids(stack[k].node))
                                  /\ Len(Kids(stack[k].node)) \in Nat
      /\ "group" \notin SequenceKinds /\ "phase" \notin SequenceKinds
  BY StackFacts, TreeFacts DEF Core, Shape, Top, SequenceKinds, TypeOK
<1>2. ASSUME ~fullAbort', NEW k \in 1..Len(stack'), Kind(stack'[k].node) \in SequenceKinds, stack'[k].td,
             NEW j \in 1..CompletedNext(k), Kind(Kids(stack'[k].node)[j]) = "phase"
      PROVE  RanNext(Kids(stack'[k].node)[j])
  <2>1. ~fullAbort
    BY <1>2, RanStays
  <2>2. ASSUME k \in 1..Len(stack), stack'[k].node = stack[k].node, stack'[k].td = stack[k].td,
               j \in 1..Completed(k)
        PROVE  RanNext(Kids(stack'[k].node)[j])
    <3>1. Ran(Kids(stack[k].node)[j])
      BY <2>1, <2>2, <1>2 DEF TdDoneInv
    <3>2. Completed(k) \in Int /\ Completed(k) <= stack[k].i
      BY <2>2, <1>1 DEF Completed
    <3>3. j \in 1..Len(Kids(stack[k].node))
      BY <3>2, <2>2, <1>1
    <3>4. Kids(stack[k].node)[j] \in Nodes
      BY <3>3, <2>2, <1>1, <1>2, KidFacts
    <3>5. QED
      BY <3>1, <3>4, <2>2, RanStays
  <2>3. CASE k \in 1..Len(stack) /\ CompletedNext(k) = Completed(k)
             /\ stack'[k].node = stack[k].node /\ stack'[k].td = stack[k].td
    BY <2>2, <2>3
  <2>4. CASE Enters /\ CompletedNext(k) = 0
    BY <2>4, <1>2
  <2>5. CASE /\ Leaf /\ k = Len(stack) /\ stack' = stack /\ Len(stack) > 0
             /\ CompletedNext(k) = Top.i /\ Completed(k) = Top.i - 1 /\ Kids(Top.node)[Top.i] = ctl.node
    <3>1. k \in 1..Len(stack) /\ Top = stack[k] /\ Top.i \in Nat
      BY <2>5, <1>1
    <3>2. CASE j = Top.i
      <4>1. Kids(stack'[k].node)[j] = ctl.node /\ Kind(ctl.node) = "phase" /\ Calls
        BY <3>1, <3>2, <2>5, <1>2 DEF Leaf
      <4>2. ctl.td = Passed(Top) /\ Passed(Top) = Top.td /\ Top.td
        <5>1. ctl.td = Passed(Top)
          BY <4>1, <2>5 DEF Core, Shape, ControlInv
        <5>2. Kind(Top.node) # "group" /\ Top.td
          BY <3>1, <2>5, <1>1, <1>2
        <5>3. QED
          BY <5>1, <5>2 DEF Passed
      <4>3. ctl.op = "run"
        BY <4>1, <4>2, <2>5 DEF Leaf, Calls
      <4>4. QED
        BY <4>1, <4>3, <2>5 DEF Leaf, RanNext
    <3>3. CASE j # Top.i
      <4>1. j \in 1..Completed(k)
        BY <3>1, <3>3, <2>5
      <4>2. QED
        BY <4>1, <3>1, <2>2, <2>5
    <3>4. QED
      BY <3>2, <3>3
  <2>6. CASE /\ Popped /\ k = Len(stack) - 1 /\ stack'[k] = stack[k]
             /\ CompletedNext(k) = stack[k].i /\ Completed(k) = stack[k].i - 1
             /\ Kids(stack[k].node)[stack[k].i] = Top.node
    <3>1. k \in 1..Len(stack) /\ stack[k].i \in Nat /\ Len(stack) > 0
      BY <2>6, <1>1
    <3>2. Kind(Top.node) # "phase"
      BY <3>1, <1>1 DEF Core, Shape, PathInv, SequenceKinds
    <3>3. j # stack[k].i
      BY <3>2, <2>6, <1>2
    <3>4. j \in 1..Completed(k)
      BY <3>1, <3>3, <2>6
    <3>5. QED
      BY <3>1, <3>4, <2>2, <2>6
  <2>7. CASE StepsGroup /\ stack'[k].node = Top.node
    BY <2>7, <1>1, <1>2 DEF StepsGroup, InGrp
  <2>8. QED
    BY <2>3, <2>4, <2>5, <2>6, <2>7, CompletedStep
<1>3. QED
  BY <1>2, TdDonePrime

LEMMA ReturnedPrime ==
  ASSUME tree' = tree, NEW f, f = stack'[Len(stack')],
         ~fullAbort' /\ ctl'.op = "return" /\ Len(stack') > 0
           /\ Kind(f.node) = "group" /\ f.i = 3 /\ ~f.skip => \A n \in PartPhases(f.node, 3) : RanNext(n)
  PROVE  ReturnedInv'
<1>1. \A g : PartPhases(g, 3)' = PartPhases(g, 3)
  BY DEF PartPhases, Kids, Kind, Nodes
<1>2. (Kind(Top.node))' = Kind(f.node) /\ Top' = f /\ (PartPhases(Top.node, 3))' = PartPhases(f.node, 3)
  BY DEF Kind, Top, PartPhases, Kids, Nodes
<1>3. QED
  BY <1>2 DEF ReturnedInv, Ran, RanNext

LEMMA ReturnedStep ==
  ASSUME Core, TdDoneInv, ReturnedInv, tree' = tree, Steps
  PROVE  ReturnedInv'
<1>1. /\ Len(stack) \in Nat /\ (Len(stack) > 0 => Len(stack) \in 1..Len(stack) /\ Top = stack[Len(stack)])
      /\ \A k \in 1..Len(stack) : stack[k].node \in Nodes
      /\ "group" \notin SequenceKinds
      /\ \A g \in Nodes : Kind(g) = "group" => 3 \in 1..Len(Kids(g))
  BY StackFacts, GroupFacts DEF Core, Shape, Top, SequenceKinds, TypeOK
<1> DEFINE f == stack'[Len(stack')]
<1>2. ASSUME ~fullAbort', ctl'.op = "return", Len(stack') > 0, Kind(f.node) = "group", f.i = 3, ~f.skip,
             NEW n \in PartPhases(f.node, 3)
      PROVE  RanNext(n)
  <2>1. ~fullAbort
    BY <1>2, RanStays
  <2>2. /\ n \in Nodes /\ Kind(n) = "phase" /\ Kids(f.node)[3] # 0
        /\ \E j \in 1..Len(Kids(Kids(f.node)[3])) : Kids(Kids(f.node)[3])[j] = n
    BY DEF PartPhases
  <2>3. CASE Leaf
    <3>1. stack' = stack /\ f = Top /\ Calls /\ Kind(ctl.node) \in {"phase", "checkpoint", "branch"}
      BY <2>3 DEF Leaf, Top
    <3>2. Kids(f.node)[3] = ctl.node /\ f.node \in Nodes
      BY <3>1, <1>1, <1>2 DEF Core, Shape, ControlInv
    <3>3. Kind(ctl.node) = "sequence"
      BY <3>2, <2>2, <1>1, <1>2, KidFacts
    <3>4. QED
      BY <3>1, <3>3
  <2>4. ASSUME Popped
        PROVE  /\ Len(stack) \in 2..Len(stack) /\ f = stack[Len(stack) - 1] /\ f.node \in Nodes
               /\ Kids(f.node)[3] = Top.node /\ Top.td /\ Top.node \in Nodes /\ Kind(Top.node) = "sequence"
               /\ Len(stack) \in 1..Len(stack)
    <3>1. Len(stack') = Len(stack) - 1 /\ \A k \in 1..(Len(stack) - 1) : stack'[k] = stack[k]
      BY <2>4 DEF Popped, Lower
    <3>2. Len(stack) \in 2..Len(stack) /\ Len(stack') \in 1..(Len(stack) - 1) /\ Len(stack') \in 1..Len(stack)
          /\ Len(stack) \in 1..Len(stack)
      BY <3>1, <1>1, <1>2
    <3>3. f = stack[Len(stack) - 1] /\ f.node \in Nodes
      BY <3>1, <3>2, <1>1
    <3>4. Kids(f.node)[f.i] = Top.node /\ Top.td = Passed(f) /\ Top.node \in Nodes
      BY <3>2, <3>3, <1>1 DEF Core, Shape, PathInv
    <3>5. Passed(f)
      BY <1>2 DEF Passed
    <3>6. Kind(Top.node) = "sequence"
      BY <3>3, <3>4, <2>2, <1>1, <1>2, KidFacts
    <3>7. QED
      BY <3>2, <3>3, <3>4, <3>5, <3>6, <1>2
  <2>5. CASE \E r \in Rets : EndsSequence(r)
    <3>1. PICK r \in Rets : EndsSequence(r)
      BY <2>5
    <3>2. Popped
      BY <3>1 DEF EndsSequence
    <3>3. ctl.op = "loop" /\ AtEnd
      BY <3>1, <3>2, <2>1, <2>4 DEF EndsSequence
    <3>4. Completed(Len(stack)) = Len(Kids(Top.node))
      BY <3>2, <3>3, <2>4, <1>1 DEF Completed, AtEnd
    <3>5. \A j \in 1..Len(Kids(Top.node)) : Kind(Kids(Top.node)[j]) = "phase" => Ran(Kids(Top.node)[j])
      BY <3>2, <3>4, <2>1, <2>4, <1>1 DEF TdDoneInv, SequenceKinds
    <3>6. Ran(n)
      BY <3>2, <3>5, <2>2, <2>4
    <3>7. QED
      BY <3>6, <2>2, RanStays
  <2>6. CASE LeavesGroup \/ EndsGroup
    <3>1. Popped /\ Kind(Top.node) = "group"
      BY <2>6 DEF LeavesGroup, EndsGroup, InGrp
    <3>2. QED
      BY <3>1, <2>4
  <2>7. CASE StepsGroup
    <3>1. /\ TopSet(Top.i + 1, Top.ret, Top.skip) /\ Len(stack) > 0
          /\ \/ Kids(Top.node)[Top.i + 1] = 0
             \/ \E td : ctl' = Call(Kids(Top.node)[Top.i + 1], Top.sub, td)
      BY <2>7 DEF StepsGroup, StepMove, InGrp
    <3>2. f.node = Top.node /\ f.i = Top.i + 1
      BY <3>1 DEF TopSet
    <3>3. QED
      BY <3>1, <3>2, <2>2, <1>2 DEF Call
  <2>8. CASE Stays
    <3>1. f = Top /\ ctl' = ctl /\ stack' = stack
      BY <2>8 DEF Stays, Top
    <3>2. Ran(n)
      BY <3>1, <2>1, <1>2 DEF ReturnedInv
    <3>3. QED
      BY <3>2, <2>2, RanStays
  <2>9. ~Starts
    <3>1. SUFFICES ASSUME Starts PROVE FALSE
      OBVIOUS
    <3>2. /\ ctl = [op |-> ctl.op, node |-> ctl.node, sub |-> ctl.sub, td |-> ctl.td]
          /\ ctl.op = "call" /\ ctl' = [ctl EXCEPT !.op = "run"]
      BY <3>1, ControlFacts DEF Starts, RunMove, Core, Shape, TypeOK
    <3>3. ctl'.op = "run"
      BY <3>2
    <3>4. QED
      BY <3>3, <1>2
  <2>10. QED
    BY <2>3, <2>5, <2>6, <2>7, <2>8, <2>9, <1>2 DEF Steps, Enters, EnterMove, Pushed, Loop, Crash,
       StepsSequence, NotesSequence, EntersGroup, NotesMain, Call, EndsWalk
<1> HIDE DEF f
<1>3. f = stack'[Len(stack')]
  BY DEF f
<1>4. QED
  BY <1>2, <1>3, ReturnedPrime

LEMMA AncestorWithin ==
  ASSUME Shape, NEW k \in 1..Len(stack), NEW j \in 1..(k - 1)
  PROVE  /\ Within(stack[j].node, stack[k].node) /\ stack[j].node < stack[k].node
         /\ Kids(stack[j].node)[stack[j].i] \in Nodes /\ Kids(stack[j].node)[stack[j].i] # 0
         /\ Within(Kids(stack[j].node)[stack[j].i], stack[k].node)
<1>1. /\ tree \in Trees /\ Len(stack) \in Nat /\ \A m \in Nodes : m # 0
      /\ j \in 1..Len(stack) /\ j + 1 \in 2..Len(stack) /\ j + 1 \in 1..Len(stack) /\ (j + 1) - 1 = j
      /\ stack[j].node \in Nodes /\ stack[k].node \in Nodes /\ stack[j + 1].node \in Nodes
      /\ stack[j].i \in Nat /\ stack[j].i <= Len(Kids(stack[j].node)) /\ Len(Kids(stack[j].node)) \in Nat
  <2>1. tree \in Trees /\ Len(stack) \in Nat
    BY StackFacts DEF Shape, TypeOK
  <2>2. j \in 1..Len(stack) /\ j + 1 \in 2..Len(stack) /\ j + 1 \in 1..Len(stack) /\ (j + 1) - 1 = j
    BY <2>1
  <2>3. QED
    BY <2>1, <2>2, StackFacts, TreeFacts DEF Shape
<1>2. Kids(stack[j].node)[stack[j].i] = stack[j + 1].node /\ stack[j].i >= 1
  BY <1>1 DEF Shape, PathInv
<1>3. stack[j].node < stack[k].node /\ Within(Kids(stack[j].node)[stack[j].i], stack[k].node)
  BY DEF Shape, AncestorInv
<1>4. stack[j].i \in 1..Len(Kids(stack[j].node))
  BY <1>1, <1>2
<1>5. Within(stack[j].node, Kids(stack[j].node)[stack[j].i])
  BY <1>1, <1>2, <1>4, WithinFacts
<1>6. QED
  BY <1>1, <1>2, <1>3, <1>5, WithinFacts

LEMMA MainSkipPrime ==
  ASSUME tree' = tree,
         \A k \in 1..Len(stack') : Kind(stack'[k].node) = "group" /\ stack'[k].skip =>
            \A n \in PartPhases(stack'[k].node, 2) : ~RanNext(n)
  PROVE  MainSkipInv'
<1>1. ASSUME NEW k \in 1..Len(stack')
      PROVE  (Kind(stack[k].node) = "group" /\ stack[k].skip =>
                \A n \in PartPhases(stack[k].node, 2) : ~Ran(n))'
  <2>1. (PartPhases(stack[k].node, 2))' = PartPhases(stack'[k].node, 2)
    BY DEF PartPhases, Kids, Kind, Nodes
  <2>2. QED
    BY <2>1 DEF Kind, Ran, RanNext
<1>2. QED
  BY <1>1 DEF MainSkipInv

LEMMA MainSkipStep ==
  ASSUME Core, Plain, MainSkipInv, tree' = tree, Steps
  PROVE  MainSkipInv'
<1>1. /\ tree \in Trees /\ Len(stack) \in Nat
      /\ (Len(stack) > 0 => Len(stack) \in 1..Len(stack) /\ Top = stack[Len(stack)])
      /\ \A k \in 1..Len(stack) : stack[k].node \in Nodes
      /\ "group" \notin SequenceKinds
      /\ \A g \in Nodes : Kind(g) = "group" => 2 \in 1..Len(Kids(g)) /\ Len(Kids(g)) = 3
      /\ \A n \in Nodes : n \in Nat
  BY StackFacts, GroupFacts, TreeFacts DEF Core, Shape, Top, SequenceKinds, TypeOK
<1>2. ASSUME NEW g \in Nodes, Kind(g) = "group", NEW n \in PartPhases(g, 2)
      PROVE  /\ n \in Nodes /\ Kids(g)[2] # 0 /\ Kids(g)[2] \in Nodes /\ n > Kids(g)[2] /\ n > g
             /\ Kind(n) = "phase"
  <2>1. n \in Nodes /\ Kids(g)[2] # 0 /\ Kind(n) = "phase"
        /\ \E j \in 1..Len(Kids(Kids(g)[2])) : Kids(Kids(g)[2])[j] = n
    BY DEF PartPhases
  <2>2. Kids(g)[2] \in Nodes /\ Kids(g)[2] > g
    BY <2>1, <1>1, <1>2, KidFacts
  <2>3. n > Kids(g)[2]
    <3>1. PICK j \in 1..Len(Kids(Kids(g)[2])) : Kids(Kids(g)[2])[j] = n
      BY <2>1
    <3>2. n # 0
      BY <2>1, <1>1, TreeFacts
    <3>3. QED
      BY <2>2, <3>1, <3>2, KidFacts
  <2>4. QED
    BY <2>1, <2>2, <2>3, <1>1, <1>2
<1>3. ASSUME NEW k \in 1..Len(stack'), Kind(stack'[k].node) = "group", stack'[k].skip,
             NEW n \in PartPhases(stack'[k].node, 2), RanNext(n)
      PROVE  FALSE
  <2> DEFINE g == stack'[k].node
  <2>1. CASE Enters /\ k = Len(stack) + 1
    <3>1. ctl.node \in Nodes /\ g = ctl.node /\ Calls /\ Untouched(ctl.node) /\ ends' = ends
      BY <2>1, EntersFacts DEF Core, Shape, FreshInv, Enters, EnterMove
    <3>2. n \in Nodes /\ n >= ctl.node
      BY <3>1, <1>1, <1>2, <1>3
    <3>3. ends[n] = "NONE"
      BY <3>1, <3>2 DEF Untouched
    <3>4. QED
      BY <3>1, <3>3, <1>3 DEF RanNext
  <2>2. CASE EntersGroup /\ k = Len(stack)
    <3>1. Len(stack) > 0 /\ g = Top.node /\ Top.i = 1 /\ ends' = ends
      BY <2>2 DEF EntersGroup, InGrp, TopSet, Quiet, SameData
    <3>2. /\ k \in 1..Len(stack) /\ Top = stack[k] /\ Top.node \in Nodes
          /\ 2 \in (stack[k].i + 1)..Len(Kids(stack[k].node))
      BY <3>1, <2>2, <1>1, <1>3
    <3>3. Kids(g)[2] # 0 /\ n \in Nodes /\ n >= Kids(g)[2]
      BY <3>1, <3>2, <1>1, <1>2, <1>3
    <3>4. Untouched(Kids(g)[2])
      BY <3>1, <3>2, <3>3 DEF Core, Shape, FreshInv
    <3>5. ends[n] = "NONE"
      BY <3>3, <3>4 DEF Untouched
    <3>6. QED
      BY <3>1, <3>5, <1>3 DEF RanNext
  <2>3. ASSUME k \in 1..Len(stack), g = stack[k].node, stack[k].skip
        PROVE  FALSE
    <3>1. ~Ran(n) /\ n \in Nodes /\ g \in Nodes
      BY <2>3, <1>1, <1>2, <1>3 DEF MainSkipInv
    <3>2. n = ctl.node /\ ctl.op = "run" /\ Calls
      BY <3>1, <1>3, RanStays
    <3>3. g \in Groups /\ ctl.node \in PartPhases(g, 2)
      BY <3>1, <3>2, <1>3 DEF Groups
    <3> DEFINE m == Len(stack) - 1
    <3>4. m \in 1..Len(stack) /\ stack[m].node = g /\ Len(stack) \in 1..Len(stack)
      BY <3>2, <3>3, InPart
    <3>5. k = m
      <4>1. CASE k < m
        <5>1. k \in 1..(m - 1)
          BY <4>1, <2>3, <3>4, <1>1
        <5>2. stack[k].node < stack[m].node
          BY <5>1, <3>4, AncestorWithin DEF Core
        <5>3. QED
          BY <5>2, <3>1, <3>4, <2>3, <1>1
      <4>2. CASE m < k
        <5>1. m \in 1..(k - 1)
          BY <4>2, <2>3, <3>4, <1>1
        <5>2. stack[m].node < stack[k].node
          BY <5>1, <2>3, AncestorWithin DEF Core
        <5>3. QED
          BY <5>2, <3>1, <3>4, <2>3, <1>1
      <4>3. QED
        BY <4>1, <4>2, <2>3, <3>4, <1>1
    <3>6. stack[k].td
      BY <3>2, <3>3, <3>5, <2>3, RunsInPart
    <3>7. PICK j \in 1..(k - 1) : Kind(stack[j].node) = "group" /\ stack[j].i = 3
      BY <3>6, <2>3 DEF Core, TeardownInv
    <3>8. j \in 1..Len(stack) /\ stack[j].node \in Nodes /\ Kids(stack[j].node)[3] # 0
          /\ Within(Kids(stack[j].node)[3], g)
      BY <3>7, <2>3, <1>1, AncestorWithin DEF Core
    <3>9. stack[k].sub # 0
      BY <2>3 DEF Core, SubtestInv, IsFail
    <3>10. PICK l \in 1..k : stack[l].node = stack[k].sub /\ Kind(stack[l].node) = "subtest"
      BY <3>9, <2>3 DEF Core, SubtestInv
    <3>11. l # k
      BY <3>10, <2>3, <1>3
    <3>12. l \in 1..(k - 1) /\ l \in 1..Len(stack)
      BY <3>10, <3>11, <2>3, <1>1
    <3>13. stack[l].node \in Nodes /\ Within(stack[l].node, g)
      BY <3>12, <2>3, <1>1, AncestorWithin DEF Core
    <3>14. QED
      BY <3>1, <3>7, <3>8, <3>10, <3>13, <1>3 DEF Plain
  <2>4. \/ k \in 1..Len(stack) /\ g = stack[k].node /\ stack[k].skip
        \/ Enters /\ k = Len(stack) + 1
        \/ EntersGroup /\ k = Len(stack)
    <3>1. CASE NotesSequence \/ NotesMain
      <4>1. \E i, ret : TopSet(i, ret, Top.skip)
        BY <3>1 DEF NotesSequence, NotesMain
      <4>2. stack'[Len(stack)].skip = Top.skip /\ ~Enters /\ Len(stack) > 0
        BY <3>1, <4>1 DEF NotesSequence, NotesMain, TopSet, Enters, EnterMove
      <4>3. k \in 1..Len(stack) /\ g = stack[k].node /\ (k < Len(stack) => stack'[k] = stack[k])
        BY <4>2, OtherSteps DEF Core
      <4>4. CASE k = Len(stack)
        BY <4>2, <4>3, <4>4, <1>1, <1>3
      <4>5. CASE k < Len(stack)
        BY <4>3, <4>5, <1>3
      <4>6. QED
        BY <4>3, <4>4, <4>5, <1>1
    <3>2. CASE EntersGroup /\ k # Len(stack)
      <4>1. ~Enters
        BY <3>2 DEF EntersGroup, Enters, EnterMove
      <4>2. k \in 1..Len(stack) /\ g = stack[k].node /\ (k < Len(stack) => stack'[k] = stack[k])
        BY <4>1, OtherSteps DEF Core
      <4>3. k < Len(stack)
        BY <4>2, <3>2, <1>1
      <4>4. QED
        BY <4>2, <4>3, <1>3
    <3>3. QED
      BY <3>1, <3>2, <1>3, NotedStep
  <2>5. QED
    BY <2>1, <2>2, <2>3, <2>4
<1>4. QED
  BY <1>3, MainSkipPrime

LEMMA AfterMainPrime ==
  ASSUME tree' = tree,
         ~fullAbort' => \A g \in Groups : (\E n \in PartPhases(g, 2) : RanNext(n)) =>
            \/ \E k \in 1..Len(stack') : stack'[k].node = g
            \/ \A n \in PartPhases(g, 3) : RanNext(n)
  PROVE  AfterMainInv'
<1>1. Groups' = Groups /\ \A g, p : PartPhases(g, p)' = PartPhases(g, p)
  BY DEF Groups, PartPhases, Kids, Kind, Nodes
<1>2. QED
  BY <1>1 DEF AfterMainInv, Ran, RanNext

LEMMA AfterMainStep ==
  ASSUME Core, Plain, ReturnedInv, MainSkipInv, AfterMainInv, tree' = tree, Steps
  PROVE  AfterMainInv'
<1>1. /\ tree \in Trees /\ Len(stack) \in Nat
      /\ (Len(stack) > 0 => Len(stack) \in 1..Len(stack) /\ Top = stack[Len(stack)])
      /\ \A k \in 1..Len(stack) : stack[k].node \in Nodes
      /\ "group" \notin SequenceKinds
      /\ \A g \in Nodes : Kind(g) = "group" => 2 \in 1..Len(Kids(g)) /\ Len(Kids(g)) = 3
      /\ \A n \in Nodes : n \in Nat
  BY StackFacts, GroupFacts, TreeFacts DEF Core, Shape, Top, SequenceKinds, TypeOK
<1>2. ASSUME ~fullAbort', NEW g \in Groups, NEW n \in PartPhases(g, 2), RanNext(n)
      PROVE  \/ \E k \in 1..Len(stack') : stack'[k].node = g
             \/ \A m \in PartPhases(g, 3) : RanNext(m)
  <2>1. ~fullAbort /\ n \in Nodes /\ g \in Nodes /\ Kind(g) = "group"
    BY <1>2, RanStays DEF PartPhases, Groups
  <2>2. CASE ~Ran(n)
    <3>1. n = ctl.node /\ ctl.op = "run" /\ Calls /\ (Leaf \/ Crash)
      BY <2>1, <2>2, <1>2, RanStays
    <3>2. Leaf
      BY <3>1 DEF Crash, Plain
    <3>3. stack' = stack
      BY <3>2 DEF Leaf
    <3>4. Len(stack) - 1 \in 1..Len(stack) /\ stack[Len(stack) - 1].node = g
      BY <3>1, InPart
    <3>5. QED
      BY <3>3, <3>4
  <2>3. CASE Ran(n) /\ \A m \in PartPhases(g, 3) : Ran(m)
    <3>1. \A m \in PartPhases(g, 3) : m \in Nodes
      BY DEF PartPhases
    <3>2. QED
      BY <2>3, <3>1, RanStays
  <2>4. CASE Ran(n) /\ \E k \in 1..Len(stack) : stack[k].node = g
    <3>1. PICK k \in 1..Len(stack) : stack[k].node = g
      BY <2>4
    <3>2. CASE Enters
      <4>1. stack'[k] = stack[k] /\ k \in 1..Len(stack')
        BY <3>2, <1>1, EntersFacts DEF Core
      <4>2. QED
        BY <3>1, <4>1
    <3>3. CASE ~Enters /\ k \in 1..Len(stack')
      <4>1. stack'[k].node = g
        BY <3>1, <3>3, OtherSteps DEF Core
      <4>2. QED
        BY <4>1, <3>3
    <3>4. CASE ~Enters /\ k \notin 1..Len(stack')
      <4>1. Len(stack') # Len(stack) /\ Len(stack) > 0
        BY <3>1, <3>4
      <4>2. ~Crash
        BY DEF Crash, Plain
      <4>3. LeavesGroup \/ EndsGroup \/ \E r \in Rets : EndsSequence(r)
        BY <4>1, <4>2, <3>4 DEF Steps, Starts, RunMove, Leaf, StepsSequence, StepsGroup, StepMove, NotesSequence,
           EntersGroup, NotesMain, TopSet, EndsWalk, Stays
      <4>4. Len(stack') = Len(stack) - 1
        BY <4>3 DEF LeavesGroup, EndsGroup, EndsSequence, Popped
      <4>5. k = Len(stack) /\ Top = stack[k] /\ Top.node = g
        BY <3>1, <3>4, <4>1, <4>4, <1>1
      <4>6. CASE \E r \in Rets : EndsSequence(r)
        BY <4>5, <4>6, <2>1, <1>1 DEF EndsSequence, InSeq
      <4>7. CASE LeavesGroup
        <5>1. Top.i = 1
          BY <4>7 DEF LeavesGroup
        <5>2. 2 \in (stack[k].i + 1)..Len(Kids(stack[k].node))
          BY <5>1, <4>5, <2>1, <1>1
        <5>3. Kids(g)[2] # 0 /\ Kids(g)[2] \in Nodes /\ \E j \in 1..Len(Kids(Kids(g)[2])) : Kids(Kids(g)[2])[j] = n
          BY <2>1, <1>1, KidFacts DEF PartPhases
        <5>4. Untouched(Kids(g)[2])
          BY <5>2, <5>3, <3>1, <4>5 DEF Core, Shape, FreshInv
        <5>5. n >= Kids(g)[2]
          <6>1. PICK j \in 1..Len(Kids(Kids(g)[2])) : Kids(Kids(g)[2])[j] = n
            BY <5>3
          <6>2. n # 0 /\ n \in Nat /\ Kids(g)[2] \in Nat
            BY <2>1, <5>3, <1>1, TreeFacts
          <6>3. n > Kids(g)[2]
            BY <5>3, <6>1, <6>2, KidFacts
          <6>4. QED
            BY <6>2, <6>3
        <5>6. ends[n] = "NONE"
          BY <5>4, <5>5, <2>1 DEF Untouched
        <5>7. QED
          BY <5>6, <2>4 DEF Ran
      <4>8. CASE EndsGroup
        <5>1. Top.i = 3 /\ ctl.op = "return"
          BY <4>8 DEF EndsGroup
        <5>2. ~Top.skip
          BY <2>1, <2>4, <3>1, <4>5 DEF MainSkipInv
        <5>3. \A m \in PartPhases(g, 3) : Ran(m) /\ m \in Nodes
          BY <5>1, <5>2, <4>1, <4>5, <2>1 DEF ReturnedInv, PartPhases
        <5>4. QED
          BY <5>3, RanStays
      <4>9. QED
        BY <4>3, <4>6, <4>7, <4>8
    <3>5. QED
      BY <3>2, <3>3, <3>4
  <2>5. QED
    BY <2>1, <2>2, <2>3, <2>4 DEF AfterMainInv
<1>3. QED
  BY <1>2, AfterMainPrime

(* With Earned, the inductive invariant of TeardownIffEntered in a plain test. *)
MainInv == TdDoneInv /\ ReturnedInv /\ MainSkipInv /\ AfterMainInv

LEMMA MainInit == Init => (Plain => MainInv)
<1> SUFFICES ASSUME Init PROVE MainInv
  OBVIOUS
<1>1. /\ Len(stack) = 0 /\ ctl.op = "call" /\ \A n \in Nodes : ends[n] = "NONE"
  BY DEF Init, Call
<1>2. \A g : \A n \in PartPhases(g, 2) : ~Ran(n)
  BY <1>1 DEF PartPhases, Ran
<1>3. QED
  BY <1>1, <1>2 DEF MainInv, TdDoneInv, ReturnedInv, MainSkipInv, AfterMainInv

LEMMA MainStep == Earned /\ (Plain => MainInv) /\ [Next]_vars => (Plain => MainInv)'
<1> SUFFICES ASSUME Earned, Plain => MainInv, [Next]_vars, Plain' PROVE MainInv'
  OBVIOUS
<1>1. Core /\ tree' = tree /\ Steps
  BY EarnedStep DEF Earned
<1>2. Plain
  BY <1>1 DEF Plain, Within, Kind, Kids, Nodes
<1>3. QED
  BY <1>1, <1>2, TdDoneStep, ReturnedStep, MainSkipStep, AfterMainStep DEF MainInv

(* In a plain test, the teardown of a group runs if and only if the group was entered. *)
THEOREM TeardownsRun == Spec => [](Plain => TeardownIffEntered)
<1>1. Earned /\ (Plain => MainInv) => (Plain => TeardownIffEntered)
  <2>1. ASSUME Earned, MainInv, ctl.op = "done", ~fullAbort, NEW g \in Groups,
               NEW n \in PartPhases(g, 2), Ran(n), NEW m \in PartPhases(g, 3)
        PROVE  Ran(m)
    <3>1. Len(stack) = 0
      BY <2>1 DEF Earned, Core, Shape, ControlInv
    <3>2. QED
      BY <2>1, <3>1 DEF MainInv, AfterMainInv
  <2>2. QED
    BY <2>1 DEF TeardownIffEntered, TeardownAfterMain, Earned
<1>2. QED
  BY EarnedInit, EarnedStep, MainInit, MainStep, <1>1, PTL DEF Spec

-----------------------------------------------------------------------------
(* What has gone wrong in a test is known to the abort flag, to _last_outcome or to a
   subtest that failed. *)

Troubled == abort \/ lastOutcome # "NONE"
TroubledNext == abort' \/ lastOutcome' # "NONE"
Failing == \E s \in Nodes : Kind(s) = "subtest" /\ subtest[s] = "FAIL"
FailingNext == \E s \in Nodes : Kind(s) = "subtest" /\ subtest'[s] = "FAIL"

(* After each phase stop_on_first_failure looks at the last phase record: there is one, if no
   phase is declined. *)
AlwaysRecords == StopOnFirstFailure => "DECLINED" \notin Results

CheckpointRecords == {"NONE", "SKIP", "CONTINUE", "FAIL_SUBTEST", "STOP", "EXC"}

(* A terminal return, an end or a record that is not one of success leaves its mark. *)
TroubleInv ==
    /\ lastOutcome # "NONE" => IsTerminal(lastOutcome)
    /\ Carried => Troubled
    /\ \A n \in Nodes :
         /\ IsTerminal(ends[n]) => Troubled
         /\ subtest[n] = "STOP" => Troubled
         /\ ends[n] = "SKIPPED" => Troubled \/ Failing
         /\ Kind(n) = "checkpoint" =>
              /\ records[n] \in CheckpointRecords
              /\ records[n] \in {"STOP", "EXC"} => Troubled
              /\ records[n] \in {"SKIP", "FAIL_SUBTEST"} => Troubled \/ Failing

(* A phase or a checkpoint that is to be recorded for a subtest is in one. *)
LEMMA SubtestOfControl ==
  ASSUME Core, Calls, ctl.sub # 0
  PROVE  ctl.sub \in Nodes /\ Kind(ctl.sub) = "subtest" /\ \E k \in 1..Len(stack) : stack[k].node = ctl.sub
<1>1. Len(stack) \in Nat /\ Len(stack) # 0
  BY StackFacts DEF Core, Shape, ControlInv
<1>2. Len(stack) \in 1..Len(stack) /\ Top = stack[Len(stack)] /\ ctl.sub = Top.sub
  BY <1>1 DEF Core, Shape, ControlInv, Top
<1>3. PICK j \in 1..Len(stack) : stack[j].node = ctl.sub /\ Kind(stack[j].node) = "subtest"
  BY <1>2 DEF Core, SubtestInv
<1>4. QED
  BY <1>3, StackFacts DEF Core, Shape

(* Only the end of a node and the start of a subtest change what is recorded. *)
LEMMA DataSteps ==
  ASSUME Core, Steps, AlwaysRecords
  PROVE  /\ Crash => abort /\ \A m \in Nodes : ends'[m] = ends[m] \/ ends'[m] = "CANCELLED"
         /\ Leaf \/ UNCHANGED <<phases, lastOutcome>>
         /\ Leaf \/ Crash \/ ends' = ends
         /\ Leaf \/ (\E r \in Rets : EndsSequence(r)) \/ records' = records
         /\ Enters \/ Leaf \/ (\E r \in Rets : EndsSequence(r)) \/ subtest' = subtest
         /\ abort => abort'
         /\ Enters => \A m \in Nodes : m # ctl.node \/ Kind(m) # "subtest" => subtest'[m] = subtest[m]
<1>1. Crash => abort /\ \A m \in Nodes : ends'[m] = ends[m] \/ ends'[m] = "CANCELLED"
  BY DEF Crash, AlwaysRecords, Core, FullInv
<1>2. /\ Leaf \/ UNCHANGED <<phases, lastOutcome>>
      /\ Leaf \/ Crash \/ ends' = ends
      /\ Leaf \/ (\E r \in Rets : EndsSequence(r)) \/ records' = records
      /\ Enters \/ Leaf \/ (\E r \in Rets : EndsSequence(r)) \/ subtest' = subtest
  BY DEF Steps, Crash, Enters, EnterMove, Starts, RunMove, StepMove, EndsSequence, Quiet, SameData,
     StepsSequence, NotesSequence, StepsGroup, LeavesGroup, EntersGroup, NotesMain, EndsGroup, EndsWalk, Stays
<1>3. abort => abort'
  BY DEF Flags, Steps, Enters, Starts, Leaf, Crash, EndsSequence,
     StepsSequence, NotesSequence, StepsGroup, LeavesGroup, EntersGroup, NotesMain, EndsGroup, EndsWalk, Stays
<1>4. ASSUME Enters, NEW m \in Nodes, m # ctl.node \/ Kind(m) # "subtest"
      PROVE  subtest'[m] = subtest[m]
  BY <1>4 DEF Enters, EnterMove, Core, Shape, TypeOK
<1>5. QED
  BY <1>1, <1>2, <1>3, <1>4

(* The node of the top frame is not below it. *)
LEMMA TopAlone ==
  ASSUME Core, Len(stack) > 0
  PROVE  /\ Top.node \in Nodes /\ Len(stack) \in 1..Len(stack) /\ Top = stack[Len(stack)]
         /\ \A k \in 1..(Len(stack) - 1) : k \in 1..Len(stack) /\ stack[k].node # Top.node
<1>1. Top.node \in Nodes /\ Len(stack) \in 1..Len(stack) /\ Top = stack[Len(stack)] /\ Len(stack) \in Nat
      /\ \A m \in Nodes : m \in Nat
  BY StackFacts, TopFacts, TreeFacts DEF Core, Shape, TypeOK
<1>2. ASSUME NEW k \in 1..(Len(stack) - 1)
      PROVE  k \in 1..Len(stack) /\ stack[k].node # Top.node
  <2>1. stack[k].node < stack[Len(stack)].node
    BY <1>1, AncestorWithin DEF Core
  <2>2. k \in 1..Len(stack)
    BY <1>1
  <2>3. stack[k].node \in Nodes
    BY <2>2, StackFacts DEF Core, Shape
  <2>4. QED
    BY <2>1, <2>2, <2>3, <1>1
<1>3. QED
  BY <1>1, <1>2

(* Terminal is only what was so before, an abort, or the end of a phase or checkpoint. *)
LEMMA CarriedBack ==
  ASSUME Core, Steps, ~Carried, Carried'
  PROVE  abort \/ lastOutcome' # "NONE"
<1>1. /\ Len(stack) \in Nat /\ (Len(stack) > 0 => Len(stack) \in 1..Len(stack) /\ Top = stack[Len(stack)])
      /\ (ctl.op = "return" => ctl.ret = "CONTINUE")
      /\ \A k \in 1..Len(stack) : stack[k].ret = "CONTINUE"
  BY StackFacts, ControlFacts DEF Core, Shape, Top, Carried, Rets, TypeOK
<1>2. fullAbort => abort
  BY DEF Core, FullInv
<1>3. ASSUME ctl'.op = "return", ctl'.ret = "TERMINAL"
      PROVE  abort \/ lastOutcome' # "NONE"
  <2>1. CASE Leaf
    BY <2>1, <1>3 DEF Leaf
  <2>2. CASE \E r \in Rets : EndsSequence(r)
    <3>1. PICK r \in Rets : EndsSequence(r)
      BY <2>2
    <3>2. r = "TERMINAL" /\ Len(stack) > 0
      BY <3>1, <1>3 DEF EndsSequence, Return, InSeq
    <3>3. QED
      BY <3>1, <3>2, <1>1, <1>2 DEF EndsSequence
  <2>3. CASE EndsGroup
    BY <2>3, <1>1, <1>3 DEF EndsGroup, InGrp, Return, MoreCritical
  <2>4. CASE StepsGroup
    BY <2>4, <1>3 DEF StepsGroup, StepMove, Return, Call
  <2>5. CASE LeavesGroup \/ Stays
    BY <2>5, <1>1, <1>3 DEF LeavesGroup, Stays
  <2>6. CASE Starts
    <3>1. ctl = [op |-> ctl.op, node |-> ctl.node, sub |-> ctl.sub, td |-> ctl.td]
          /\ ctl' = [ctl EXCEPT !.op = "run"]
      BY <2>6, ControlFacts DEF Starts, RunMove, Core, Shape, TypeOK
    <3>2. QED
      BY <3>1, <1>3
  <2>7. QED
    BY <2>1, <2>2, <2>3, <2>4, <2>5, <2>6, <1>3 DEF Steps, Enters, EnterMove, Pushed, Crash, StepsSequence, NotesSequence,
       EntersGroup, NotesMain, EndsWalk, Call, Loop
<1>4. ASSUME NEW k \in 1..Len(stack'), stack'[k].ret = "TERMINAL"
      PROVE  FALSE
  <2>1. CASE stack' = stack
    BY <2>1, <1>1, <1>4
  <2>2. CASE Enters
    BY <2>2, <1>1, <1>4, EntersFacts DEF Core
  <2>3. CASE Popped
    <3>1. k \in 1..(Len(stack) - 1) /\ stack'[k] = stack[k] /\ k \in 1..Len(stack)
      BY <2>3, <1>1, <1>4 DEF Popped, Lower
    <3>2. QED
      BY <3>1, <1>1, <1>4
  <2>4. ASSUME NEW i, NEW skip, TopSet(i, "CONTINUE", skip)
        PROVE  FALSE
    <3>1. CASE k = Len(stack)
      BY <3>1, <2>4, <1>4 DEF TopSet
    <3>2. CASE k # Len(stack)
      <4>1. k \in 1..(Len(stack) - 1) /\ stack'[k] = stack[k] /\ k \in 1..Len(stack)
        BY <3>2, <2>4, <1>1, <1>4 DEF TopSet, Lower
      <4>2. QED
        BY <4>1, <1>1, <1>4
    <3>3. QED
      BY <3>1, <3>2
  <2>5. CASE Crash
    BY <2>5, <1>4 DEF Crash
  <2>6. CASE EntersGroup
    <3> DEFINE b == Top.skip \/ IsFail(Top.sub)
    <3>1. TopSet(1, Top.ret, b) /\ Top.ret = "CONTINUE"
      BY <2>6, <1>1 DEF EntersGroup, InGrp
    <3> HIDE DEF b
    <3>2. QED
      BY <3>1, <2>4
  <2>7. CASE StepsSequence \/ StepsGroup
    <3>1. TopSet(Top.i + 1, Top.ret, Top.skip) /\ Top.ret = "CONTINUE"
      BY <2>7, <1>1 DEF StepsSequence, StepsGroup, StepMove, InSeq, InGrp
    <3>2. QED
      BY <3>1, <2>4
  <2>8. CASE NotesSequence
    <3>1. TopSet(Top.i, MoreCritical(Top.ret, ctl.ret), Top.skip) /\ Top.ret = "CONTINUE" /\ ctl.ret = "CONTINUE"
      BY <2>8, <1>1 DEF NotesSequence, InSeq
    <3>2. MoreCritical(Top.ret, ctl.ret) = "CONTINUE"
      BY <3>1 DEF MoreCritical
    <3>3. QED
      BY <3>1, <3>2, <2>4
  <2>9. CASE NotesMain
    <3>1. TopSet(2, ctl.ret, Top.skip) /\ ctl.ret = "CONTINUE"
      BY <2>9, <1>1 DEF NotesMain
    <3>2. QED
      BY <3>1, <2>4
  <2>10. QED
    BY <2>1, <2>2, <2>3, <2>5, <2>6, <2>7, <2>8, <2>9 DEF Steps, Starts, RunMove, Leaf, EndsSequence, LeavesGroup,
       EndsGroup, EndsWalk, Stays
<1>5. QED
  BY <1>3, <1>4 DEF Carried

(* What is troubled stays so, and what is failing stays so or becomes troubled. *)
LEMMA TroubleStays ==
  ASSUME Core, Steps, TroubleInv, AlwaysRecords
  PROVE  /\ Troubled => TroubledNext
         /\ Troubled \/ Failing => TroubledNext \/ FailingNext
         /\ \A m \in Nodes : subtest'[m] = "STOP" => subtest[m] = "STOP" \/ Troubled
<1>1. abort => abort'
  BY DataSteps
<1>2. lastOutcome # "NONE" => lastOutcome' # "NONE"
  <2>1. CASE Leaf
    BY <2>1 DEF Leaf, IsTerminal
  <2>2. CASE ~Leaf
    BY <2>2, DataSteps
  <2>3. QED
    BY <2>1, <2>2
<1>3. Troubled => TroubledNext
  BY <1>1, <1>2 DEF Troubled, TroubledNext
<1>4. ASSUME NEW r \in Rets, EndsSequence(r), r = "TERMINAL" PROVE Troubled
  <2>1. abort \/ fullAbort \/ Carried
    <3>1. Len(stack) \in 1..Len(stack) /\ Top = stack[Len(stack)]
      BY <1>4, TopAlone DEF EndsSequence, InSeq
    <3>2. QED
      BY <3>1, <1>4 DEF EndsSequence, Carried
  <2>2. QED
    BY <2>1 DEF TroubleInv, Core, FullInv, Troubled
<1>5. ASSUME NEW m \in Nodes, subtest'[m] # subtest[m]
      PROVE  \/ subtest'[m] = "STOP" /\ Troubled
             \/ subtest'[m] = "FAIL"
             \/ subtest[m] = "NONE" /\ subtest'[m] # "STOP"
  <2>1. CASE Enters
    <3>1. m = ctl.node /\ Kind(ctl.node) = "subtest" /\ Calls /\ m \in Nat
      <4>1. m = ctl.node /\ Kind(m) = "subtest"
        BY <2>1, <1>5, DataSteps
      <4>2. Calls
        BY <2>1, EntersFacts DEF Core
      <4>3. m \in Nat
        BY TreeFacts DEF Core, Shape, TypeOK
      <4>4. QED
        BY <4>1, <4>2, <4>3
    <3>2. subtest' = [subtest EXCEPT ![ctl.node] = IF IsFail(ctl.sub) THEN "FAIL" ELSE "PASS"]
      BY <2>1, <3>1 DEF Enters, EnterMove
    <3>3. subtest[m] = "NONE"
      BY <3>1 DEF Core, Shape, FreshInv, Untouched
    <3>4. subtest'[m] \in {"PASS", "FAIL"}
      BY <3>1, <3>2 DEF Core, Shape, TypeOK
    <3>5. QED
      BY <3>3, <3>4
  <2>2. CASE Leaf
    BY <2>2, <1>5 DEF Leaf
  <2>3. CASE \E r \in Rets : EndsSequence(r)
    BY <2>3, <1>4, <1>5 DEF EndsSequence
  <2>4. QED
    BY <2>1, <2>2, <2>3, <1>5, DataSteps
<1>6. \A m \in Nodes : subtest'[m] = "STOP" => subtest[m] = "STOP" \/ Troubled
  BY <1>5
<1>7. ASSUME Failing PROVE TroubledNext \/ FailingNext
  <2>1. PICK s \in Nodes : Kind(s) = "subtest" /\ subtest[s] = "FAIL"
    BY <1>7 DEF Failing
  <2>2. CASE subtest'[s] = subtest[s]
    BY <2>1, <2>2 DEF FailingNext
  <2>3. CASE subtest'[s] # subtest[s]
    BY <2>1, <2>3, <1>3, <1>5 DEF FailingNext
  <2>4. QED
    BY <2>2, <2>3
<1>8. QED
  BY <1>3, <1>6, <1>7

LEMMA TroublePrime ==
  ASSUME tree' = tree,
         lastOutcome' # "NONE" => IsTerminal(lastOutcome'),
         Carried' => TroubledNext,
         \A n \in Nodes :
           /\ IsTerminal(ends'[n]) => TroubledNext
           /\ subtest'[n] = "STOP" => TroubledNext
           /\ ends'[n] = "SKIPPED" => TroubledNext \/ FailingNext
           /\ Kind(n) = "checkpoint" =>
                /\ records'[n] \in CheckpointRecords
                /\ records'[n] \in {"STOP", "EXC"} => TroubledNext
                /\ records'[n] \in {"SKIP", "FAIL_SUBTEST"} => TroubledNext \/ FailingNext
  PROVE  TroubleInv'
<1>1. /\ Nodes' = Nodes /\ \A n : (Kind(n))' = Kind(n)
      /\ Troubled' = TroubledNext /\ Failing' = FailingNext
  BY DEF Nodes, Kind, Troubled, TroubledNext, Failing, FailingNext
<1>2. (lastOutcome # "NONE" => IsTerminal(lastOutcome))'
  BY DEF IsTerminal
<1>3. ASSUME NEW n \in Nodes
      PROVE  (/\ IsTerminal(ends[n]) => Troubled
              /\ subtest[n] = "STOP" => Troubled
              /\ ends[n] = "SKIPPED" => Troubled \/ Failing
              /\ Kind(n) = "checkpoint" =>
                   /\ records[n] \in CheckpointRecords
                   /\ records[n] \in {"STOP", "EXC"} => Troubled
                   /\ records[n] \in {"SKIP", "FAIL_SUBTEST"} => Troubled \/ Failing)'
  BY <1>1 DEF IsTerminal, CheckpointRecords
<1>4. (Carried => Troubled)'
  BY <1>1
<1>5. QED
  BY <1>1, <1>2, <1>3, <1>4 DEF TroubleInv

LEMMA TroubleStep ==
  ASSUME Core, Steps, tree' = tree, TroubleInv, AlwaysRecords
  PROVE  TroubleInv'
<1>1. lastOutcome' # "NONE" => IsTerminal(lastOutcome')
  <2>1. CASE Leaf
    BY <2>1 DEF Leaf, TroubleInv
  <2>2. CASE ~Leaf
    BY <2>2, DataSteps DEF TroubleInv
  <2>3. QED
    BY <2>1, <2>2
<1>2. Carried' => TroubledNext
  <2>1. CASE Carried
    BY <2>1, TroubleStays DEF TroubleInv
  <2>2. CASE ~Carried
    BY <2>2, CarriedBack, DataSteps DEF TroubledNext
  <2>3. QED
    BY <2>1, <2>2
<1>3. FailsNext(ctl.sub) /\ Calls => FailingNext
  BY SubtestOfControl DEF FailsNext, FailingNext
<1>4. IsFail(ctl.sub) /\ Calls => Failing
  BY SubtestOfControl DEF IsFail, Failing
<1>5. Leaf => Calls /\ (ctl'.ret = "TERMINAL" => TroubledNext)
  BY DEF Leaf, TroubledNext
<1>6. ASSUME NEW n \in Nodes
      PROVE  /\ IsTerminal(ends'[n]) => TroubledNext
             /\ ends'[n] = "SKIPPED" => TroubledNext \/ FailingNext
  <2>1. CASE ends'[n] = ends[n]
    BY <2>1, TroubleStays DEF TroubleInv, IsTerminal
  <2>2. CASE ends'[n] # ends[n]
    <3>1. CASE Leaf
      <4>1. n = ctl.node /\ Kind(n) = "phase"
        BY <2>2, <3>1 DEF Leaf
      <4>2. /\ IsTerminal(ends'[n]) => ctl'.ret = "TERMINAL"
            /\ ends'[n] = "SKIPPED" => IsFail(ctl.sub)
        BY <3>1, <4>1 DEF Leaf, LeafRecords
      <4>3. QED
        BY <3>1, <4>2, <1>4, <1>5, TroubleStays
    <3>2. CASE Crash
      BY <2>2, <3>2, DataSteps DEF TroubledNext
    <3>3. QED
      BY <2>2, <3>1, <3>2, DataSteps
  <2>3. QED
    BY <2>1, <2>2
<1>7. ASSUME NEW n \in Nodes, Kind(n) = "checkpoint"
      PROVE  /\ records'[n] \in CheckpointRecords
             /\ records'[n] \in {"STOP", "EXC"} => TroubledNext
             /\ records'[n] \in {"SKIP", "FAIL_SUBTEST"} => TroubledNext \/ FailingNext
  <2>1. CASE records'[n] = records[n]
    BY <2>1, <1>7, TroubleStays DEF TroubleInv
  <2>2. CASE records'[n] # records[n]
    <3>1. Leaf /\ n = ctl.node
      <4>1. CASE \E r \in Rets : EndsSequence(r)
        BY <4>1, <2>2, <1>7 DEF EndsSequence, InSeq, SequenceKinds
      <4>2. CASE Leaf
        BY <4>2, <2>2 DEF Leaf
      <4>3. QED
        BY <4>1, <4>2, <2>2, DataSteps
    <3>2. /\ records'[n] \in CheckpointRecords
          /\ records'[n] \in {"STOP", "EXC"} => ctl'.ret = "TERMINAL"
          /\ records'[n] \in {"SKIP", "FAIL_SUBTEST"} => FailsNext(ctl.sub)
      BY <3>1, <1>7 DEF Leaf, LeafRecords, CheckpointRecords
    <3>3. QED
      BY <3>1, <3>2, <1>3, <1>5
  <2>3. QED
    BY <2>1, <2>2
<1>8. \A n \in Nodes : subtest'[n] = "STOP" => TroubledNext
  BY TroubleStays DEF TroubleInv
<1>9. QED
  BY <1>1, <1>2, <1>6, <1>7, <1>8, TroublePrime

(* How a phase ended is in a phase record, and how a subtest ended is in its record. *)
RecordInv ==
    /\ \A n \in Nodes : ends[n] \in DOMAIN Recorded =>
         \E k \in 1..Len(phases) : phases[k].outcome = Recorded[ends[n]]
    /\ \A k \in 1..Len(stack) : records[stack[k].node] = "NONE"
    /\ \A n \in Nodes : Kind(n) = "subtest" /\ (\A k \in 1..Len(stack) : stack[k].node # n) =>
         abort \/ records[n] = subtest[n]

LEMMA RecordPrime ==
  ASSUME tree' = tree,
         \A n \in Nodes : ends'[n] \in DOMAIN Recorded =>
           \E k \in 1..Len(phases') : phases'[k].outcome = Recorded[ends'[n]],
         \A k \in 1..Len(stack') : records'[stack'[k].node] = "NONE",
         \A n \in Nodes : Kind(n) = "subtest" /\ (\A k \in 1..Len(stack') : stack'[k].node # n) =>
           abort' \/ records'[n] = subtest'[n]
  PROVE  RecordInv'
BY DEF RecordInv, Kind, Nodes

(* The nodes of the stack after a step. *)
LEMMA NodesStep ==
  ASSUME Core, Steps, NEW k \in 1..Len(stack')
  PROVE  \/ Enters /\ stack'[k].node = ctl.node
         \/ k \in 1..Len(stack) /\ stack'[k].node = stack[k].node
<1>1. CASE Enters
  BY <1>1, EntersFacts DEF Core
<1>2. CASE ~Enters
  BY <1>2, OtherSteps DEF Core
<1>3. QED
  BY <1>1, <1>2

(* And the subtests that were on it before. *)
LEMMA NodesLeft ==
  ASSUME Core, Steps, AlwaysRecords, NEW k \in 1..Len(stack), Kind(stack[k].node) = "subtest"
  PROVE  \/ Crash
         \/ \E r \in Rets : EndsSequence(r) /\ stack[k].node = Top.node
         \/ k \in 1..Len(stack') /\ stack'[k].node = stack[k].node
<1>1. Len(stack) \in Nat /\ Len(stack) > 0 /\ k \in 1..Len(stack) /\ "subtest" # "group"
  BY StackFacts DEF Core, Shape
<1>2. CASE Enters
  BY <1>2, EntersFacts DEF Core
<1>3. CASE ~Enters /\ Len(stack') = Len(stack)
  BY <1>3, OtherSteps DEF Core
<1>4. CASE ~Enters /\ ~Crash /\ Len(stack') # Len(stack)
  <2>1. LeavesGroup \/ EndsGroup \/ \E r \in Rets : EndsSequence(r)
    BY <1>4 DEF Steps, Starts, RunMove, Leaf, StepsSequence, StepsGroup, StepMove, NotesSequence,
       EntersGroup, NotesMain, TopSet, EndsWalk, Stays
  <2>2. Popped
    BY <2>1 DEF LeavesGroup, EndsGroup, EndsSequence
  <2>3. CASE k # Len(stack)
    BY <2>2, <2>3, <1>1 DEF Popped, Lower
  <2>4. CASE k = Len(stack)
    <3>1. Top = stack[k]
      BY <2>4 DEF Top
    <3>2. \E r \in Rets : EndsSequence(r)
      BY <2>1, <3>1 DEF LeavesGroup, EndsGroup, InGrp
    <3>3. QED
      BY <3>1, <3>2
  <2>5. QED
    BY <2>3, <2>4
<1>5. QED
  BY <1>2, <1>3, <1>4

LEMMA RecordStep ==
  ASSUME Core, Steps, tree' = tree, RecordInv, AlwaysRecords
  PROVE  RecordInv'
<1>1. ASSUME NEW n \in Nodes, ends'[n] \in DOMAIN Recorded
      PROVE  \E k \in 1..Len(phases') : phases'[k].outcome = Recorded[ends'[n]]
  <2>1. CASE ~Leaf
    <3>1. ends'[n] = ends[n] /\ phases' = phases
      BY <2>1, <1>1, DataSteps, RecordedFacts
    <3>2. QED
      BY <3>1, <1>1 DEF RecordInv
  <2>2. CASE Leaf /\ ends'[n] = ends[n]
    <3>1. PICK k \in 1..Len(phases) : phases[k].outcome = Recorded[ends[n]]
      BY <2>2, <1>1 DEF RecordInv
    <3>2. /\ Len(phases') \in Nat /\ Len(phases) <= Len(phases')
          /\ \A j \in 1..Len(phases) : phases'[j] = phases[j]
      BY <2>2 DEF Leaf, LeafRecords
    <3>3. k \in 1..Len(phases')
      <4>1. phases \in PhasesType
        BY DEF Core, Shape, TypeOK, PhasesType
      <4>2. Len(phases) \in Nat
        BY <4>1 DEF PhasesType
      <4>3. QED
        BY <3>2, <4>2
    <3>4. QED
      BY <2>2, <3>1, <3>2, <3>3
  <2>3. CASE Leaf /\ ends'[n] # ends[n]
    <3>1. n = ctl.node /\ Kind(ctl.node) = "phase"
      BY <2>3 DEF Leaf
    <3>2. QED
      BY <2>3, <3>1, <1>1 DEF Leaf, LeafRecords
  <2>4. QED
    BY <2>1, <2>2, <2>3
<1>2. Calls => /\ ctl.node \in Nodes /\ records[ctl.node] = "NONE"
               /\ \A k \in 1..Len(stack) : stack[k].node # ctl.node
  <2>1. SUFFICES ASSUME Calls PROVE /\ ctl.node \in Nodes /\ records[ctl.node] = "NONE"
                                    /\ \A k \in 1..Len(stack) : stack[k].node # ctl.node
    OBVIOUS
  <2>2. ctl.node \in Nodes /\ ctl.node >= ctl.node /\ ctl.node \in Nat
    BY <2>1, ControlFacts, TreeFacts DEF Core, Shape, TypeOK, Calls
  <2>3. records[ctl.node] = "NONE"
    BY <2>1, <2>2 DEF Core, Shape, FreshInv, Untouched
  <2>4. ASSUME NEW k \in 1..Len(stack) PROVE stack[k].node # ctl.node
    <3>1. stack[k].node < ctl.node
      BY <2>1, Called DEF Core, Shape
    <3>2. QED
      BY <3>1, <2>2
  <2>5. QED
    BY <2>2, <2>3, <2>4
<1>3. ASSUME NEW k \in 1..Len(stack')
      PROVE  records'[stack'[k].node] = "NONE"
  <2>1. CASE Enters /\ stack'[k].node = ctl.node
    BY <2>1, <1>2, EntersFacts DEF Core, Enters, EnterMove
  <2>2. CASE k \in 1..Len(stack) /\ stack'[k].node = stack[k].node
    <3>1. stack[k].node \in Nodes /\ records[stack[k].node] = "NONE"
      BY <2>2, StackFacts DEF RecordInv, Core, Shape
    <3>2. CASE Leaf
      BY <3>1, <3>2, <2>2, <1>2 DEF Leaf
    <3>3. CASE \E r \in Rets : EndsSequence(r)
      <4>1. Len(stack) > 0 /\ Len(stack') = Len(stack) - 1
            /\ \A m \in Nodes : m # Top.node => records'[m] = records[m]
        BY <3>3 DEF EndsSequence, InSeq, Popped
      <4>2. stack[k].node # Top.node
        BY <4>1, TopAlone
      <4>3. QED
        BY <4>1, <4>2, <3>1, <2>2
    <3>4. CASE records' = records
      BY <3>1, <3>4, <2>2
    <3>5. QED
      BY <3>2, <3>3, <3>4, DataSteps
  <2>3. QED
    BY <2>1, <2>2, NodesStep
<1>4. ASSUME NEW n \in Nodes, Kind(n) = "subtest", \A k \in 1..Len(stack') : stack'[k].node # n
      PROVE  abort' \/ records'[n] = subtest'[n]
  <2> SUFFICES ASSUME ~abort' PROVE records'[n] = subtest'[n]
    OBVIOUS
  <2>1. ~abort /\ ~Crash
    BY DataSteps
  <2>2. CASE \E r \in Rets : EndsSequence(r) /\ n = Top.node
    BY <2>2, <1>4 DEF EndsSequence
  <2>3. CASE ~ \E r \in Rets : EndsSequence(r) /\ n = Top.node
    <3>1. \A k \in 1..Len(stack) : stack[k].node # n
      BY <2>1, <2>3, <1>4, NodesLeft
    <3>2. records[n] = subtest[n]
      BY <2>1, <3>1, <1>4 DEF RecordInv
    <3>3. CASE Enters
      <4>1. n # ctl.node
        BY <3>3, <1>4, EntersFacts DEF Core
      <4>2. records' = records
        BY <3>3 DEF Enters, EnterMove
      <4>3. QED
        BY <3>2, <3>3, <4>1, <4>2, DataSteps
    <3>4. CASE Leaf
      <4>1. n # ctl.node
        BY <3>4, <1>4 DEF Leaf
      <4>2. n # ctl.sub
        <5>1. ctl.sub # 0 => \E k \in 1..Len(stack) : stack[k].node = ctl.sub
          BY <3>4, SubtestOfControl DEF Leaf
        <5>2. n # 0
          BY TreeFacts DEF Core, Shape, TypeOK
        <5>3. QED
          BY <5>1, <5>2, <3>1
      <4>3. QED
        BY <3>2, <3>4, <4>1, <4>2 DEF Leaf
    <3>5. CASE \E r \in Rets : EndsSequence(r)
      BY <3>2, <3>5, <2>3 DEF EndsSequence
    <3>6. QED
      BY <3>2, <3>3, <3>4, <3>5, DataSteps
  <2>4. QED
    BY <2>2, <2>3
<1>5. QED
  BY <1>1, <1>3, <1>4, RecordPrime

(* All phases that are in c have ended, but for those in a branch that was not taken. *)
Covered(c) ==
    \A n \in Nodes : Kind(n) = "phase" /\ Within(c, n) =>
        ends[n] # "NONE" \/ \E b \in Nodes : Within(b, n) /\ records[b] = "NOT_TAKEN"
CoveredNext(c) ==
    \A n \in Nodes : Kind(n) = "phase" /\ Within(c, n) =>
        ends'[n] # "NONE" \/ \E b \in Nodes : Within(b, n) /\ records'[b] = "NOT_TAKEN"

(* As long as nothing goes wrong, the walk leaves nothing out. *)
NoneLeftOut ==
    /\ \A k \in 1..Len(stack) : \A j \in 1..Completed(k) :
         Kids(stack[k].node)[j] # 0 => Covered(Kids(stack[k].node)[j])
    /\ ctl.op = "return" /\ Len(stack) = 0 => Covered(1)
    /\ ctl.op \in {"finish", "done"} => Covered(1)

CoverInv == Troubled \/ Failing \/ NoneLeftOut

LEMMA CoverPrime ==
  ASSUME tree' = tree,
         \A k \in 1..Len(stack') : \A j \in 1..CompletedNext(k) :
           Kids(stack'[k].node)[j] # 0 => CoveredNext(Kids(stack'[k].node)[j]),
         ctl'.op = "return" /\ Len(stack') = 0 => CoveredNext(1),
         ctl'.op \in {"finish", "done"} => CoveredNext(1)
  PROVE  NoneLeftOut'
<1>1. /\ \A n : (Kids(n))' = Kids(n)
      /\ \A b, n : (Within(b, n))' = Within(b, n)
      /\ Nodes' = Nodes
      /\ \A n : (Kind(n))' = Kind(n)
  BY SameTree DEF Kids, Kind, Within, Nodes
<1>2. \A c : CoveredNext(c) => (Covered(c))'
  BY <1>1 DEF Covered, CoveredNext
<1>3. ASSUME NEW k \in 1..Len(stack')
      PROVE  (\A j \in 1..Completed(k) : Kids(stack[k].node)[j] # 0 => Covered(Kids(stack[k].node)[j]))'
  <2>1. (Completed(k))' = CompletedNext(k) /\ (Kids(stack[k].node))' = Kids(stack'[k].node)
    BY DEF Completed, CompletedNext, Kids
  <2>2. ASSUME NEW j \in 1..CompletedNext(k), Kids(stack'[k].node)[j] # 0
        PROVE  (Covered(Kids(stack[k].node)[j]))'
    <3>1. CoveredNext(Kids(stack'[k].node)[j])
      BY <2>2
    <3>2. QED
      BY <3>1, <1>1 DEF Covered, CoveredNext, Kids
  <2>3. QED
    BY <2>1, <2>2
<1>4. (Covered(1))' <=> CoveredNext(1)
  BY <1>1 DEF Covered, CoveredNext
<1>5. QED
  BY <1>3, <1>4 DEF NoneLeftOut

LEMMA CoveredStays ==
  ASSUME Core, Steps, RecordInv, AlwaysRecords, NEW c, Covered(c)
  PROVE  CoveredNext(c)
<1>1. \A n \in Nodes : ends[n] # "NONE" => ends'[n] # "NONE"
  BY EndsStay
<1>2. ASSUME NEW b \in Nodes, records[b] = "NOT_TAKEN"
      PROVE  records'[b] = "NOT_TAKEN"
  <2>1. CASE Leaf
    <3>1. Calls /\ ctl.node \in Nodes /\ ctl.node >= ctl.node
      BY <2>1, TreeFacts DEF Leaf, Core, Shape, TypeOK
    <3>2. records[ctl.node] = "NONE"
      BY <3>1 DEF Core, Shape, FreshInv, Untouched
    <3>3. QED
      BY <2>1, <3>2, <1>2 DEF Leaf
  <2>2. CASE \E r \in Rets : EndsSequence(r)
    <3>1. Len(stack) > 0 /\ \A m \in Nodes : m # Top.node => records'[m] = records[m]
      BY <2>2 DEF EndsSequence, InSeq
    <3>2. records[Top.node] = "NONE"
      BY <3>1, TopAlone DEF RecordInv
    <3>3. QED
      BY <3>1, <3>2, <1>2
  <2>3. QED
    BY <2>1, <2>2, <1>2, DataSteps
<1>3. QED
  BY <1>1, <1>2 DEF Covered, CoveredNext

LEMMA KidsCovered ==
  ASSUME tree \in Trees, NEW n \in Nodes, Kind(n) # "phase",
         \A j \in 1..Len(Kids(n)) : Kids(n)[j] # 0 => Covered(Kids(n)[j])
  PROVE  Covered(n)
<1>1. ASSUME NEW m \in Nodes, Kind(m) = "phase", Within(n, m)
      PROVE  ends[m] # "NONE" \/ \E b \in Nodes : Within(b, m) /\ records[b] = "NOT_TAKEN"
  <2>1. m # n
    BY <1>1
  <2>2. PICK j \in 1..Len(Kids(n)) : Kids(n)[j] # 0 /\ Within(Kids(n)[j], m)
    BY <2>1, <1>1, WithinKid
  <2>3. Covered(Kids(n)[j])
    BY <2>2
  <2>4. QED
    BY <2>2, <2>3, <1>1 DEF Covered
<1>2. QED
  BY <1>1 DEF Covered

(* The end of a phase, a checkpoint or a branch that was not taken leaves nothing out. *)
LEMMA LeafCovered ==
  ASSUME Core, Leaf, ~Failing
  PROVE  CoveredNext(ctl.node)
<1>1. /\ Calls /\ ctl.node \in Nodes /\ Kind(ctl.node) \in {"phase", "checkpoint", "branch"} /\ tree \in Trees
  BY DEF Leaf, Core, Shape, TypeOK
<1>2. CASE Kind(ctl.node) \in {"phase", "checkpoint"}
  <2>1. Len(Kids(ctl.node)) = 0
    BY <1>1, <1>2, TreeFacts
  <2>2. \A n \in Nodes : Within(ctl.node, n) => n = ctl.node
    BY <1>1, <2>1, WithinKid
  <2>3. Kind(ctl.node) = "phase" => ends'[ctl.node] # "NONE"
    BY <1>1 DEF Leaf, Calls
  <2>4. QED
    BY <2>2, <2>3 DEF CoveredNext
<1>3. CASE Kind(ctl.node) = "branch"
  <2>1. ~IsFail(ctl.sub)
    BY <1>1, SubtestOfControl DEF Failing, IsFail
  <2>2. records'[ctl.node] = "NOT_TAKEN"
    BY <1>3, <2>1 DEF Leaf, LeafRecords
  <2>3. QED
    BY <1>1, <2>2 DEF CoveredNext
<1>4. QED
  BY <1>1, <1>2, <1>3

(* Nor does the end of a collection. *)
LEMMA PopCovered ==
  ASSUME Core, Steps, Popped, AlwaysRecords, TroubleInv, NoneLeftOut, ~Troubled
  PROVE  Covered(Top.node)
<1>1. /\ tree \in Trees /\ Top.node \in Nodes /\ Len(stack) \in Nat /\ Len(stack) > 0
      /\ Len(stack) \in 1..Len(stack) /\ Top = stack[Len(stack)] /\ Len(stack') = Len(stack) - 1
      /\ Kind(Top.node) # "phase" /\ Top.i \in Nat
  <2>1. Len(stack) > 0 /\ Len(stack') = Len(stack) - 1
    BY DEF Popped
  <2>2. Top.node \in Nodes /\ Len(stack) \in 1..Len(stack) /\ Top = stack[Len(stack)] /\ Top.i \in Nat /\ Len(stack) \in Nat
    BY <2>1, StackFacts, TopFacts DEF Core, Shape
  <2>3. Kind(Top.node) \in SequenceKinds \cup {"group"}
    BY <2>2 DEF Core, Shape, PathInv
  <2>4. QED
    BY <2>1, <2>2, <2>3 DEF SequenceKinds, Core, Shape, TypeOK
<1>2. ~Carried /\ ~abort /\ ~fullAbort
  BY DEF TroubleInv, Troubled, Core, FullInv
<1>3. LeavesGroup \/ EndsGroup \/ \E r \in Rets : EndsSequence(r)
  <2>1. Len(stack') # Len(stack) /\ ~Enters
    BY <1>1, EntersFacts DEF Core
  <2>2. QED
    BY <2>1, <1>2, DataSteps DEF Steps, Starts, RunMove, Leaf, StepsSequence, StepsGroup, StepMove, NotesSequence,
       EntersGroup, NotesMain, TopSet, EndsWalk, Stays
<1>4. ctl.op \in {"loop", "return"} /\ Top.i = Len(Kids(Top.node))
  <2>1. CASE \E r \in Rets : EndsSequence(r)
    <3>1. ctl.op = "loop" /\ AtEnd
      BY <2>1, <1>2 DEF EndsSequence, Carried
    <3>2. QED
      BY <3>1 DEF AtEnd
  <2>2. CASE LeavesGroup
    BY <2>2, <1>2 DEF LeavesGroup, Carried
  <2>3. CASE EndsGroup
    BY <2>3, <1>1, GroupFacts DEF EndsGroup, InGrp, Core
  <2>4. QED
    BY <2>1, <2>2, <2>3, <1>3
<1>5. Completed(Len(stack)) = Len(Kids(Top.node))
  BY <1>1, <1>4 DEF Completed
<1>6. \A j \in 1..Len(Kids(Top.node)) : Kids(Top.node)[j] # 0 => Covered(Kids(Top.node)[j])
  BY <1>1, <1>5 DEF NoneLeftOut
<1>7. QED
  BY <1>1, <1>6, KidsCovered

LEMMA CoverStep ==
  ASSUME Core, Steps, tree' = tree, RecordInv, TroubleInv, CoverInv, AlwaysRecords
  PROVE  CoverInv'
<1> SUFFICES ASSUME ~TroubledNext, ~FailingNext PROVE NoneLeftOut'
  BY DEF CoverInv, Troubled, TroubledNext, Failing, FailingNext, Kind, Nodes
<1>1. ~Troubled /\ ~Failing /\ NoneLeftOut /\ ~Carried /\ ~Crash
  <2>1. ~Troubled /\ ~Failing
    BY TroubleStays
  <2>2. ~abort
    BY <2>1 DEF Troubled
  <2>3. QED
    BY <2>1, <2>2, DataSteps DEF CoverInv, TroubleInv
<1>2. /\ tree \in Trees /\ Len(stack) \in Nat
      /\ (Len(stack) > 0 => Len(stack) \in 1..Len(stack) /\ Top = stack[Len(stack)] /\ Top.i \in Nat)
      /\ \A k \in 1..Len(stack) : stack[k].i \in Nat
  BY StackFacts DEF Core, Shape, TypeOK, Top
<1>3. \A c : Covered(c) => CoveredNext(c)
  BY CoveredStays
<1>4. Popped => CoveredNext(Top.node)
  BY <1>1, <1>3, PopCovered
<1>5. ASSUME NEW k \in 1..Len(stack'), NEW j \in 1..CompletedNext(k), Kids(stack'[k].node)[j] # 0
      PROVE  CoveredNext(Kids(stack'[k].node)[j])
  <2>1. ASSUME k \in 1..Len(stack), stack'[k].node = stack[k].node, j \in 1..Completed(k)
        PROVE  CoveredNext(Kids(stack'[k].node)[j])
    <3>1. Covered(Kids(stack[k].node)[j])
      BY <2>1, <1>1, <1>5 DEF NoneLeftOut
    <3>2. QED
      BY <3>1, <2>1, <1>3
  <2>2. CASE k \in 1..Len(stack) /\ CompletedNext(k) = Completed(k) /\ stack'[k].node = stack[k].node
    BY <2>1, <2>2, <1>5
  <2>3. CASE CompletedNext(k) = 0
    BY <2>3, <1>5
  <2>4. CASE /\ Leaf /\ k = Len(stack) /\ stack' = stack /\ Len(stack) > 0
             /\ CompletedNext(k) = Top.i /\ Completed(k) = Top.i - 1 /\ Kids(Top.node)[Top.i] = ctl.node
    <3>1. CASE j = Top.i
      BY <3>1, <2>4, <1>1, <1>2, LeafCovered
    <3>2. CASE j # Top.i
      <4>1. k \in 1..Len(stack) /\ j \in 1..Completed(k)
        BY <3>2, <2>4, <1>2, <1>5
      <4>2. QED
        BY <4>1, <2>1, <2>4
    <3>3. QED
      BY <3>1, <3>2
  <2>5. CASE /\ Popped /\ k = Len(stack) - 1 /\ stack'[k] = stack[k]
             /\ CompletedNext(k) = stack[k].i /\ Completed(k) = stack[k].i - 1
             /\ Kids(stack[k].node)[stack[k].i] = Top.node
    <3>1. k \in 1..Len(stack) /\ stack[k].i \in Nat
      BY <2>5, <1>2, <1>5
    <3>2. CASE j = stack[k].i
      BY <3>2, <2>5, <1>4
    <3>3. CASE j # stack[k].i
      <4>1. j \in 1..Completed(k)
        BY <3>1, <3>3, <2>5, <1>5
      <4>2. QED
        BY <4>1, <3>1, <2>1, <2>5
    <3>4. QED
      BY <3>2, <3>3
  <2>6. CASE /\ StepsGroup /\ k = Len(stack) /\ stack'[k].node = Top.node /\ Completed(k) = Top.i
             /\ \/ CompletedNext(k) = Top.i
                \/ CompletedNext(k) = Top.i + 1 /\ Kids(Top.node)[Top.i + 1] = 0
    <3>1. Len(stack) > 0
      BY <2>6 DEF StepsGroup, InGrp
    <3>2. k \in 1..Len(stack) /\ stack'[k].node = stack[k].node /\ Top.i \in Nat
      BY <3>1, <2>6, <1>2
    <3>3. j \in 1..Completed(k)
      <4>1. j # Top.i + 1 \/ CompletedNext(k) = Top.i
        BY <2>6, <1>5
      <4>2. QED
        BY <4>1, <3>2, <2>6, <1>5
    <3>4. QED
      BY <3>2, <3>3, <2>1
  <2>7. QED
    BY <2>2, <2>3, <2>4, <2>5, <2>6, CompletedStep
<1>6. ASSUME ctl'.op = "return", Len(stack') = 0
      PROVE  CoveredNext(1)
  <2>1. CASE Popped
    <3>1. Len(stack) = 1 /\ Top = stack[1]
      <4>1. Len(stack) > 0 /\ Len(stack') = Len(stack) - 1
        BY <2>1 DEF Popped
      <4>2. Len(stack) = 1
        BY <4>1, <1>2, <1>6
      <4>3. QED
        BY <4>1, <4>2, <1>2
    <3>2. Top.node = 1
      BY <3>1 DEF Core, Shape, PathInv
    <3>3. QED
      BY <2>1, <3>2, <1>4
  <2>2. CASE Leaf
    <3>1. Len(stack) = 0 /\ Calls /\ Kind(ctl.node) # "sequence"
      BY <2>2, <1>6 DEF Leaf
    <3>2. QED
      BY <3>1, <1>2, TreeFacts DEF Core, Shape, ControlInv
  <2>3. CASE Stays
    BY <2>3, <1>1, <1>3, <1>6 DEF Stays, NoneLeftOut
  <2>4. CASE Starts
    <3>1. ctl = [op |-> ctl.op, node |-> ctl.node, sub |-> ctl.sub, td |-> ctl.td]
          /\ ctl' = [ctl EXCEPT !.op = "run"]
      BY <2>4, ControlFacts DEF Starts, RunMove, Core, Shape, TypeOK
    <3>2. QED
      BY <3>1, <1>6
  <2>5. CASE StepsGroup \/ StepsSequence \/ NotesSequence \/ EntersGroup \/ NotesMain
    <3>1. Len(stack) > 0 /\ Len(stack') = Len(stack)
      BY <2>5 DEF StepsGroup, StepsSequence, NotesSequence, EntersGroup, NotesMain, StepMove, TopSet
    <3>2. QED
      BY <3>1, <1>6
  <2>6. CASE Enters
    BY <2>6, <1>6, EntersFacts DEF Core
  <2>7. CASE EndsWalk
    BY <2>7, <1>6 DEF EndsWalk
  <2>8. QED
    BY <2>1, <2>2, <2>3, <2>4, <2>5, <2>6, <2>7, <1>1 DEF Steps, EndsSequence, LeavesGroup, EndsGroup
<1>7. ASSUME ctl'.op \in {"finish", "done"}
      PROVE  CoveredNext(1)
  <2>1. CASE EndsWalk
    BY <2>1, <1>1, <1>3 DEF EndsWalk, NoneLeftOut
  <2>2. CASE Stays
    BY <2>2, <1>1, <1>3, <1>7 DEF Stays, NoneLeftOut
  <2>3. CASE Starts
    <3>1. ctl = [op |-> ctl.op, node |-> ctl.node, sub |-> ctl.sub, td |-> ctl.td]
          /\ ctl' = [ctl EXCEPT !.op = "run"]
      BY <2>3, ControlFacts DEF Starts, RunMove, Core, Shape, TypeOK
    <3>2. QED
      BY <3>1, <1>7
  <2>4. CASE LeavesGroup
    BY <2>4, <1>7 DEF LeavesGroup
  <2>5. ctl'.op \in {"return", "call", "loop"} \/ Stays \/ EndsWalk \/ Starts \/ LeavesGroup
    BY <1>1 DEF Steps, Enters, EnterMove, Pushed, Leaf, EndsSequence, StepsSequence, NotesSequence, StepsGroup, StepMove,
       EntersGroup, NotesMain, EndsGroup, Call, Return, Loop
  <2>6. QED
    BY <2>1, <2>2, <2>3, <2>4, <2>5, <1>7
<1>8. QED
  BY <1>5, <1>6, <1>7, CoverPrime

(* What a test PASS stands for. *)
Pass ==
    IF Vacuous THEN \A n \in Nodes : ends[n] \in {"NONE", "DECLINED"}
    ELSE /\ \A n \in Nodes : Kind(n) = "phase" =>
              \/ ends[n] \in {"PASS", "SKIP", "DECLINED"}
              \/ ends[n] = "NONE" /\ \E b \in Nodes : Within(b, n) /\ records[b] = "NOT_TAKEN"
         /\ \A n \in Nodes : Kind(n) \in {"subtest", "checkpoint"}
                               => records[n] \in {"NONE", "PASS", "CONTINUE"}

LEMMA PassMeans ==
  /\ TestPassIsEarned <=> (testOutcome = "PASS" => Pass)
  /\ TestPassIsEarned' <=> (testOutcome' = "PASS" => Pass')
BY DEF TestPassIsEarned, Pass

(* All nodes are in the root. *)
LEMMA RootHolds ==
  ASSUME tree \in Trees, NEW n \in Nodes
  PROVE  Within(1, n)
<1>1. n >= 1 /\ 1 \in Nat
  BY TreeFacts
<1>2. 1..(1 - 1) = {}
  OBVIOUS
<1>3. QED
  BY <1>1, <1>2 DEF Within

LEMMA PassEarned ==
  ASSUME Core, RecordInv, TroubleInv, CoverInv, ~Troubled, ctl.op = "finish", NormalOutcome = "PASS"
  PROVE  Pass
<1>1. tree \in Trees /\ Len(stack) = 0 /\ ends \in EndsType /\ phases \in PhasesType
      /\ subtest \in [Nodes -> SubtestOutcomes] /\ Len(phases) \in Nat
  <2>1. tree \in Trees /\ Len(stack) = 0 /\ ends \in EndsType /\ phases \in PhasesType
        /\ subtest \in [Nodes -> SubtestOutcomes]
    BY DEF Core, Shape, ControlInv, TypeOK, EndsType, PhasesType
  <2>2. QED
    BY <2>1 DEF PhasesType
<1>2. /\ \A n \in Nodes : ends[n] \notin {"STOP", "EXC", "TIMEOUT", "CANCELLED"} /\ subtest[n] # "STOP"
      /\ \A n \in Nodes : Kind(n) = "subtest" => records[n] = subtest[n]
  BY <1>1 DEF TroubleInv, RecordInv, IsTerminal, Troubled
<1>3. \A n \in Nodes : ends[n] \in {"NONE", "DECLINED", "PASS", "FAIL", "FAIL_SUBTEST", "SKIP", "SKIPPED"}
  BY <1>1, <1>2, RecordedFacts DEF EndsType, PhaseEnds
<1>4. \A n \in Nodes : ends[n] \notin {"NONE", "DECLINED"} =>
        \E k \in 1..Len(phases) : phases[k].outcome = Recorded[ends[n]]
  BY <1>3, RecordedFacts DEF RecordInv
<1>5. CASE Vacuous
  <2>1. Len(phases) = 0
    BY <1>5 DEF Vacuous
  <2>2. \A n \in Nodes : ends[n] \in {"NONE", "DECLINED"}
    BY <2>1, <1>4
  <2>3. QED
    BY <2>2, <1>5 DEF Pass
<1>6. CASE ~Vacuous
  <2>1. \A s \in Nodes : Kind(s) = "subtest" => records[s] # "FAIL"
    BY <1>6 DEF Vacuous, NormalOutcome
  <2>2. ~Failing
    BY <2>1, <1>2 DEF Failing
  <2>3. Covered(1)
    BY <2>2 DEF CoverInv, NoneLeftOut
  <2>4. \A k \in 1..Len(phases) : phases[k].outcome # "FAIL"
    <3>1. CASE phases = <<>>
      BY <3>1
    <3>2. CASE phases # <<>>
      BY <3>2 DEF NormalOutcome
    <3>3. QED
      BY <3>1, <3>2
  <2>5. ASSUME NEW n \in Nodes, Kind(n) = "phase"
        PROVE  \/ ends[n] \in {"PASS", "SKIP", "DECLINED"}
               \/ ends[n] = "NONE" /\ \E b \in Nodes : Within(b, n) /\ records[b] = "NOT_TAKEN"
    <3>1. ends[n] # "NONE" \/ \E b \in Nodes : Within(b, n) /\ records[b] = "NOT_TAKEN"
      BY <2>3, <2>5, <1>1, RootHolds DEF Covered
    <3>2. ends[n] \notin {"FAIL", "FAIL_SUBTEST"}
      BY <1>4, <2>4, RecordedFacts
    <3>3. ends[n] # "SKIPPED"
      BY <2>2 DEF TroubleInv
    <3>4. QED
      BY <3>1, <3>2, <3>3, <1>3
  <2>6. ASSUME NEW n \in Nodes, Kind(n) \in {"subtest", "checkpoint"}
        PROVE  records[n] \in {"NONE", "PASS", "CONTINUE"}
    <3>1. CASE Kind(n) = "subtest"
      <4>1. records[n] = subtest[n] /\ subtest[n] \in SubtestOutcomes /\ subtest[n] # "STOP"
        BY <3>1, <1>1, <1>2
      <4>2. QED
        BY <3>1, <4>1, <2>1 DEF SubtestOutcomes
    <3>2. CASE Kind(n) = "checkpoint"
      BY <3>2, <2>2 DEF TroubleInv, CheckpointRecords
    <3>3. QED
      BY <2>6, <3>1, <3>2
  <2>7. QED
    BY <1>6, <2>5, <2>6 DEF Pass
<1>7. QED
  BY <1>5, <1>6

(* Nothing happens after the test is done. *)
LEMMA DoneStays ==
  ASSUME [Next]_vars, ctl.op = "done"
  PROVE  UNCHANGED vars
BY DEF Next, ExecuteSequence, ExecuteSubtest, ExecutePhaseBranch, ExecutePhaseGroup, Calling, AbortableSequence,
   TeardownSequence, ReturnToSequence, GroupSequence, ReturnToGroup, SkipPhase, StartPhase, FinishPhase,
   ExecuteCheckpoint, WalkReturns, FinalizeTest, Abort, Done

(* Only _execute_test_teardown sets the outcome of the test. *)
LEMMA OutcomeSteps ==
  ASSUME [Next]_vars
  PROVE  testOutcome' = testOutcome \/ FinalizeTest
BY DEF Next, ExecuteSequence, ExecuteSubtest, ExecutePhaseBranch, ExecutePhaseGroup, AbortableSequence,
   TeardownSequence, ReturnToSequence, GroupSequence, ReturnToGroup, SkipPhase, StartPhase, FinishPhase,
   ExecuteCheckpoint, WalkReturns, Abort, Done, vars, recordVars

(* The inductive invariant of PassIsEarned. *)
PassInv ==
    /\ Earned /\ RecordInv /\ TroubleInv /\ CoverInv /\ TestPassIsEarned
    /\ testOutcome # "NONE" => ctl.op = "done"

LEMMA PassInit == Init => PassInv
<1> SUFFICES ASSUME Init PROVE PassInv
  OBVIOUS
<1>1. Earned
  BY EarnedInit
<1>2. /\ Len(stack) = 0 /\ ctl.op = "call" /\ lastOutcome = "NONE" /\ testOutcome = "NONE"
      /\ \A n \in Nodes : ends[n] = "NONE" /\ records[n] = "NONE" /\ subtest[n] = "NONE"
  BY DEF Init, Call
<1>3. RecordInv
  BY <1>2, RecordedFacts DEF RecordInv
<1>4. TroubleInv
  BY <1>2 DEF TroubleInv, Carried, IsTerminal, CheckpointRecords
<1>5. CoverInv
  BY <1>2 DEF CoverInv, NoneLeftOut
<1>6. QED
  BY <1>1, <1>2, <1>3, <1>4, <1>5 DEF PassInv, TestPassIsEarned

LEMMA PassStep ==
  ASSUME AlwaysRecords, PassInv, [Next]_vars
  PROVE  PassInv'
<1>1. Earned' /\ tree' = tree /\ Steps /\ Core
  BY EarnedStep DEF PassInv, Earned
<1>2. RecordInv' /\ TroubleInv' /\ CoverInv'
  BY <1>1, RecordStep, TroubleStep, CoverStep DEF PassInv
<1>3. CASE FinalizeTest
  <2>1. ctl.op = "finish" /\ ctl'.op = "done"
    BY <1>3 DEF FinalizeTest
  <2>2. ASSUME testOutcome' = "PASS" PROVE Pass'
    <3>1. ~abort /\ lastOutcome \notin {"EXC", "TIMEOUT", "CANCELLED", "STOP"} /\ NormalOutcome = "PASS"
      BY <2>2, <1>3 DEF FinalizeTest
    <3>2. ~Troubled
      BY <3>1 DEF PassInv, TroubleInv, IsTerminal, Troubled
    <3>3. Pass
      BY <1>1, <2>1, <3>1, <3>2, PassEarned DEF PassInv
    <3>4. UNCHANGED <<tree, ends, phases, records>>
      BY <1>3 DEF FinalizeTest
    <3>5. QED
      BY <3>3, <3>4 DEF Pass, Vacuous, Nodes, Kind, Within, Kids
  <2>3. TestPassIsEarned'
    BY <2>2, PassMeans
  <2>4. QED
    BY <1>1, <1>2, <2>1, <2>3 DEF PassInv
<1>4. CASE testOutcome' = testOutcome /\ testOutcome = "NONE"
  <2>1. TestPassIsEarned'
    BY <1>4, PassMeans
  <2>2. QED
    BY <1>1, <1>2, <1>4, <2>1 DEF PassInv
<1>5. CASE testOutcome' = testOutcome /\ testOutcome # "NONE"
  <2>1. ctl.op = "done" /\ UNCHANGED vars
    BY <1>5, DoneStays DEF PassInv
  <2>2. TestPassIsEarned' /\ ctl'.op = "done"
    BY <2>1 DEF PassInv, TestPassIsEarned, vars, walkVars, recordVars, Vacuous, Nodes, Kind, Within, Kids
  <2>3. QED
    BY <1>1, <1>2, <2>2 DEF PassInv
<1>6. QED
  BY <1>3, <1>4, <1>5, OutcomeSteps

(* A PASS of the test or of a subtest forgets no failure, with stop_on_first_failure too if no
   phase can be declined. *)
THEOREM PassesAreEarned ==
  ASSUME AlwaysRecords
  PROVE  Spec => []PassIsEarned
<1>1. PassInv /\ [Next]_vars => PassInv'
  BY PassStep
<1>2. PassInv => PassIsEarned
  BY DEF PassInv, Earned, PassIsEarned
<1>3. QED
  BY PassInit, <1>1, <1>2, PTL DEF Spec
=============================================================================

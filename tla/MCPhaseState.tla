---------------------------- MODULE MCPhaseState ----------------------------
(* Instances of PhaseState for TLC. *)
EXTENDS PhaseState, MCOutput

(* A phase with a scalar and a dimensioned measurement, then one with the scalar. *)
MCDeclared == <<{"s", "d"}, {"s"}>>
MCMaxSets == <<2, 1>>

(* The scalar is marginal from 7 on and may not exceed 8; the diagnosis lowers the
   limit. The rows of the other one must stay within 25% of 8 once they are there. *)
MCValidatorsOf ==
    [s |-> <<InRange(<<0>>, <<8>>, <<>>, <<7>>)>>,
     d |-> <<ConsistentEnd(WithinPercent(8, 25, <<>>))>>]
MCConditional == [s |-> <<InRange(<<>>, <<7>>, <<>>, <<>>)>>, d |-> <<>>]

(* The upper limit of the scalar (6 and 10 are those of the rows), a value beyond all
   limits, and one that cannot be compared. *)
MCValues == {Number(8), Number(11), Other("text")}

(* No diagnosis, one, a failure before an element that is refused, an internal one. *)
MCReturns == {<<>>, <<"res">>, <<"fail", "invalid">>, <<"internal", "res">>}

-----------------------------------------------------------------------------
(* The validators against their reference, on every limit and value of a small range. *)

Limits == {<<>>, <<-2>>, <<0>>, <<3>>}
Scalars == {v \in {InRange(a, b, c, d) : a, b, c, d \in Limits}
                  \cup {WithinPercent(e, p, m) : e \in {-4, 0, 8}, p \in {0, 25, 50}, m \in {<<>>, <<10>>}} :
              Constructible(v)}
Scalar == {Number(n) : n \in -7..13} \cup {Other(t) : t \in {"nan", "None", "text"}}
Rows == SeqOf({Number(-2), Number(3), Number(6), Other("nan"), Other("text")}, 3) \ {<<>>}

(* A call passes exactly the values that meet the description of the validator. *)
ASSUME ScalarsAssumption ==
    \A v \in Scalars, value \in Scalar :
        Call(v, <<value>>) = "pass" <=> Meets(v, <<value>>)

(* The same for the two validators of rows. *)
ASSUME RowsAssumption ==
    \A sub \in Scalars, rows \in Rows : \A v \in {DimensionPivot(sub), ConsistentEnd(sub)} :
        Call(v, rows) = "pass" <=> Meets(v, rows)

(* The same for those of lists: all_in_range, and all_equals of what is not a text. *)
Items == SeqOf({Number(-2), Number(0), Number(3), Other("nan"), Other("None")}, 3)
ASSUME ListsAssumption ==
    \A v \in {u \in {AllInRange(a, b, c, d) : a, b, c, d \in Limits} : Constructible(u)}
              \cup {AllEqualsOf(x) : x \in {Number(0), Number(3), Other("None")}} :
        \A items \in Items :
            /\ ValueCall(v, ListOf(items)) = "pass" <=> ItemsMeet(v, items)
            /\ v.kind = "all_in_range" /\ ItemsMeet(v, items) /\ AllInRangeMarginal(v, items) =>
                 \E i \in DOMAIN items :
                     InRangeMarginal([v EXCEPT !.kind = "in_range"], items[i]) = "pass"

(* equals() passes what is expected, of any type, and nothing else. *)
ASSUME EqualsAssumption ==
    \A x \in {Number(0), Number(3), Other("text"), Other("None")}, value \in Scalar :
        LET v == EqualsOf(x)
            verdict == IF v.kind = "in_range" THEN Call(v, <<value>>) ELSE ValueCall(v, value)
        IN  verdict = "pass" <=> value = x
=============================================================================

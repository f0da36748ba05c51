----------------------------- MODULE Validators -----------------------------
(***************************************************************************)
(* The validators a measurement can have, as operators, and a reference    *)
(* definition of what each one is to accept.                               *)
(* Source: openhtf/util/validators.py.                                     *)
(*                                                                         *)
(* A limit is a sequence, empty for None. Numbers are integers: the        *)
(* arithmetic of floats is not modelled, and percentages are compared      *)
(* after multiplication by 100.                                            *)
(***************************************************************************)
EXTENDS Integers, Sequences, SequencesExt

(* What a body can measure: a number, or "nan", "None" or "text". *)
Number(n) == [type |-> "number", n |-> n]
Other(t) == [type |-> t, n |-> 0]
IsNumber(value) == value.type = "number"

InRange(min, max, marginalMin, marginalMax) ==
    [kind |-> "in_range", min |-> min, max |-> max,
     marginalMin |-> marginalMin, marginalMax |-> marginalMax]
Equals(n) == InRange(<<n>>, <<n>>, <<>>, <<>>)
WithinPercent(expected, percent, marginal) ==
    [kind |-> "within_percent", expected |-> expected, percent |-> percent, marginal |-> marginal]
DimensionPivot(sub) == [kind |-> "pivot", sub |-> sub]
ConsistentEnd(sub) == [kind |-> "consistent_end", sub |-> sub]
IsPivot(v) == v.kind \in {"pivot", "consistent_end"}

(* a > b, where both are given. *)
Above(a, b) == a # <<>> /\ b # <<>> /\ a[1] > b[1]

(* InRange.__init__ and WithinPercent.__init__ raise a ValueError on the others. *)
Constructible(v) ==
    CASE v.kind \in {"in_range", "all_in_range"} ->
           /\ v.min # <<>> \/ v.max # <<>>
           /\ v.marginalMin # <<>> => v.min # <<>>
           /\ v.marginalMax # <<>> => v.max # <<>>
           /\ ~Above(v.min, v.max) /\ ~Above(v.min, v.marginalMin)
           /\ ~Above(v.marginalMax, v.max) /\ ~Above(v.marginalMin, v.marginalMax)
      [] v.kind = "within_percent" ->
           v.percent >= 0 /\ \A i \in DOMAIN v.marginal : v.marginal[i] < v.percent
      [] OTHER -> TRUE

Limit == {s \in Seq(Int) : Len(s) <= 1}
ScalarValidators ==
    {v \in [kind : {"in_range"}, min : Limit, max : Limit, marginalMin : Limit,
            marginalMax : Limit]
             \cup [kind : {"within_percent"}, expected : Int, percent : Int, marginal : Limit] :
       Constructible(v)}
PivotValidators == [kind : {"pivot", "consistent_end"}, sub : ScalarValidators]
MeasuredValues == [type : {"number", "nan", "None", "text"}, n : Int]

-----------------------------------------------------------------------------
(* A call of a validator passes, fails or raises. *)

Verdict(b) == IF b THEN "pass" ELSE "fail"

(* InRange.__call__: isnan() raises on what is not a number. *)
InRangeCall(v, value) ==
    CASE value.type = "text" -> "raise"
      [] value.type \in {"None", "nan"} -> "fail"
      [] OTHER -> Verdict(/\ v.min # <<>> => ~(value.n < v.min[1])
                          /\ v.max # <<>> => ~(value.n > v.max[1]))

(* The limits of WithinPercent, times 100. *)
Abs(n) == IF n < 0 THEN -n ELSE n
Minimum(v) == 100 * v.expected - Abs(v.expected * v.percent)
Maximum(v) == 100 * v.expected + Abs(v.expected * v.percent)
MarginalMinimum(v) == 100 * v.expected - Abs(v.expected * v.marginal[1])
MarginalMaximum(v) == 100 * v.expected + Abs(v.expected * v.marginal[1])

(* WithinPercent.__call__: a comparison with nan is false, with the others raises. *)
WithinPercentCall(v, value) ==
    CASE value.type \in {"None", "text"} -> "raise"
      [] value.type = "nan" -> "fail"
      [] OTHER -> Verdict(Minimum(v) <= 100 * value.n /\ 100 * value.n <= Maximum(v))

ScalarCall(v, value) ==
    IF v.kind = "in_range" THEN InRangeCall(v, value) ELSE WithinPercentCall(v, value)

(* all(): the first that does not pass decides. *)
All(verdicts) ==
    LET i == SelectInSeq(verdicts, LAMBDA d : d # "pass")
    IN  IF i = 0 THEN "pass" ELSE verdicts[i]

(* DimensionPivot.__call__, on the values of the rows. *)
DimensionPivotCall(v, values) == All([i \in DOMAIN values |-> ScalarCall(v.sub, values[i])])

(* ConsistentEndDimensionPivot.__call__: from the first row that validates on. *)
ConsistentEndCall(v, values) ==
    LET verdicts == [i \in DOMAIN values |-> ScalarCall(v.sub, values[i])]
        first == SelectInSeq(verdicts, LAMBDA d : d # "fail")
    IN  IF first = 0 THEN "fail"
        ELSE IF verdicts[first] = "raise" THEN "raise"
        ELSE All(SubSeq(verdicts, first, Len(verdicts)))

(* A validator's call on the values of a measurement, one unless it is dimensioned. *)
Call(v, values) ==
    CASE v.kind = "pivot" -> DimensionPivotCall(v, values)
      [] v.kind = "consistent_end" -> ConsistentEndCall(v, values)
      [] OTHER -> ScalarCall(v, values[1])

(* InRange.is_marginal. *)
InRangeMarginal(v, value) ==
    Verdict(/\ IsNumber(value)
            /\ \/ v.marginalMin # <<>> /\ v.min[1] <= value.n /\ value.n <= v.marginalMin[1]
               \/ v.marginalMax # <<>> /\ v.max[1] >= value.n /\ value.n >= v.marginalMax[1])

(* WithinPercent.is_marginal: a marginal_percent of 0 gives limits of None, and the
   comparison with them raises. *)
WithinPercentMarginal(v, value) ==
    CASE v.marginal = <<>> -> "fail"
      [] v.marginal = <<0>> -> "raise"
      [] OTHER ->
           LET n == 100 * value.n
           IN  Verdict(\/ Minimum(v) < n /\ n <= MarginalMinimum(v)
                       \/ MarginalMaximum(v) <= n /\ n < Maximum(v))

(* Whether a value that passed is marginal; the pivots have no is_marginal. *)
IsMarginal(v, values) ==
    CASE IsPivot(v) -> "fail"
      [] v.kind = "in_range" -> InRangeMarginal(v, values[1])
      [] OTHER -> WithinPercentMarginal(v, values[1])

-----------------------------------------------------------------------------
(* Validators of a value that is a list, and those chosen by what is expected. *)

ListOf(items) == [type |-> "list", n |-> 0, items |-> items]

AllInRange(min, max, marginalMin, marginalMax) ==
    [InRange(min, max, marginalMin, marginalMax) EXCEPT !.kind = "all_in_range"]
AllEqualsValidator(spec) == [kind |-> "all_equals", spec |-> spec]
EqualsValidator(expected) == [kind |-> "equals", spec |-> expected]
RegexMatcher(text) == [kind |-> "regex", spec |-> text]

(* all_equals(value) and equals(value): a number makes a range, a text a regular
   expression. *)
AllEqualsOf(x) ==
    CASE IsNumber(x) -> AllInRange(<<x.n>>, <<x.n>>, <<>>, <<>>)
      [] x.type = "text" -> RegexMatcher(x)
      [] OTHER -> AllEqualsValidator(x)
EqualsOf(x) ==
    CASE IsNumber(x) -> Equals(x.n)
      [] x.type = "text" -> RegexMatcher(x)
      [] OTHER -> EqualsValidator(x)

(* A comparison of an item with a number, which b says the outcome of. *)
Compared(item, b) ==
    CASE IsNumber(item) -> Verdict(b)
      [] item.type = "nan" -> "fail"
      [] OTHER -> "raise"

(* AllInRangeValidator.__call__: both limits are looked at, the upper one first. *)
AllInRangeCall(v, items) ==
    LET below == IF v.max = <<>> THEN "pass"
                 ELSE All([i \in DOMAIN items |-> Compared(items[i], items[i].n <= v.max[1])])
        above == IF v.min = <<>> THEN "pass"
                 ELSE All([i \in DOMAIN items |-> Compared(items[i], items[i].n >= v.min[1])])
    IN  IF "raise" \in {below, above} THEN "raise" ELSE Verdict({below, above} = {"pass"})

(* AllInRangeValidator.is_marginal, of items that passed. *)
AllInRangeMarginal(v, items) ==
    \E i \in DOMAIN items :
        LET n == items[i].n
        IN  \/ v.marginalMax # <<>> /\ v.marginalMax[1] <= n /\ n <= v.max[1]
            \/ v.marginalMin # <<>> /\ v.min[1] <= n /\ n <= v.marginalMin[1]

(* A call of these validators; RegexMatcher.__call__ looks at str(value), and that of a
   list is never the text. What is not a list cannot be iterated. *)
ValueCall(v, value) ==
    IF v.kind \in {"equals", "regex"} THEN Verdict(value = v.spec)
    ELSE IF value.type # "list" THEN "raise"
    ELSE IF v.kind = "all_equals"
      THEN Verdict(\A i \in DOMAIN value.items : value.items[i] = v.spec)
    ELSE AllInRangeCall(v, value.items)

-----------------------------------------------------------------------------
(* Reference: what a validator is to accept, from the descriptions of the classes. *)

WithinLimits(v, value) ==
    /\ IsNumber(value)
    /\ IF v.kind = "in_range"
         THEN /\ \A i \in DOMAIN v.min : v.min[i] <= value.n
              /\ \A i \in DOMAIN v.max : value.n <= v.max[i]
         ELSE 100 * Abs(value.n - v.expected) <= Abs(v.expected) * v.percent

(* What a comparison with numbers does not raise on. *)
Comparable(v, value) ==
    value.type \in {"number", "nan"} \cup IF v.kind = "in_range" THEN {"None"} ELSE {}

(* "All values pass"; "if any rows validate, all following rows must also validate",
   and one does; a row that cannot be compared is never passed over. *)
Meets(v, values) ==
    CASE v.kind = "pivot" -> \A i \in DOMAIN values : WithinLimits(v.sub, values[i])
      [] v.kind = "consistent_end" ->
           \E i \in DOMAIN values :
               /\ \A j \in i..Len(values) : WithinLimits(v.sub, values[j])
               /\ \A j \in 1..(i - 1) :
                    Comparable(v.sub, values[j]) /\ ~WithinLimits(v.sub, values[j])
      [] OTHER -> WithinLimits(v, values[1])

(* "A list of values are within a range", "a list of values are equal to the expected". *)
ItemsMeet(v, items) ==
    \A i \in DOMAIN items :
        IF v.kind = "all_equals" THEN items[i] = v.spec
        ELSE WithinLimits([v EXCEPT !.kind = "in_range"], items[i])

=============================================================================

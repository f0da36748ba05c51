-------------------------- MODULE PhaseStateProofs --------------------------
(***************************************************************************)
(* Every validator accepts what its reference says, for every limit, value *)
(* and number of rows; and from the values a phase body sets to the record *)
(* of the test nothing is judged, shown or reported otherwise than it was, *)
(* for any phases, measurements, validators and diagnosers, whatever the   *)
(* reader converts in between.                                             *)
(***************************************************************************)
EXTENDS PhaseState, TLAPS, WellFoundedInduction

-----------------------------------------------------------------------------
(* Validators. *)

LEMMA NatMin ==
    ASSUME NEW I \in SUBSET Nat, I # {}
    PROVE  Min(I) \in I /\ \A j \in I : Min(I) <= j
<1>1. PICK x \in I : \A y \in I : ~(<<y, x>> \in OpToRel(<, Nat))
  BY NatLessThanWellFounded, WFMin
<1>2. \A y \in I : ~(y < x)
  <2>1. \A y \in I : y < x => <<y, x>> \in OpToRel(<, Nat)
    BY DEF OpToRel
  <2>2. QED
    BY <1>1, <2>1
<1>3. \A y \in I : x <= y
  BY <1>2
<1>4. QED
  BY <1>3 DEF Min

\* all() passes when every verdict does.
LEMMA AllPass ==
    ASSUME NEW S, NEW s \in Seq(S)
    PROVE  All(s) = "pass" <=> \A i \in 1..Len(s) : s[i] = "pass"
<1> DEFINE I == {i \in 1..Len(s) : s[i] # "pass"}
<1>1. Len(s) \in Nat /\ I \in SUBSET Nat /\ 0 \notin I
  OBVIOUS
<1>2. All(s) = IF (IF I # {} THEN Min(I) ELSE 0) = 0 THEN "pass"
               ELSE s[IF I # {} THEN Min(I) ELSE 0]
  BY DEF All, SelectInSeq
<1>3. CASE I = {}
  BY <1>2, <1>3
<1>4. CASE I # {}
  <2>1. Min(I) \in I
    BY <1>1, <1>4, NatMin
  <2>2. Min(I) # 0 /\ s[Min(I)] # "pass" /\ Min(I) \in 1..Len(s)
    BY <2>1, <1>1
  <2>3. QED
    BY <1>2, <1>4, <2>2
<1>5. QED
  BY <1>3, <1>4

LEMMA ProductFacts ==
    ASSUME NEW e \in Int, NEW p \in Int, p >= 0
    PROVE  Abs(e * p) = Abs(e) * p /\ Abs(e) * p \in Int /\ Abs(e) * p >= 0
<1>1. CASE e >= 0
  <2>1. e * p >= 0
    BY <1>1
  <2>2. QED
    BY <1>1, <2>1 DEF Abs
<1>2. CASE e < 0
  <2>1. (-e) * p >= 0 /\ (-e) * p = -(e * p)
    BY <1>2
  <2>2. QED
    BY <1>2, <2>1 DEF Abs
<1>3. QED
  BY <1>1, <1>2

\* InRange and WithinPercent: a call passes exactly the numbers within the limits, and
\* what it fails can be compared.
LEMMA ScalarMeets ==
    ASSUME NEW v \in ScalarValidators, NEW value \in MeasuredValues
    PROVE  /\ ScalarCall(v, value) = "pass" <=> WithinLimits(v, value)
           /\ ScalarCall(v, value) = "fail" <=>
                Comparable(v, value) /\ ~WithinLimits(v, value)
           /\ ScalarCall(v, value) \in {"pass", "fail", "raise"}
<1>1. CASE v.kind = "in_range"
  <2>1. /\ v.min \in Seq(Int) /\ v.max \in Seq(Int) /\ Len(v.min) <= 1 /\ Len(v.max) <= 1
        /\ value.n \in Int /\ value.type \in {"number", "nan", "None", "text"}
    BY <1>1 DEF ScalarValidators, Limit, MeasuredValues
  <2>2. ASSUME NEW s \in Seq(Int), Len(s) <= 1
        PROVE  (s = <<>> /\ DOMAIN s = {}) \/ (s # <<>> /\ DOMAIN s = {1} /\ s[1] \in Int)
    <3> DEFINE k == Len(s)
    <3>1. k \in Nat /\ k <= 1
      BY <2>2
    <3> HIDE DEF k
    <3>2. k = 0 \/ k = 1
      BY <3>1
    <3>3. QED
      BY <3>2 DEF k
  <2>3. CASE value.type = "number"
    <3>1. (v.min # <<>> => ~(value.n < v.min[1]))
             <=> \A i \in DOMAIN v.min : v.min[i] <= value.n
      BY <2>1, <2>2
    <3>2. (v.max # <<>> => ~(value.n > v.max[1]))
             <=> \A i \in DOMAIN v.max : value.n <= v.max[i]
      BY <2>1, <2>2
    <3>3. QED
      BY <1>1, <2>3, <3>1, <3>2
         DEF ScalarCall, InRangeCall, Verdict, WithinLimits, IsNumber, Comparable
  <2>4. CASE value.type # "number"
    BY <1>1, <2>1, <2>4
       DEF ScalarCall, InRangeCall, WithinLimits, IsNumber, Comparable
  <2>5. QED
    BY <2>3, <2>4
<1>2. CASE v.kind = "within_percent"
  <2>1. /\ v.expected \in Int /\ v.percent \in Int /\ v.percent >= 0
        /\ value.n \in Int /\ value.type \in {"number", "nan", "None", "text"}
    BY <1>2 DEF ScalarValidators, MeasuredValues, Constructible
  <2>2. CASE value.type = "number"
    <3> DEFINE e == v.expected  p == v.percent  d == Abs(e) * p  n == value.n
    <3>1. Abs(e * p) = d /\ d \in Int /\ d >= 0
      BY <2>1, ProductFacts
    <3>2. Minimum(v) = 100 * e - d /\ Maximum(v) = 100 * e + d
      BY <3>1 DEF Minimum, Maximum
    <3> HIDE DEF d
    <3>3. (100 * e - d <= 100 * n /\ 100 * n <= 100 * e + d)
            <=> 100 * Abs(n - e) <= d
      BY <2>1, <3>1 DEF Abs
    <3>4. ScalarCall(v, value) = Verdict(100 * Abs(n - e) <= d)
      BY <1>2, <2>2, <3>2, <3>3 DEF ScalarCall, WithinPercentCall, Verdict
    <3>5. WithinLimits(v, value) <=> 100 * Abs(n - e) <= d
      BY <1>2, <2>2 DEF WithinLimits, IsNumber, d
    <3>6. QED
      BY <1>2, <2>2, <3>4, <3>5 DEF Verdict, Comparable
  <2>3. CASE value.type # "number"
    BY <1>2, <2>1, <2>3
       DEF ScalarCall, WithinPercentCall, WithinLimits, IsNumber, Comparable
  <2>4. QED
    BY <2>2, <2>3
<1>3. QED
  BY <1>1, <1>2 DEF ScalarValidators

LEMMA FromFirst ==
    ASSUME NEW S, NEW s \in Seq(S), NEW first \in 1..Len(s)
    PROVE  /\ SubSeq(s, first, Len(s)) \in Seq(S) /\ Len(s) \in Nat
           /\ Len(SubSeq(s, first, Len(s))) = Len(s) - first + 1
           /\ \A k \in 1..(Len(s) - first + 1) :
                SubSeq(s, first, Len(s))[k] = s[first + k - 1]
OBVIOUS

(* A call of a validator passes exactly the values that meet its description:
   InRange, WithinPercent, DimensionPivot and ConsistentEndDimensionPivot, on a value
   or on any number of rows. *)
THEOREM CallsMeet ==
    ASSUME NEW v \in ScalarValidators \cup PivotValidators,
           NEW values \in Seq(MeasuredValues), values # <<>>
    PROVE  Call(v, values) = "pass" <=> Meets(v, values)
<1> DEFINE Verdicts == {"pass", "fail", "raise"}
<1>1. /\ Len(values) \in Nat \ {0} /\ DOMAIN values = 1..Len(values)
      /\ \A i \in 1..Len(values) : values[i] \in MeasuredValues
  OBVIOUS
<1>2. CASE v \in ScalarValidators
  <2>1. v.kind \in {"in_range", "within_percent"} /\ values[1] \in MeasuredValues
    BY <1>1, <1>2 DEF ScalarValidators
  <2>2. QED
    BY <1>2, <2>1, ScalarMeets DEF Call, Meets
<1>3. CASE v \in PivotValidators
  <2> DEFINE sub == v.sub
             s == [i \in DOMAIN values |-> ScalarCall(sub, values[i])]
             Within(i) == WithinLimits(sub, values[i])
  <2>1. sub \in ScalarValidators /\ v.kind \in {"pivot", "consistent_end"}
    BY <1>3 DEF PivotValidators
  <2>2. \A i \in 1..Len(values) :
          /\ s[i] = "pass" <=> Within(i)
          /\ s[i] = "fail" <=> Comparable(sub, values[i]) /\ ~Within(i)
          /\ s[i] \in Verdicts
    BY <1>1, <2>1, ScalarMeets
  <2>3. s \in Seq(Verdicts) /\ Len(s) = Len(values)
    <3>1. s \in [1..Len(values) -> Verdicts]
      BY <1>1, <2>2
    <3>2. QED
      BY <1>1, <3>1
  <2>4. CASE v.kind = "pivot"
    <3>1. Call(v, values) = All(s)
      BY <2>4 DEF Call, DimensionPivotCall
    <3> HIDE DEF s
    <3>2. All(s) = "pass" <=> \A i \in 1..Len(values) : s[i] = "pass"
      BY <2>3, AllPass
    <3>3. Meets(v, values) <=> \A i \in 1..Len(values) : Within(i)
      BY <1>1, <2>4 DEF Meets
    <3>4. QED
      BY <3>1, <3>2, <3>3, <2>2
  <2>5. CASE v.kind = "consistent_end"
    <3> DEFINE I == {i \in 1..Len(s) : s[i] # "fail"}
               first == IF I # {} THEN Min(I) ELSE 0
    <3>1. Call(v, values) = IF first = 0 THEN "fail"
                            ELSE IF s[first] = "raise" THEN "raise"
                            ELSE All(SubSeq(s, first, Len(s)))
      BY <2>5 DEF Call, ConsistentEndCall, SelectInSeq
    <3>2. Meets(v, values) <=>
            \E i \in 1..Len(values) :
                /\ \A j \in i..Len(values) : Within(j)
                /\ \A j \in 1..(i - 1) : Comparable(sub, values[j]) /\ ~Within(j)
      BY <1>1, <2>5 DEF Meets
    <3> HIDE DEF s, Within
    <3>3. ASSUME Meets(v, values) PROVE Call(v, values) = "pass"
      <4>1. PICK i \in 1..Len(values) :
                /\ \A j \in i..Len(values) : Within(j)
                /\ \A j \in 1..(i - 1) : Comparable(sub, values[j]) /\ ~Within(j)
        BY <3>2, <3>3
      <4>2. \A j \in 1..(i - 1) : s[j] = "fail"
        BY <4>1, <2>2, <1>1
      <4>3. \A j \in i..Len(values) : s[j] = "pass"
        BY <4>1, <2>2, <1>1
      <4>4. i \in I /\ \A j \in I : i <= j
        <5>1. i \in I
          BY <4>3, <2>3, <1>1
        <5>2. ASSUME NEW j \in I PROVE i <= j
          <6>1. j \in 1..Len(values) /\ s[j] # "fail"
            BY <2>3
          <6>2. QED
            BY <6>1, <4>2, <1>1
        <5>3. QED
          BY <5>1, <5>2
      <4>5. first = i
        <5>1. I \in SUBSET Nat /\ I # {}
          BY <4>4, <2>3, <1>1
        <5>2. Min(I) \in I /\ \A j \in I : Min(I) <= j
          BY <5>1, NatMin
        <5>3. QED
          BY <5>1, <5>2, <4>4
      <4> HIDE DEF I, first
      <4>6. All(SubSeq(s, i, Len(s))) = "pass"
        <5> DEFINE t == SubSeq(s, i, Len(s))
        <5>1. /\ t \in Seq(Verdicts) /\ Len(t) = Len(s) - i + 1
              /\ \A k \in 1..(Len(s) - i + 1) : t[k] = s[i + k - 1]
          BY <2>3, FromFirst
        <5> HIDE DEF t
        <5>2. ASSUME NEW k \in 1..Len(t) PROVE t[k] = "pass"
          <6>1. i + k - 1 \in i..Len(values) /\ t[k] = s[i + k - 1]
            BY <5>1, <2>3, <1>1
          <6>2. QED
            BY <6>1, <4>3
        <5>3. All(t) = "pass"
          BY <5>1, <5>2, AllPass
        <5>4. QED
          BY <5>3 DEF t
      <4>7. first # 0 /\ s[first] = "pass"
        BY <4>3, <4>5, <1>1
      <4>8. QED
        BY <3>1, <4>5, <4>6, <4>7
    <3>4. ASSUME Call(v, values) = "pass" PROVE Meets(v, values)
      <4>1. first # 0 /\ s[first] # "raise" /\ All(SubSeq(s, first, Len(s))) = "pass"
        BY <3>1, <3>4
      <4>2. I # {} /\ first = Min(I) /\ I \in SUBSET Nat
        BY <4>1, <2>3, <1>1
      <4>3. first \in I /\ \A j \in I : first <= j
        BY <4>2, NatMin
      <4> HIDE DEF first
      <4>4. first \in 1..Len(s) /\ \A j \in 1..(first - 1) : s[j] = "fail"
        <5>1. first \in 1..Len(s) /\ Len(s) \in Nat
          BY <4>3, <2>3, <1>1
        <5>2. ASSUME NEW j \in 1..(first - 1), s[j] # "fail" PROVE FALSE
          <6>1. j \in 1..Len(s) /\ j < first /\ ~(first <= j)
            BY <5>1
          <6>2. QED
            BY <6>1, <5>2, <4>3
        <5>3. QED
          BY <5>1, <5>2
      <4> HIDE DEF I
      <4>5. \A j \in first..Len(values) : s[j] = "pass"
        <5> DEFINE t == SubSeq(s, first, Len(s))
        <5>1. /\ t \in Seq(Verdicts) /\ Len(t) = Len(s) - first + 1
              /\ \A k \in 1..(Len(s) - first + 1) : t[k] = s[first + k - 1]
          BY <2>3, <4>4, FromFirst
        <5>2. All(t) = "pass"
          BY <4>1
        <5> HIDE DEF t
        <5>3. \A k \in 1..Len(t) : t[k] = "pass"
          BY <5>1, <5>2, AllPass
        <5>4. ASSUME NEW j \in first..Len(values) PROVE s[j] = "pass"
          <6>1. /\ j - first + 1 \in 1..(Len(s) - first + 1)
                /\ first + (j - first + 1) - 1 = j
            BY <4>4, <2>3, <1>1
          <6>2. QED
            BY <6>1, <5>1, <5>3
        <5>5. QED
          BY <5>4
      <4>6. \A j \in first..Len(values) : Within(j)
        BY <4>4, <4>5, <2>2, <2>3, <1>1
      <4>7. \A j \in 1..(first - 1) : Comparable(sub, values[j]) /\ ~Within(j)
        BY <4>4, <2>2, <2>3, <1>1
      <4>8. QED
        BY <4>4, <4>6, <4>7, <3>2, <2>3
    <3>5. QED
      BY <3>3, <3>4
  <2>6. QED
    BY <2>1, <2>4, <2>5
<1>4. QED
  BY <1>2, <1>3

-----------------------------------------------------------------------------
(* One measurement. *)

AnyValidator == ScalarValidators \cup PivotValidators
MeasOutcomes == {"UNSET", "PARTIALLY_SET", "PASS", "FAIL", "SKIPPED"}
Row == (Coords \cup {"scalar"}) \X Values \X BOOLEAN
Meas ==
    [value : Seq(Row), base : Seq(Row), rebuild : BOOLEAN, overridden : SUBSET Coords,
     outcome : MeasOutcomes, marginal : BOOLEAN, validators : Seq(AnyValidator),
     cb : BOOLEAN, shown : Seq(Row), shownOutcome : MeasOutcomes]

Passes(x) == Judgement(x) = "pass" /\ ~Raises(x)
OutcomeOf(x) == IF Passes(x) THEN "PASS" ELSE "FAIL"

\* The validators of a measurement are those that were declared for it, and maybe the
\* conditional ones.
Declares(n, validators) ==
    /\ ToSet(ValidatorsOf[n]) \subseteq ToSet(validators)
    /\ ToSet(validators) \subseteq ToSet(ValidatorsOf[n]) \cup ToSet(Conditional[n])

\* A measurement's outcome goes with its value, once it was validated.
Judged(n, x) ==
    /\ x.value = <<>> => x.outcome \in {"UNSET", "SKIPPED"} /\ x.shown = <<>>
    /\ x.value # <<>> => x.outcome \in {"PASS", "FAIL", "PARTIALLY_SET"}
    /\ x.outcome \in {"UNSET", "PASS", "FAIL"} => x.shownOutcome = x.outcome
    /\ x.outcome \in {"PASS", "FAIL"} => x.outcome = OutcomeOf(x)
    /\ x.outcome = "PASS" /\ Marginality(x) = "pass" => x.marginal
    /\ n \notin Dimensioned => x.outcome # "PARTIALLY_SET"
    /\ Declares(n, x.validators)

\* The cache of base types has rows of the value, and all of them as long as no
\* coordinate was overridden ...
Cached(n, x) ==
    /\ \A i \in DOMAIN x.base : \E j \in DOMAIN x.value : ShowsRow(n, x, x.base[i], x.value[j])
    /\ x.overridden = {} =>
         /\ x.rebuild = FALSE /\ Len(x.base) = Len(x.value)
         /\ \A i \in DOMAIN x.value : ShowsRow(n, x, x.base[i], x.value[i])

\* ... and is one row ahead of the value in the middle of __setitem__.
CachedAhead(n, x, c, v) ==
    /\ HasCoord(x, c) => c \in x.overridden
    /\ \A i \in DOMAIN x.base :
         \/ \E j \in DOMAIN x.value : ShowsRow(n, x, x.base[i], x.value[j])
         \/ x.base[i] = <<c, v, FALSE>> /\ ~HasCoord(x, c)
    /\ x.overridden = {} =>
         /\ x.rebuild = FALSE /\ Len(x.base) = Len(x.value) + 1
         /\ x.base[Len(x.value) + 1] = <<c, v, FALSE>>
         /\ \A i \in DOMAIN x.value : ShowsRow(n, x, x.base[i], x.value[i])

\* The dict of the measurement shows the cache, and a conversion changes nothing.
Converted(x) == x.value = <<>> \/ (x.rebuild = FALSE /\ x.shown = x.base)

\* What is said of an outcome depends on the value and the validators.
LEMMA SameVerdict ==
    ASSUME NEW x, NEW y, y.value = x.value, y.validators = x.validators
    PROVE  OutcomeOf(y) = OutcomeOf(x) /\ Marginality(y) = Marginality(x)
           /\ Passes(y) = Passes(x)
<1>1. ValuesOf(y) = ValuesOf(x)
  BY DEF ValuesOf
<1>2. Judgement(y) = Judgement(x) /\ Marginality(y) = Marginality(x)
  BY <1>1 DEF Judgement, Marginality
<1>3. Raises(y) <=> Raises(x)
  BY <1>2 DEF Raises
<1>4. QED
  BY <1>2, <1>3 DEF OutcomeOf, Passes

LEMMA ValidateType ==
    ASSUME NEW x \in Meas
    PROVE  /\ Validate(x) \in Meas /\ Validate(x).outcome = OutcomeOf(x)
           /\ Validate(x).outcome \in {"PASS", "FAIL"}
           /\ Validate(x).value = x.value /\ Validate(x).base = x.base
           /\ Validate(x).rebuild = x.rebuild /\ Validate(x).overridden = x.overridden
           /\ Validate(x).shown = x.shown /\ Validate(x).shownOutcome = OutcomeOf(x)
           /\ Validate(x).validators = x.validators
           /\ Passes(x) /\ Marginality(x) = "pass" => Validate(x).marginal
<1> DEFINE o == OutcomeOf(x)
           mg == x.marginal \/ (Passes(x) /\ Marginality(x) = "pass")
           y == [x EXCEPT !.outcome = o, !.shownOutcome = o, !.marginal = mg]
<1>1. Validate(x) = y
  BY DEF Validate, OutcomeOf, Passes
<1>2. o \in {"PASS", "FAIL"}
  BY DEF OutcomeOf
<1>3. mg \in BOOLEAN /\ (Passes(x) /\ Marginality(x) = "pass" => mg)
  OBVIOUS
<1> HIDE DEF o, mg
<1>4. /\ y \in Meas /\ y.value = x.value /\ y.base = x.base
      /\ y.overridden = x.overridden /\ y.shown = x.shown /\ y.outcome = o
      /\ y.shownOutcome = o /\ y.validators = x.validators
  BY <1>2, <1>3 DEF Meas, MeasOutcomes
<1>5. y.marginal = mg /\ y.rebuild = x.rebuild
  BY DEF Meas
<1> HIDE DEF y
<1>6. Passes(x) /\ Marginality(x) = "pass" => y.marginal
  BY <1>3, <1>5
<1>7. QED
  BY <1>1, <1>2, <1>4, <1>5, <1>6 DEF o

LEMMA ValidateJudges ==
    ASSUME NEW n, NEW x \in Meas, x.value # <<>>,
           Declares(n, x.validators)
    PROVE  Judged(n, Validate(x))
<1> DEFINE y == Validate(x)
<1>1. /\ y.value = x.value /\ y.outcome = OutcomeOf(x) /\ y.outcome \in {"PASS", "FAIL"}
      /\ y.shownOutcome = OutcomeOf(x) /\ y.validators = x.validators
      /\ Passes(x) /\ Marginality(x) = "pass" => y.marginal
  BY ValidateType
<1> HIDE DEF y
<1>2. OutcomeOf(y) = OutcomeOf(x) /\ Marginality(y) = Marginality(x)
  BY <1>1, SameVerdict
<1>3. y.outcome = "PASS" => Passes(x)
  BY <1>1 DEF OutcomeOf
<1>4. Judged(n, y)
  BY <1>1, <1>2, <1>3 DEF Judged
<1>5. QED
  BY <1>4 DEF y

LEMMA RowType ==
    ASSUME NEW n, NEW c \in Coords \cup {"scalar"}, NEW v \in Values
    PROVE  <<c, v, n \in Transformed>> \in Row /\ <<c, v, FALSE>> \in Row
<1>1. ASSUME NEW t \in BOOLEAN PROVE <<c, v, t>> \in Row
  BY DEF Row
<1>2. CASE n \in Transformed
  <2>1. (n \in Transformed) = TRUE
    BY <1>2
  <2>2. QED
    BY <1>1, <2>1
<1>3. CASE n \notin Transformed
  <2>1. (n \in Transformed) = FALSE
    BY <1>3
  <2>2. QED
    BY <1>1, <2>1
<1>4. QED
  BY <1>2, <1>3

\* MeasuredValue.set.
ScalarRow(n, v) == <<"scalar", v, n \in Transformed>>

LEMMA ScalarFacts ==
    ASSUME NEW n, NEW x \in Meas, NEW v \in Values
    PROVE  /\ SetScalar(n, x, v) \in Meas
           /\ SetScalar(n, x, v).value = <<ScalarRow(n, v)>>
           /\ SetScalar(n, x, v).base = <<ScalarRow(n, v)>>
           /\ SetScalar(n, x, v).rebuild = x.rebuild
           /\ SetScalar(n, x, v).overridden = x.overridden
           /\ SetScalar(n, x, v).validators = x.validators
<1> DEFINE row == ScalarRow(n, v)
           z == SetScalar(n, x, v)
<1>1. row \in Row
  BY RowType DEF ScalarRow
<1>2. z = [x EXCEPT !.value = <<row>>, !.base = <<row>>]
  BY DEF SetScalar, ScalarRow
<1> HIDE DEF row
<1>3. <<row>> \in Seq(Row)
  BY <1>1
<1>4. /\ z \in Meas /\ z.value = <<row>> /\ z.base = <<row>>
      /\ z.overridden = x.overridden /\ z.validators = x.validators
  BY <1>2, <1>3 DEF Meas
<1>5. z.rebuild = x.rebuild
  BY <1>2 DEF Meas
<1> HIDE DEF z
<1>6. QED
  BY <1>4, <1>5 DEF z, row

\* MeasuredValue.set and validate.
LEMMA SetScalarGood ==
    ASSUME NEW n \in Names, NEW x \in Meas, NEW v \in Values, Judged(n, x), Cached(n, x)
    PROVE  LET y == Validate(SetScalar(n, x, v))
           IN  Judged(n, y) /\ Cached(n, y)
<1> DEFINE row == ScalarRow(n, v)
           z == SetScalar(n, x, v)
           y == Validate(z)
<1>1. /\ z \in Meas /\ z.value = <<row>> /\ z.base = <<row>>
      /\ z.rebuild = x.rebuild /\ z.overridden = x.overridden
      /\ z.validators = x.validators
  BY ScalarFacts
<1> HIDE DEF row, z
<1>2. z.value # <<>> /\ Len(z.value) = 1 /\ DOMAIN z.value = {1} /\ z.value[1] = row
  BY <1>1
<1>3. Declares(n, z.validators)
  BY <1>1 DEF Judged
<1>4. /\ Judged(n, y) /\ y.value = z.value /\ y.base = z.base
      /\ y.rebuild = z.rebuild /\ y.overridden = z.overridden
  BY <1>1, <1>2, <1>3, ValidateJudges, ValidateType
<1> HIDE DEF y
<1>5. Cached(n, y)
  <2>1. ShowsRow(n, y, row, row)
    BY DEF ShowsRow
  <2>2. y.overridden = {} => y.rebuild = FALSE
    BY <1>1, <1>4 DEF Cached
  <2>3. QED
    BY <1>1, <1>2, <1>4, <2>1, <2>2 DEF Cached
<1>6. QED
  BY <1>4, <1>5 DEF y, z

\* Measurement.as_base_types changes the cache only.
LEMMA AsBaseTypesFacts ==
    ASSUME NEW x \in Meas
    PROVE  /\ AsBaseTypes(x) \in Meas
           /\ AsBaseTypes(x).value = x.value /\ AsBaseTypes(x).outcome = x.outcome
           /\ AsBaseTypes(x).shownOutcome = x.shownOutcome
           /\ AsBaseTypes(x).marginal = x.marginal
           /\ AsBaseTypes(x).validators = x.validators
           /\ AsBaseTypes(x).overridden = x.overridden
           /\ x.value = <<>> => AsBaseTypes(x) = x
           /\ x.value # <<>> => /\ AsBaseTypes(x).base = IF x.rebuild THEN x.value ELSE x.base
                                /\ AsBaseTypes(x).rebuild = FALSE
           /\ Converted(AsBaseTypes(x))
<1> DEFINE b == IF x.rebuild THEN x.value ELSE x.base
           y == [x EXCEPT !.base = b, !.rebuild = FALSE, !.shown = b]
<1>1. b \in Seq(Row)
  BY DEF Meas
<1>2. AsBaseTypes(x) = IF x.value = <<>> THEN x ELSE y
  BY DEF AsBaseTypes
<1>3. CASE x.value = <<>>
  BY <1>2, <1>3 DEF Converted
<1>4. CASE x.value # <<>>
  <2>1. AsBaseTypes(x) = y
    BY <1>2, <1>4
  <2> HIDE DEF b
  <2>2. /\ y \in Meas /\ y.value = x.value /\ y.outcome = x.outcome
        /\ y.shownOutcome = x.shownOutcome /\ y.validators = x.validators
        /\ y.overridden = x.overridden /\ y.base = b /\ y.shown = b
    BY <1>1 DEF Meas
  <2>3. y.marginal = x.marginal /\ y.rebuild = FALSE
    BY DEF Meas
  <2> HIDE DEF y
  <2>4. Converted(y)
    BY <2>2, <2>3 DEF Converted
  <2>5. QED
    BY <1>4, <2>1, <2>2, <2>3, <2>4 DEF b
<1>5. QED
  BY <1>3, <1>4

LEMMA ConvertedStays ==
    ASSUME NEW x \in Meas, Converted(x)
    PROVE  AsBaseTypes(x) = x
<1>1. CASE x.value = <<>>
  BY <1>1, AsBaseTypesFacts
<1>2. CASE x.value # <<>>
  <2>1. x.rebuild = FALSE /\ x.shown = x.base
    BY <1>2 DEF Converted
  <2>2. AsBaseTypes(x) = [x EXCEPT !.base = x.base, !.rebuild = FALSE, !.shown = x.base]
    BY <1>2, <2>1 DEF AsBaseTypes
  <2>3. QED
    BY <2>1, <2>2 DEF Meas
<1>3. QED
  BY <1>1, <1>2

LEMMA SameRows ==
    ASSUME NEW n, NEW x, NEW y, y.overridden = x.overridden, NEW r, NEW s
    PROVE  ShowsRow(n, y, r, s) <=> ShowsRow(n, x, r, s)
BY DEF ShowsRow

LEMMA AsBaseTypesGood ==
    ASSUME NEW n, NEW x \in Meas, Judged(n, x)
    PROVE  /\ Judged(n, AsBaseTypes(x))
           /\ Cached(n, x) => Cached(n, AsBaseTypes(x))
           /\ \A c, v : CachedAhead(n, x, c, v) => CachedAhead(n, AsBaseTypes(x), c, v)
<1> DEFINE y == AsBaseTypes(x)
<1>1. CASE x.value = <<>>
  BY <1>1, AsBaseTypesFacts
<1>2. CASE x.value # <<>>
  <2>1. /\ y \in Meas /\ y.value = x.value /\ y.outcome = x.outcome
        /\ y.shownOutcome = x.shownOutcome /\ y.marginal = x.marginal
        /\ y.validators = x.validators /\ y.overridden = x.overridden
        /\ y.base = (IF x.rebuild THEN x.value ELSE x.base) /\ y.rebuild = FALSE
    BY <1>2, AsBaseTypesFacts
  <2> HIDE DEF y
  <2>2. Judged(n, y)
    <3>1. OutcomeOf(y) = OutcomeOf(x) /\ Marginality(y) = Marginality(x)
      BY <2>1, SameVerdict
    <3>2. QED
      BY <3>1, <2>1, <1>2 DEF Judged
  <2>3. \A r, s : ShowsRow(n, y, r, s) <=> ShowsRow(n, x, r, s)
    BY <2>1, SameRows
  <2>4. \A r : ShowsRow(n, y, r, r)
    BY DEF ShowsRow
  <2>5. CASE x.rebuild
    <3>1. y.base = x.value
      BY <2>1, <2>5
    <3>2. Cached(n, x) => Cached(n, y)
      BY <3>1, <2>1, <2>4, <2>5 DEF Cached
    <3>3. ASSUME NEW c, NEW v, CachedAhead(n, x, c, v) PROVE CachedAhead(n, y, c, v)
      <4>1. x.overridden # {} /\ (HasCoord(y, c) => c \in y.overridden)
        BY <2>1, <2>5, <3>3 DEF CachedAhead, HasCoord
      <4>2. QED
        BY <4>1, <3>1, <2>1, <2>4 DEF CachedAhead
    <3>4. QED
      BY <2>2, <3>2, <3>3 DEF y
  <2>6. CASE ~x.rebuild
    <3>1. y.base = x.base /\ y.rebuild = x.rebuild
      BY <2>1, <2>6 DEF Meas
    <3>2. Cached(n, x) => Cached(n, y)
      BY <3>1, <2>1, <2>3 DEF Cached
    <3>3. ASSUME NEW c, NEW v, CachedAhead(n, x, c, v) PROVE CachedAhead(n, y, c, v)
      <4>1. HasCoord(y, c) <=> HasCoord(x, c)
        BY <2>1 DEF HasCoord
      <4>2. QED
        BY <4>1, <3>1, <3>3, <2>1, <2>3 DEF CachedAhead
    <3>4. QED
      BY <2>2, <3>2, <3>3 DEF y
  <2>7. QED
    BY <2>5, <2>6
<1>3. QED
  BY <1>1, <1>2

\* DimensionedMeasuredValue.__setitem__: first the cache ...
LEMMA CacheItemGood ==
    ASSUME NEW n, NEW x \in Meas, NEW c \in Coords, NEW v \in Values
    PROVE  /\ CacheItem(x, c, v) \in Meas /\ CacheItem(x, c, v).outcome = x.outcome
           /\ Judged(n, x) => Judged(n, CacheItem(x, c, v))
           /\ Cached(n, x) => CachedAhead(n, CacheItem(x, c, v), c, v)
<1> DEFINE y == CacheItem(x, c, v)
           row == <<c, v, FALSE>>
           b == Append(x.base, row)
           sh == IF x.shown = <<>> THEN x.shown ELSE b
<1>1. row \in Row
  BY RowType
<1> HIDE DEF row
<1>2. CASE HasCoord(x, c)
  <2>1. y = [x EXCEPT !.base = <<>>, !.rebuild = TRUE, !.overridden = x.overridden \cup {c}]
    BY <1>2 DEF CacheItem
  <2>2. <<>> \in Seq(Row) /\ x.overridden \cup {c} \in SUBSET Coords
    BY DEF Meas
  <2>3. /\ y \in Meas /\ y.value = x.value /\ y.outcome = x.outcome /\ y.shown = x.shown
        /\ y.shownOutcome = x.shownOutcome /\ y.validators = x.validators
        /\ y.base = <<>> /\ y.overridden = x.overridden \cup {c}
    BY <2>1, <2>2 DEF Meas
  <2>4. y.marginal = x.marginal
    BY <2>1 DEF Meas
  <2> HIDE DEF y
  <2>5. OutcomeOf(y) = OutcomeOf(x) /\ Marginality(y) = Marginality(x)
    BY <2>3, SameVerdict
  <2>6. Judged(n, x) => Judged(n, y)
    BY <2>3, <2>4, <2>5 DEF Judged
  <2>7. CachedAhead(n, y, c, v)
    <3>1. c \in y.overridden /\ DOMAIN y.base = {}
      BY <2>3
    <3>2. QED
      BY <3>1 DEF CachedAhead
  <2>8. QED
    BY <2>3, <2>6, <2>7 DEF y
<1>3. CASE ~HasCoord(x, c) /\ x.rebuild
  <2>1. y = x
    BY <1>3 DEF CacheItem
  <2>2. Cached(n, x) => CachedAhead(n, x, c, v)
    BY <1>3 DEF Cached, CachedAhead
  <2>3. QED
    BY <2>1, <2>2
<1>4. CASE ~HasCoord(x, c) /\ ~x.rebuild
  <2>1. y = [x EXCEPT !.base = b, !.shown = sh]
    BY <1>4 DEF CacheItem, row
  <2>2. /\ x.base \in Seq(Row) /\ x.value \in Seq(Row) /\ x.shown \in Seq(Row)
        /\ x.rebuild = FALSE
    BY <1>4 DEF Meas
  <2>3. /\ b \in Seq(Row) /\ Len(b) = Len(x.base) + 1 /\ Len(x.base) \in Nat
        /\ b[Len(x.base) + 1] = row /\ \A i \in 1..Len(x.base) : b[i] = x.base[i]
        /\ DOMAIN b = 1..(Len(x.base) + 1) /\ DOMAIN x.base = 1..Len(x.base)
        /\ DOMAIN x.value = 1..Len(x.value) /\ Len(x.value) \in Nat
    BY <1>1, <2>2
  <2>4. sh \in Seq(Row) /\ (x.shown = <<>> => sh = <<>>)
    BY <2>2, <2>3
  <2> HIDE DEF b, sh
  <2>5. /\ y \in Meas /\ y.value = x.value /\ y.outcome = x.outcome /\ y.shown = sh
        /\ y.shownOutcome = x.shownOutcome /\ y.validators = x.validators
        /\ y.base = b /\ y.overridden = x.overridden
    BY <2>1, <2>3, <2>4 DEF Meas
  <2>6. y.marginal = x.marginal
    BY <2>1 DEF Meas
  <2>7. y.rebuild = FALSE
    BY <2>1, <2>2 DEF Meas
  <2> HIDE DEF y
  <2>8. OutcomeOf(y) = OutcomeOf(x) /\ Marginality(y) = Marginality(x)
    BY <2>5, SameVerdict
  <2>9. Judged(n, x) => Judged(n, y)
    BY <2>4, <2>5, <2>6, <2>8 DEF Judged
  <2>10. ASSUME Cached(n, x) PROVE CachedAhead(n, y, c, v)
    <3>1. \A r, s : ShowsRow(n, y, r, s) <=> ShowsRow(n, x, r, s)
      BY <2>5, SameRows
    <3>2. ~HasCoord(y, c)
      BY <1>4, <2>5 DEF HasCoord
    <3>3. ASSUME NEW i \in DOMAIN y.base
          PROVE  \/ \E j \in DOMAIN y.value : ShowsRow(n, y, y.base[i], y.value[j])
                 \/ y.base[i] = row
      <4>1. CASE i \in DOMAIN x.base
        BY <4>1, <2>3, <2>5, <2>10, <3>1 DEF Cached
      <4>2. CASE i \notin DOMAIN x.base
        <5>1. i = Len(x.base) + 1
          BY <4>2, <3>3, <2>3, <2>5
        <5>2. QED
          BY <5>1, <2>3, <2>5
      <4>3. QED
        BY <4>1, <4>2
    <3>4. ASSUME y.overridden = {}
          PROVE  /\ Len(y.base) = Len(y.value) + 1 /\ y.base[Len(y.value) + 1] = row
                 /\ \A i \in DOMAIN y.value : ShowsRow(n, y, y.base[i], y.value[i])
      <4>1. Len(x.base) = Len(x.value)
            /\ \A i \in DOMAIN x.value : ShowsRow(n, x, x.base[i], x.value[i])
        BY <3>4, <2>5, <2>10 DEF Cached
      <4>2. QED
        BY <4>1, <2>3, <2>5, <3>1
    <3>5. QED
      BY <3>2, <3>3, <3>4, <2>7 DEF CachedAhead, row
  <2>11. QED
    BY <2>5, <2>9, <2>10 DEF y
<1>5. QED
  BY <1>2, <1>3, <1>4

\* ... and then the value.
LEMMA StoreItemGood ==
    ASSUME NEW n \in Dimensioned, NEW x \in Meas, NEW c \in Coords, NEW v \in Values
    PROVE  LET y == [StoreItem(n, x, c, v) EXCEPT !.outcome = "PARTIALLY_SET"]
           IN  /\ y \in Meas
               /\ Judged(n, x) => Judged(n, y)
               /\ CachedAhead(n, x, c, v) => Cached(n, y)
<1> DEFINE item == <<c, v, n \in Transformed>>
           val == IF HasCoord(x, c)
                    THEN [i \in DOMAIN x.value |->
                            IF x.value[i][1] = c THEN item ELSE x.value[i]]
                    ELSE Append(x.value, item)
           y == [StoreItem(n, x, c, v) EXCEPT !.outcome = "PARTIALLY_SET"]
<1>1. item \in Row /\ item[1] = c
  BY RowType
<1>2. /\ <<c, v, FALSE>>[1] = c
      /\ item = <<c, v, FALSE>> \/ n \in Dimensioned \cap Transformed
  <2>1. CASE n \in Transformed
    BY <2>1
  <2>2. CASE n \notin Transformed
    <3>1. (n \in Transformed) = FALSE
      BY <2>2
    <3>2. QED
      BY <3>1
  <2>3. QED
    BY <2>1, <2>2
<1>3. StoreItem(n, x, c, v) = [x EXCEPT !.value = val]
  BY DEF StoreItem
<1> HIDE DEF item
<1>4. /\ x.value \in Seq(Row) /\ DOMAIN x.value = 1..Len(x.value) /\ Len(x.value) \in Nat
      /\ x.base \in Seq(Row) /\ DOMAIN x.base = 1..Len(x.base) /\ Len(x.base) \in Nat
  BY DEF Meas
<1>5. /\ val \in Seq(Row) /\ val # <<>>
      /\ HasCoord(x, c) => /\ DOMAIN val = DOMAIN x.value
                           /\ \A i \in DOMAIN x.value :
                                val[i] = IF x.value[i][1] = c THEN item ELSE x.value[i]
      /\ ~HasCoord(x, c) => /\ Len(val) = Len(x.value) + 1
                            /\ DOMAIN val = 1..(Len(x.value) + 1)
                            /\ val[Len(x.value) + 1] = item
                            /\ \A i \in DOMAIN x.value : val[i] = x.value[i]
  <2>1. CASE HasCoord(x, c)
    <3> DEFINE f == [i \in 1..Len(x.value) |->
                       IF x.value[i][1] = c THEN item ELSE x.value[i]]
    <3>1. val = f
      BY <2>1, <1>4
    <3>2. \A i \in 1..Len(x.value) : f[i] \in Row
      BY <1>1, <1>4
    <3>3. f \in [1..Len(x.value) -> Row]
      BY <3>2
    <3>4. f \in Seq(Row) /\ DOMAIN f = DOMAIN x.value
      BY <3>3, <1>4
    <3>5. DOMAIN x.value # {}
      BY <2>1 DEF HasCoord
    <3>6. f # <<>>
      BY <3>4, <3>5
    <3>7. QED
      BY <2>1, <3>1, <3>4, <3>6, <1>4
  <2>2. CASE ~HasCoord(x, c)
    <3>1. val = Append(x.value, item)
      BY <2>2
    <3>2. QED
      BY <2>2, <3>1, <1>1, <1>4
  <2>3. QED
    BY <2>1, <2>2
<1> HIDE DEF val
<1>6. /\ y \in Meas /\ y.value = val /\ y.base = x.base /\ y.overridden = x.overridden
      /\ y.outcome = "PARTIALLY_SET" /\ y.validators = x.validators
  BY <1>3, <1>5 DEF Meas, MeasOutcomes
<1>7. y.rebuild = x.rebuild
  BY <1>3 DEF Meas
<1> HIDE DEF y
<1>8. Judged(n, x) => Judged(n, y)
  BY <1>5, <1>6 DEF Judged
<1>9. \A r, s : ShowsRow(n, y, r, s) <=> ShowsRow(n, x, r, s)
  BY <1>6, SameRows
<1>10. ASSUME CachedAhead(n, x, c, v) PROVE Cached(n, y)
  <2>1. CASE HasCoord(x, c)
    <3>1. c \in x.overridden
      BY <1>10, <2>1 DEF CachedAhead
    <3>2. ASSUME NEW i \in DOMAIN x.base
          PROVE  \E j \in DOMAIN val : ShowsRow(n, y, x.base[i], val[j])
      <4>1. PICK j \in DOMAIN x.value : ShowsRow(n, x, x.base[i], x.value[j])
        BY <1>10, <2>1 DEF CachedAhead
      <4>2. CASE x.value[j][1] = c
        <5>1. val[j] = item /\ x.base[i][1] = c
          BY <1>5, <2>1, <4>1, <4>2 DEF ShowsRow
        <5>2. ShowsRow(n, y, x.base[i], item)
          BY <5>1, <1>1, <1>6, <3>1 DEF ShowsRow
        <5>3. QED
          BY <5>1, <5>2, <1>5, <2>1
      <4>3. CASE x.value[j][1] # c
        BY <1>5, <1>9, <2>1, <4>1, <4>3
      <4>4. QED
        BY <4>2, <4>3
    <3>3. QED
      BY <3>1, <3>2, <1>6 DEF Cached
  <2>2. CASE ~HasCoord(x, c)
    <3>1. ShowsRow(n, y, <<c, v, FALSE>>, item)
      BY <1>1, <1>2 DEF ShowsRow
    <3>2. ASSUME NEW i \in DOMAIN x.base
          PROVE  \E j \in DOMAIN val : ShowsRow(n, y, x.base[i], val[j])
      <4>1. CASE \E j \in DOMAIN x.value : ShowsRow(n, x, x.base[i], x.value[j])
        BY <4>1, <1>4, <1>5, <1>9, <2>2
      <4>2. CASE x.base[i] = <<c, v, FALSE>>
        <5>1. Len(x.value) + 1 \in DOMAIN val
          BY <1>4, <1>5, <2>2
        <5>2. QED
          BY <4>2, <5>1, <3>1, <1>5, <2>2
      <4>3. QED
        BY <1>10, <4>1, <4>2 DEF CachedAhead
    <3>3. ASSUME x.overridden = {}
          PROVE  /\ x.rebuild = FALSE /\ Len(x.base) = Len(val)
                 /\ \A i \in DOMAIN val : ShowsRow(n, y, x.base[i], val[i])
      <4>1. /\ x.rebuild = FALSE /\ Len(x.base) = Len(x.value) + 1
            /\ x.base[Len(x.value) + 1] = <<c, v, FALSE>>
            /\ \A i \in DOMAIN x.value : ShowsRow(n, x, x.base[i], x.value[i])
        BY <1>10, <3>3 DEF CachedAhead
      <4>2. ASSUME NEW i \in DOMAIN val PROVE ShowsRow(n, y, x.base[i], val[i])
        <5>1. i \in DOMAIN x.value \/ i = Len(x.value) + 1
          BY <1>4, <1>5, <2>2
        <5>2. QED
          BY <5>1, <4>1, <1>5, <1>9, <2>2, <3>1
      <4>3. QED
        BY <4>1, <4>2, <1>5, <2>2
    <3>4. QED
      BY <3>2, <3>3, <1>6, <1>7 DEF Cached
  <2>3. QED
    BY <2>1, <2>2
<1>11. QED
  BY <1>6, <1>8, <1>10 DEF y

\* A conversion, a skip and the end of the phase.
LEMMA SkipGood ==
    ASSUME NEW n, NEW x \in Meas, x.value = <<>>, Judged(n, x)
    PROVE  LET y == [x EXCEPT !.outcome = "SKIPPED"]
           IN  Judged(n, y) /\ (Cached(n, x) => Cached(n, y))
<1> DEFINE y == [x EXCEPT !.outcome = "SKIPPED"]
<1>1. /\ y \in Meas /\ y.value = x.value /\ y.base = x.base /\ y.overridden = x.overridden
      /\ y.outcome = "SKIPPED" /\ y.validators = x.validators /\ y.shown = x.shown
  BY DEF Meas, MeasOutcomes
<1>2. y.rebuild = x.rebuild
  BY DEF Meas
<1> HIDE DEF y
<1>3. \A r, s : ShowsRow(n, y, r, s) <=> ShowsRow(n, x, r, s)
  BY <1>1, SameRows
<1>4. Judged(n, y)
  BY <1>1 DEF Judged
<1>5. Cached(n, x) => Cached(n, y)
  BY <1>1, <1>2, <1>3 DEF Cached
<1>6. QED
  BY <1>4, <1>5 DEF y

LEMMA FinalGood ==
    ASSUME NEW n, NEW x \in Meas, NEW sk \in BOOLEAN
    PROVE  LET y == FinalMeasurement(x, sk)
           IN  /\ y \in Meas /\ y.outcome # "PARTIALLY_SET" /\ y.value = x.value
               /\ Judged(n, x) => Judged(n, y)
               /\ Cached(n, x) => Cached(n, y)
<1> DEFINE o == IF sk /\ x.outcome = "UNSET" THEN "SKIPPED" ELSE x.outcome
           z == [x EXCEPT !.cb = FALSE, !.outcome = o]
           y == FinalMeasurement(x, sk)
<1>1. o \in MeasOutcomes /\ (o = x.outcome \/ (x.outcome = "UNSET" /\ o = "SKIPPED"))
  BY DEF Meas, MeasOutcomes
<1>2. y = IF z.outcome = "PARTIALLY_SET" THEN Validate(z) ELSE z
  BY DEF FinalMeasurement
<1> HIDE DEF o
<1>3. /\ z \in Meas /\ z.value = x.value /\ z.base = x.base /\ z.overridden = x.overridden
      /\ z.outcome = o /\ z.validators = x.validators /\ z.shown = x.shown
      /\ z.shownOutcome = x.shownOutcome
  BY <1>1 DEF Meas
<1>4. z.rebuild = x.rebuild /\ z.marginal = x.marginal
  BY DEF Meas
<1> HIDE DEF z
<1>5. \A r, s : ShowsRow(n, z, r, s) <=> ShowsRow(n, x, r, s)
  BY <1>3, SameRows
<1>6. Cached(n, x) => Cached(n, z)
  BY <1>3, <1>4, <1>5 DEF Cached
<1>7. OutcomeOf(z) = OutcomeOf(x) /\ Marginality(z) = Marginality(x)
  BY <1>3, SameVerdict
<1>8. Judged(n, x) => Judged(n, z)
  BY <1>1, <1>3, <1>4, <1>7 DEF Judged
<1>9. CASE o = "PARTIALLY_SET"
  <2>1. y = Validate(z)
    BY <1>2, <1>3, <1>9
  <2> HIDE DEF y
  <2>2. /\ y \in Meas /\ y.value = z.value /\ y.base = z.base /\ y.rebuild = z.rebuild
        /\ y.overridden = z.overridden /\ y.outcome \in {"PASS", "FAIL"}
    BY <2>1, <1>3, ValidateType
  <2>3. Judged(n, x) => Judged(n, y)
    <3>1. SUFFICES ASSUME Judged(n, z) PROVE Judged(n, y)
      BY <1>8
    <3>2. z.value # <<>> /\ Declares(n, z.validators)
      BY <3>1, <1>3, <1>9 DEF Judged
    <3>3. QED
      BY <3>2, <2>1, <1>3, ValidateJudges
  <2>4. \A r, s : ShowsRow(n, y, r, s) <=> ShowsRow(n, z, r, s)
    BY <2>2, SameRows
  <2>5. Cached(n, z) => Cached(n, y)
    BY <2>2, <2>4 DEF Cached
  <2>6. QED
    BY <2>2, <2>3, <2>5, <1>3, <1>6 DEF y
<1>10. CASE o # "PARTIALLY_SET"
  BY <1>2, <1>3, <1>6, <1>8, <1>10
<1>11. QED
  BY <1>9, <1>10

-----------------------------------------------------------------------------
(* One phase. *)

Diagnosis == {"res", "fail", "internal", "invalid"}
MeasOf(n) ==
    {x \in Meas : n \notin Dimensioned => x.outcome # "PARTIALLY_SET" /\ Len(x.value) <= 1}
MeasMap(p) == {f \in [Declared[p] -> Meas] : \A n \in Declared[p] : f[n] \in MeasOf(n)}
PState(p) ==
    [m : MeasMap(p), result : Results \cup {"none", "TIMEOUT", "EXC", "STOP"},
     outcome : {"none", "PASS", "FAIL", "SKIP", "ERROR"}, marginal : BOOLEAN,
     failures : SUBSET Diagnosis, attachments : SUBSET {"log"}, sets : Nat,
     zombie : BOOLEAN]
Body ==
    [pc : {"off", "run", "store", "load", "add", "end"}, name : Names \cup {"none"},
     ref : Nat, coord : {"none"} \cup (Coords \X Values)]

\* The body in the middle of __setitem__.
BodyGood(p, b) ==
    b.pc = "store" => b.name \in Declared[p] \cap Dimensioned /\ b.coord \in Coords \X Values

MeasGood(n, x, b) ==
    /\ Judged(n, x)
    /\ IF b.pc = "store" /\ b.name = n THEN CachedAhead(n, x, b.coord[1], b.coord[2])
       ELSE Cached(n, x)

\* After _set_prediagnosis_phase_outcome the outcome goes with the result and the
\* measurements ...
Decided(s) ==
    /\ s.result \in EndsTest => s.result \in Terminal \/ s.outcome = "ERROR"
    /\ s.result = "CONTINUE" => s.outcome \in {"PASS", "FAIL"}
    /\ s.result = "CONTINUE" /\ s.outcome = "PASS" => MeasurementsPass(s.m)
    /\ s.outcome = "PASS" => \A n \in DOMAIN s.m : s.m[n].marginal => s.marginal

\* ... and in the record with the diagnoses, too.
Recorded(s) ==
    /\ s.result \in EndsTest => s.outcome = "ERROR"
    /\ s.outcome = "PASS" => s.failures = {}
    /\ \A n \in DOMAIN s.m : Converted(s.m[n])

\* What holds of a phase that no body was left behind in, at each stage of
\* running_phase_context and after.
PhaseGood(p, s, b, stage) ==
    s.zombie = FALSE =>
      /\ stage # "running" => b.pc = "end"
      /\ \A n \in Declared[p] : MeasGood(n, s.m[n], b)
      /\ stage \notin {"running", "measurements"} =>
           \A n \in Declared[p] : s.m[n].outcome # "PARTIALLY_SET"
      /\ stage \in {"diagnose", "record", "recorded"} => Decided(s)
      /\ stage = "recorded" => Recorded(s)

LEMMA PhaseNames ==
    ASSUME NEW p \in Phases
    PROVE  Declared[p] \subseteq Names
BY DEF Names

\* A phase with other measurements.
PutMap(s, f, k) == [s EXCEPT !.m = f, !.sets = k]

LEMMA PutFacts ==
    ASSUME NEW p, NEW s \in PState(p), NEW f \in MeasMap(p), NEW k \in Nat
    PROVE  /\ PutMap(s, f, k) \in PState(p) /\ PutMap(s, f, k).m = f
           /\ PutMap(s, f, k).result = s.result /\ PutMap(s, f, k).outcome = s.outcome
           /\ PutMap(s, f, k).failures = s.failures
           /\ PutMap(s, f, k).marginal = s.marginal /\ PutMap(s, f, k).zombie = s.zombie
<1> DEFINE e == [s EXCEPT !.m = f, !.sets = k]
<1>1. /\ e \in PState(p) /\ e.m = f /\ e.result = s.result /\ e.outcome = s.outcome
      /\ e.failures = s.failures
  BY DEF PState
<1>2. e.marginal = s.marginal /\ e.zombie = s.zombie
  BY DEF PState
<1>3. PutMap(s, f, k) = e
  BY DEF PutMap
<1>4. QED
  BY <1>1, <1>2, <1>3

LEMMA PutOne ==
    ASSUME NEW p, NEW f \in MeasMap(p), NEW n \in Declared[p], NEW x \in MeasOf(n)
    PROVE  /\ [f EXCEPT ![n] = x] \in MeasMap(p) /\ [f EXCEPT ![n] = x][n] = x
           /\ \A k \in Declared[p] : k # n => [f EXCEPT ![n] = x][k] = f[k]
BY DEF MeasMap, MeasOf

LEMMA MapFacts ==
    ASSUME NEW p, NEW s \in PState(p)
    PROVE  /\ s.m \in MeasMap(p) /\ DOMAIN s.m = Declared[p]
           /\ \A n \in Declared[p] : s.m[n] \in Meas /\ s.m[n] \in MeasOf(n)
           /\ s.sets \in Nat
BY DEF PState, MeasMap

\* MeasGood does not depend on a body that is not in the middle of __setitem__.
LEMMA SameBody ==
    ASSUME NEW n, NEW x, NEW b, NEW d, b.pc # "store" \/ b.name # n,
           d.pc # "store" \/ d.name # n, MeasGood(n, x, b)
    PROVE  MeasGood(n, x, d)
BY DEF MeasGood

\* Collection.__setitem__ of a scalar.
LEMMA SetGood ==
    ASSUME NEW p \in Phases, NEW s \in PState(p), NEW n \in Declared[p] \ Dimensioned,
           NEW v \in Values
    PROVE  LET x == Validate(SetScalar(n, s.m[n], v))
           IN  /\ x \in MeasOf(n)
               /\ \A b, d : /\ MeasGood(n, s.m[n], b) /\ b.pc # "store" /\ d.pc # "store"
                            => MeasGood(n, x, d)
<1> DEFINE z == SetScalar(n, s.m[n], v)
           x == Validate(z)
<1>1. s.m[n] \in Meas /\ n \in Names
  BY PhaseNames, MapFacts
<1>2. z \in Meas /\ z.value = <<ScalarRow(n, v)>>
  BY <1>1, ScalarFacts
<1> HIDE DEF z
<1>3. x \in Meas /\ x.value = z.value /\ x.outcome \in {"PASS", "FAIL"}
  BY <1>2, ValidateType
<1>4. x \in MeasOf(n)
  <2>1. Len(x.value) <= 1 /\ x.outcome # "PARTIALLY_SET"
    BY <1>2, <1>3
  <2> HIDE DEF x
  <2>2. QED
    BY <1>3, <2>1 DEF MeasOf
<1>5. ASSUME NEW b, NEW d, MeasGood(n, s.m[n], b), b.pc # "store", d.pc # "store"
      PROVE  MeasGood(n, x, d)
  <2>1. Judged(n, s.m[n]) /\ Cached(n, s.m[n])
    BY <1>5 DEF MeasGood
  <2>2. Judged(n, x) /\ Cached(n, x)
    BY <2>1, <1>1, SetScalarGood DEF z
  <2>3. QED
    BY <2>2, <1>5 DEF MeasGood
<1>6. QED
  BY <1>4, <1>5 DEF z

\* Measurement.as_base_types, by the reader.
LEMMA ReadGood ==
    ASSUME NEW p, NEW s \in PState(p), NEW n \in Declared[p]
    PROVE  LET f == [s.m EXCEPT ![n] = AsBaseTypes(s.m[n])]
               e == PutMap(s, f, s.sets)
           IN  /\ f \in MeasMap(p)
               /\ \A b, stage : PhaseGood(p, s, b, stage) => PhaseGood(p, e, b, stage)
               /\ s.zombie = FALSE /\ Recorded(s) => e = s
<1> DEFINE x == s.m[n]
           y == AsBaseTypes(x)
           f == [s.m EXCEPT ![n] = y]
           e == PutMap(s, f, s.sets)
<1>1. x \in Meas /\ x \in MeasOf(n) /\ DOMAIN s.m = Declared[p] /\ s.m \in MeasMap(p)
      /\ s.sets \in Nat /\ \A k \in Declared[p] : s.m[k] \in Meas
  BY MapFacts
<1>2. /\ y \in Meas /\ y.value = x.value /\ y.outcome = x.outcome /\ Converted(y)
      /\ y.marginal = x.marginal
  BY <1>1, AsBaseTypesFacts
<1>3. Converted(x) => y = x
  BY <1>1, ConvertedStays
<1>4. \A b : MeasGood(n, x, b) => MeasGood(n, y, b)
  BY <1>1, AsBaseTypesGood DEF MeasGood
<1> HIDE DEF y
<1>5. y \in MeasOf(n)
  BY <1>1, <1>2 DEF MeasOf
<1>6. /\ f \in MeasMap(p) /\ f[n] = y /\ \A k \in Declared[p] : k # n => f[k] = s.m[k]
  BY <1>1, <1>5, PutOne
<1>7. /\ e \in PState(p) /\ e.m = f /\ e.result = s.result /\ e.outcome = s.outcome
      /\ e.failures = s.failures /\ e.marginal = s.marginal /\ e.zombie = s.zombie
  <2> HIDE DEF f
  <2>1. QED
    BY <1>1, <1>6, PutFacts
<1>8. DOMAIN f = Declared[p] /\ \A k \in Declared[p] : f[k].outcome = s.m[k].outcome
      /\ f[k].marginal = s.m[k].marginal
  BY <1>1, <1>2, <1>6 DEF MeasMap
<1>9. ASSUME s.zombie = FALSE, Recorded(s) PROVE e = s
  <2>1. Converted(x)
    BY <1>1, <1>9 DEF Recorded
  <2>2. f = s.m
    BY <2>1, <1>3, <1>1 DEF MeasMap
  <2>3. QED
    BY <2>2 DEF PState, PutMap
<1>10. ASSUME NEW b, NEW stage, PhaseGood(p, s, b, stage) PROVE PhaseGood(p, e, b, stage)
  <2> HIDE DEF f, e
  <2>1. SUFFICES ASSUME s.zombie = FALSE PROVE PhaseGood(p, e, b, stage)
    BY <1>7 DEF PhaseGood
  <2>2. \A k \in Declared[p] : MeasGood(k, e.m[k], b)
    BY <1>6, <1>7, <1>4, <1>10, <2>1 DEF PhaseGood
  <2>3. Decided(s) => Decided(e)
    <3>1. MeasurementsPass(s.m) => MeasurementsPass(f)
      BY <1>1, <1>8 DEF MeasurementsPass
    <3>2. QED
      BY <3>1, <1>1, <1>7, <1>8 DEF Decided
  <2>4. Recorded(s) => Recorded(e)
    BY <1>1, <1>2, <1>6, <1>7, <1>8 DEF Recorded
  <2>5. QED
    BY <1>7, <1>8, <1>10, <2>1, <2>2, <2>3, <2>4 DEF PhaseGood
<1>11. QED
  BY <1>6, <1>9, <1>10 DEF y

\* The steps of running_phase_context, on the state of the phase.
Finalized(s, r) ==
    [s EXCEPT !.m = [n \in DOMAIN s.m |-> FinalMeasurement(s.m[n], s.result = "SKIP")],
              !.result = r]
Predecided(s, r, mg) ==
    [s EXCEPT !.outcome = PrediagnosisOutcome(s), !.result = r, !.marginal = mg]
Diagnosed(s, fails, r) == [s EXCEPT !.failures = fails, !.result = r]
Closed(s) ==
    [s EXCEPT !.outcome = PostdiagnosisOutcome(s),
              !.m = [n \in DOMAIN s.m |-> AsBaseTypes(s.m[n])]]
PhaseResults == Results \cup {"none", "TIMEOUT", "EXC", "STOP"}

\* _finalize_measurements.
LEMMA FinalizedGood ==
    ASSUME NEW p, NEW s \in PState(p), NEW r \in PhaseResults, NEW b
    PROVE  /\ Finalized(s, r) \in PState(p) /\ Finalized(s, r).failures = s.failures
           /\ PhaseGood(p, s, b, "measurements") => PhaseGood(p, Finalized(s, r), b, "outcome")
<1> DEFINE sk == s.result = "SKIP"
           f == [n \in DOMAIN s.m |-> FinalMeasurement(s.m[n], sk)]
           e == Finalized(s, r)
<1>1. sk \in BOOLEAN
  OBVIOUS
<1>2. e = [s EXCEPT !.m = f, !.result = r]
  BY DEF Finalized
<1> HIDE DEF sk
<1>3. DOMAIN s.m = Declared[p] /\ \A n \in Declared[p] : s.m[n] \in Meas /\ s.m[n] \in MeasOf(n)
  BY MapFacts
<1>4. ASSUME NEW n \in Declared[p]
      PROVE  /\ f[n] \in MeasOf(n) /\ f[n] \in Meas /\ f[n].outcome # "PARTIALLY_SET"
             /\ Judged(n, s.m[n]) => Judged(n, f[n])
             /\ Cached(n, s.m[n]) => Cached(n, f[n])
  <2> DEFINE y == FinalMeasurement(s.m[n], sk)
  <2>1. f[n] = y
    BY <1>3
  <2>2. /\ y \in Meas /\ y.outcome # "PARTIALLY_SET" /\ y.value = s.m[n].value
        /\ Judged(n, s.m[n]) => Judged(n, y)
        /\ Cached(n, s.m[n]) => Cached(n, y)
    BY <1>1, <1>3, FinalGood
  <2> HIDE DEF y
  <2>3. y \in MeasOf(n)
    BY <1>3, <2>2 DEF MeasOf
  <2>4. QED
    BY <2>1, <2>2, <2>3
<1>5. f \in MeasMap(p) /\ DOMAIN f = Declared[p]
  BY <1>3, <1>4 DEF MeasMap
<1> HIDE DEF f
<1>6. e \in PState(p) /\ e.m = f /\ e.failures = s.failures
  BY <1>2, <1>5 DEF PState, PhaseResults
<1>7. e.zombie = s.zombie
  BY <1>2 DEF PState
<1> HIDE DEF e
<1>8. ASSUME PhaseGood(p, s, b, "measurements") PROVE PhaseGood(p, e, b, "outcome")
  <2>1. SUFFICES ASSUME s.zombie = FALSE PROVE PhaseGood(p, e, b, "outcome")
    BY <1>7 DEF PhaseGood
  <2>2. b.pc = "end" /\ \A n \in Declared[p] : MeasGood(n, s.m[n], b)
    BY <1>8, <2>1 DEF PhaseGood
  <2>3. \A n \in Declared[p] : MeasGood(n, e.m[n], b)
    BY <1>4, <1>6, <2>2 DEF MeasGood
  <2>4. QED
    BY <1>4, <1>6, <2>2, <2>3 DEF PhaseGood
<1>9. QED
  BY <1>6, <1>8 DEF e

\* _set_prediagnosis_phase_outcome; a failure may become a stop.
LEMMA PredecidedGood ==
    ASSUME NEW p, NEW s \in PState(p), NEW mg \in BOOLEAN, NEW b,
           NEW r \in PhaseResults, r = s.result \/ r = "STOP",
           PrediagnosisOutcome(s) = "PASS" => \A n \in DOMAIN s.m : s.m[n].marginal => mg
    PROVE  /\ Predecided(s, r, mg) \in PState(p) /\ Predecided(s, r, mg).failures = s.failures
           /\ PhaseGood(p, s, b, "outcome") => PhaseGood(p, Predecided(s, r, mg), b, "diagnose")
<1> DEFINE o == PrediagnosisOutcome(s)
           e == Predecided(s, r, mg)
<1>1. /\ o \in {"PASS", "FAIL", "SKIP", "ERROR"}
      /\ s.result \in EndsTest => o = "ERROR"
      /\ s.result = "CONTINUE" => o = IF MeasurementsPass(s.m) THEN "PASS" ELSE "FAIL"
  BY DEF PrediagnosisOutcome, EndsTest, Terminal
<1> HIDE DEF o
<1>2. e = [s EXCEPT !.outcome = o, !.result = r, !.marginal = mg]
  BY DEF Predecided, o
<1>3. /\ e \in PState(p) /\ e.m = s.m /\ e.failures = s.failures /\ e.outcome = o
      /\ e.result = r
  BY <1>1, <1>2 DEF PState, PhaseResults
<1>4. e.zombie = s.zombie /\ e.marginal = mg
  BY <1>2 DEF PState
<1> HIDE DEF e
<1>5. Decided(e)
  <2>1. r \in EndsTest => r \in Terminal \/ o = "ERROR"
    BY <1>1 DEF EndsTest, Terminal
  <2>2. r = "CONTINUE" => o \in {"PASS", "FAIL"} /\ (o = "PASS" => MeasurementsPass(s.m))
    BY <1>1
  <2>3. o = "PASS" => \A n \in DOMAIN e.m : e.m[n].marginal => e.marginal
    BY <1>3, <1>4 DEF o
  <2>4. QED
    BY <1>3, <2>1, <2>2, <2>3 DEF Decided
<1>6. PhaseGood(p, s, b, "outcome") => PhaseGood(p, e, b, "diagnose")
  BY <1>3, <1>4, <1>5 DEF PhaseGood
<1>7. QED
  BY <1>3, <1>6 DEF e

\* _execute_phase_diagnosers: an error makes the result terminal.
LEMMA DiagnosedGood ==
    ASSUME NEW p, NEW s \in PState(p), NEW fails \in SUBSET Diagnosis, NEW b,
           NEW r \in PhaseResults, r = s.result \/ r = "EXC"
    PROVE  /\ Diagnosed(s, fails, r) \in PState(p) /\ Diagnosed(s, fails, r).failures = fails
           /\ PhaseGood(p, s, b, "diagnose") => PhaseGood(p, Diagnosed(s, fails, r), b, "record")
<1> DEFINE e == Diagnosed(s, fails, r)
<1>1. /\ e \in PState(p) /\ e.m = s.m /\ e.failures = fails /\ e.outcome = s.outcome
      /\ e.result = r
  BY DEF PState, PhaseResults, Diagnosed
<1>2. e.zombie = s.zombie /\ e.marginal = s.marginal
  BY DEF PState, Diagnosed
<1> HIDE DEF e
<1>3. Decided(s) => Decided(e)
  BY <1>1, <1>2 DEF Decided, Terminal
<1>4. PhaseGood(p, s, b, "diagnose") => PhaseGood(p, e, b, "record")
  BY <1>1, <1>2, <1>3 DEF PhaseGood
<1>5. QED
  BY <1>1, <1>4 DEF e

\* _set_postdiagnosis_phase_outcome and the conversion of every measurement.
LEMMA ClosedGood ==
    ASSUME NEW p, NEW s \in PState(p), NEW b
    PROVE  /\ Closed(s) \in PState(p) /\ Closed(s).failures = s.failures
           /\ PhaseGood(p, s, b, "record") => PhaseGood(p, Closed(s), b, "recorded")
<1> DEFINE o == PostdiagnosisOutcome(s)
           f == [n \in DOMAIN s.m |-> AsBaseTypes(s.m[n])]
           e == Closed(s)
<1>1. /\ o = "ERROR" \/ o = s.outcome \/ (s.outcome = "PASS" /\ o = "FAIL")
      /\ s.result \in Terminal => o = "ERROR"
      /\ s.result \notin Terminal /\ s.outcome = "ERROR" => o = "ERROR"
      /\ s.result \notin Terminal /\ s.outcome \in {"PASS", "FAIL"} => o \in {"PASS", "FAIL"}
      /\ o = "PASS" => s.failures = {} /\ s.outcome = "PASS"
  BY DEF PostdiagnosisOutcome
<1>2. o \in {"none", "PASS", "FAIL", "SKIP", "ERROR"}
  BY <1>1 DEF PState
<1>3. e = [s EXCEPT !.outcome = o, !.m = f]
  BY DEF Closed
<1> HIDE DEF o
<1>4. DOMAIN s.m = Declared[p] /\ \A n \in Declared[p] : s.m[n] \in Meas /\ s.m[n] \in MeasOf(n)
  BY MapFacts
<1>5. ASSUME NEW n \in Declared[p]
      PROVE  /\ f[n] \in MeasOf(n) /\ f[n] \in Meas /\ f[n].outcome = s.m[n].outcome
             /\ f[n].marginal = s.m[n].marginal /\ Converted(f[n])
             /\ MeasGood(n, s.m[n], b) => MeasGood(n, f[n], b)
  <2> DEFINE y == AsBaseTypes(s.m[n])
  <2>1. f[n] = y
    BY <1>4
  <2>2. /\ y \in Meas /\ y.value = s.m[n].value /\ y.outcome = s.m[n].outcome
        /\ y.marginal = s.m[n].marginal /\ Converted(y)
    BY <1>4, AsBaseTypesFacts
  <2>3. MeasGood(n, s.m[n], b) => MeasGood(n, y, b)
    BY <1>4, AsBaseTypesGood DEF MeasGood
  <2> HIDE DEF y
  <2>4. y \in MeasOf(n)
    BY <1>4, <2>2 DEF MeasOf
  <2>5. QED
    BY <2>1, <2>2, <2>3, <2>4
<1>6. f \in MeasMap(p) /\ DOMAIN f = Declared[p]
  BY <1>4, <1>5 DEF MeasMap
<1> HIDE DEF f
<1>7. /\ e \in PState(p) /\ e.m = f /\ e.failures = s.failures /\ e.outcome = o
      /\ e.result = s.result
  BY <1>2, <1>3, <1>6 DEF PState
<1>8. e.zombie = s.zombie /\ e.marginal = s.marginal
  BY <1>3 DEF PState
<1> HIDE DEF e
<1>9. ASSUME PhaseGood(p, s, b, "record"), s.zombie = FALSE
      PROVE  PhaseGood(p, e, b, "recorded")
  <2>1. /\ b.pc = "end" /\ \A n \in Declared[p] : MeasGood(n, s.m[n], b)
        /\ \A n \in Declared[p] : s.m[n].outcome # "PARTIALLY_SET"
        /\ Decided(s)
    BY <1>9 DEF PhaseGood
  <2>2. MeasurementsPass(s.m) => MeasurementsPass(f)
    BY <1>4, <1>5, <1>6 DEF MeasurementsPass
  <2>3. Decided(e)
    <3>1. e.result \in EndsTest => e.result \in Terminal \/ e.outcome = "ERROR"
      BY <1>1, <1>7, <2>1 DEF Decided
    <3>2. "CONTINUE" \notin Terminal
      BY DEF Terminal
    <3>3. e.result = "CONTINUE" => e.outcome \in {"PASS", "FAIL"}
      BY <1>1, <1>7, <2>1, <3>2 DEF Decided
    <3>4. e.result = "CONTINUE" /\ e.outcome = "PASS" => MeasurementsPass(e.m)
      BY <1>1, <1>7, <2>1, <2>2 DEF Decided
    <3>5. e.outcome = "PASS" => \A n \in DOMAIN e.m : e.m[n].marginal => e.marginal
      BY <1>1, <1>4, <1>5, <1>6, <1>7, <1>8, <2>1 DEF Decided
    <3>6. QED
      BY <3>1, <3>3, <3>4, <3>5 DEF Decided
  <2>4. Recorded(e)
    BY <1>1, <1>5, <1>6, <1>7, <2>1 DEF Recorded, Decided
  <2>5. QED
    BY <1>5, <1>7, <2>1, <2>3, <2>4 DEF PhaseGood
<1>10. QED
  BY <1>7, <1>8, <1>9 DEF e, PhaseGood

-----------------------------------------------------------------------------
(* The test. *)

InContext == epc \notin {"next", "done"}

\* How far phase p is.
Stage(p) == IF p = phase /\ InContext THEN epc ELSE "recorded"

PhaseNumbers == phase \in Nat /\ phase <= Len(Declared) /\ (InContext => phase \in Phases)

PStates == UNION {PState(p) : p \in Phases}
StateType ==
    /\ state \in Seq(PStates) /\ Len(state) = phase
    /\ \A p \in 1..phase : state[p] \in PState(p)

BodyType ==
    /\ upd \in [Phases -> Seq(SUBSET (Names \cup {"none"}))]
    /\ body \in [Phases -> Body]
    /\ \A p \in Phases : BodyGood(p, body[p]) /\ (p > phase => body[p].pc = "off")

ExecutorType ==
    /\ epc \in {"next", "running", "measurements", "outcome", "diagnose", "record", "done"}
    /\ PhaseNumbers
    /\ recorded \in Seq(Nat)
    /\ ToSet(recorded) = IF InContext THEN 1..(phase - 1) ELSE 1..phase
    /\ diagnoses \subseteq store
    /\ outcome \in {"none", "PASS", "FAIL", "ERROR", "TIMEOUT", "ABORTED"}
    /\ marginal \in BOOLEAN

\* The phases are in order, each at its stage.
PhaseInv == \A p \in 1..phase : PhaseGood(p, state[p], body[p], Stage(p))

\* The failures of a phase are failing diagnoses of the test.
FailInv ==
    \A p \in 1..phase : \A d \in state[p].failures : d \in diagnoses /\ Failing(d)

\* A test passes when no phase and no diagnosis failed; it is marginal when a phase is.
TestInv ==
    /\ epc # "done" => outcome = "none"
    /\ outcome = "PASS" =>
         /\ \A d \in diagnoses : ~Failing(d)
         /\ \A p \in 1..phase : state[p].outcome # "FAIL" /\ (state[p].marginal => marginal)

IInv ==
    /\ StateType /\ BodyType /\ ExecutorType
    /\ PhaseInv /\ FailInv /\ TestInv

LEMMA ExceptSeq ==
    ASSUME NEW S, NEW s \in Seq(S), NEW i \in 1..Len(s), NEW e \in S
    PROVE  /\ [s EXCEPT ![i] = e] \in Seq(S) /\ Len([s EXCEPT ![i] = e]) = Len(s)
           /\ [s EXCEPT ![i] = e][i] = e
           /\ \A j \in 1..Len(s) : j # i => [s EXCEPT ![i] = e][j] = s[j]
OBVIOUS

LEMMA AddSeq ==
    ASSUME NEW S, NEW s \in Seq(S), NEW e \in S
    PROVE  /\ Append(s, e) \in Seq(S) /\ Len(Append(s, e)) = Len(s) + 1 /\ Len(s) \in Nat
           /\ Append(s, e)[Len(s) + 1] = e
           /\ \A j \in 1..Len(s) : Append(s, e)[j] = s[j]
           /\ ToSet(Append(s, e)) = ToSet(s) \cup {e}
<1>1. /\ Append(s, e) \in Seq(S) /\ Len(Append(s, e)) = Len(s) + 1 /\ Len(s) \in Nat
      /\ Append(s, e)[Len(s) + 1] = e
      /\ \A j \in 1..Len(s) : Append(s, e)[j] = s[j]
  OBVIOUS
<1>2. ToSet(Append(s, e)) = ToSet(s) \cup {e}
  BY <1>1 DEF ToSet
<1>3. QED
  BY <1>1, <1>2

LEMMA ToPhase ==
    ASSUME PhaseNumbers, NEW p \in 1..phase
    PROVE  p \in Phases
BY NamesAssumption DEF PhaseNumbers, Phases

\* A phase's state is replaced.
LEMMA PutState ==
    ASSUME StateType, PhaseNumbers, NEW p \in 1..phase, NEW e \in PState(p),
           state' = [state EXCEPT ![p] = e], phase' = phase
    PROVE  /\ StateType' /\ state'[p] = e
           /\ \A q \in 1..phase : q # p => state'[q] = state[q]
<1>1. p \in Phases /\ e \in PStates
  BY ToPhase DEF PStates
<1>2. state \in Seq(PStates) /\ Len(state) = phase
  BY DEF StateType
<1>3. /\ state' \in Seq(PStates) /\ Len(state') = phase /\ state'[p] = e
      /\ \A q \in 1..phase : q # p => state'[q] = state[q]
  BY <1>1, <1>2, ExceptSeq
<1>4. \A q \in 1..phase : state'[q] \in PState(q)
  BY <1>3 DEF StateType
<1>5. QED
  BY <1>3, <1>4 DEF StateType

\* What a step of a body or of the reader has to show: it changes one phase and leaves
\* its outcome alone.
LEMMA ThreadStep ==
    ASSUME IInv, NEW p \in 1..phase, NEW e \in PState(p), NEW b \in Body, BodyGood(p, b),
           state' = [state EXCEPT ![p] = e], body' = [body EXCEPT ![p] = b],
           upd' \in [Phases -> Seq(SUBSET (Names \cup {"none"}))], ExecutorUnchanged,
           e.failures = state[p].failures, e.outcome = state[p].outcome,
           e.marginal = state[p].marginal, PhaseGood(p, e, b, Stage(p))
    PROVE  IInv'
<1>1. /\ phase' = phase /\ epc' = epc /\ recorded' = recorded /\ diagnoses' = diagnoses
      /\ store' = store /\ outcome' = outcome
  BY DEF ExecutorUnchanged
<1>2. marginal' = marginal
  BY DEF ExecutorUnchanged
<1>3. StateType /\ BodyType /\ ExecutorType /\ PhaseInv /\ FailInv /\ TestInv /\ PhaseNumbers
  BY DEF IInv, ExecutorType
<1>4. /\ StateType' /\ state'[p] = e
      /\ \A q \in 1..phase : q # p => state'[q] = state[q]
  BY <1>1, <1>3, PutState
<1>5. p \in Phases /\ phase \in Nat
  BY <1>3, ToPhase DEF PhaseNumbers
<1>6. /\ body' \in [Phases -> Body] /\ body'[p] = b
      /\ \A q \in Phases : q # p => body'[q] = body[q]
  BY <1>3, <1>5 DEF BodyType
<1>7. BodyType'
  <2>1. \A q \in Phases : BodyGood(q, body'[q])
    BY <1>3, <1>6 DEF BodyType
  <2>2. \A q \in Phases : q > phase' => body'[q].pc = "off"
    BY <1>1, <1>3, <1>5, <1>6 DEF BodyType
  <2>3. QED
    BY <1>6, <2>1, <2>2 DEF BodyType
<1>8. ExecutorType'
  BY <1>1, <1>2, <1>3 DEF ExecutorType, PhaseNumbers, InContext
<1>9. PhaseInv'
  <2>1. \A q \in 1..phase : Stage(q)' = Stage(q)
    BY <1>1 DEF Stage, InContext
  <2>2. ASSUME NEW q \in 1..phase
        PROVE  PhaseGood(q, state'[q], body'[q], Stage(q)')
    <3>1. q \in Phases
      BY <1>3, ToPhase
    <3>2. QED
      BY <1>3, <1>4, <1>6, <2>1, <2>2, <3>1 DEF PhaseInv
  <2>3. QED
    BY <1>1, <2>2 DEF PhaseInv
<1>10. FailInv'
  BY <1>1, <1>3, <1>4 DEF FailInv, Failing
<1>11. TestInv'
  <2>1. \A q \in 1..phase : state'[q].outcome = state[q].outcome
    BY <1>4
  <2>2. \A q \in 1..phase : state'[q].marginal = state[q].marginal
    BY <1>4
  <2>3. QED
    BY <1>1, <1>2, <1>3, <2>1, <2>2 DEF TestInv, Failing
<1>12. QED
  BY <1>4, <1>7, <1>8, <1>9, <1>10, <1>11 DEF IInv

\* What a step of running_phase_context has to show.
LEMMA ContextStep ==
    ASSUME IInv, InContext, NEW e \in PState(phase),
           state' = [state EXCEPT ![phase] = e], UNCHANGED <<upd, body, phase, outcome, marginal>>,
           epc' \in {"measurements", "outcome", "diagnose", "record", "next"},
           recorded' = IF epc' = "next" THEN Append(recorded, phase) ELSE recorded,
           diagnoses \subseteq diagnoses', diagnoses' \subseteq store',
           \A d \in e.failures : d \in diagnoses' /\ Failing(d),
           PhaseGood(phase, e, body[phase], IF epc' = "next" THEN "recorded" ELSE epc')
    PROVE  IInv'
<1>1. phase' = phase /\ upd' = upd /\ body' = body /\ outcome' = outcome
  OBVIOUS
<1>2. marginal' = marginal
  OBVIOUS
<1>3. StateType /\ BodyType /\ ExecutorType /\ PhaseInv /\ FailInv /\ TestInv /\ PhaseNumbers
  BY DEF IInv, ExecutorType
<1>4. phase \in Phases /\ phase \in Nat /\ phase >= 1 /\ phase \in 1..phase
  BY <1>3, NamesAssumption DEF PhaseNumbers, Phases
<1>5. /\ StateType' /\ state'[phase] = e
      /\ \A q \in 1..phase : q # phase => state'[q] = state[q]
  BY <1>1, <1>3, <1>4, PutState
<1>6. BodyType'
  BY <1>1, <1>3 DEF BodyType
<1>7. ExecutorType'
  <2>1. recorded' \in Seq(Nat) /\ ToSet(recorded') =
             IF epc' = "next" THEN ToSet(recorded) \cup {phase} ELSE ToSet(recorded)
    <3>1. recorded \in Seq(Nat)
      BY <1>3 DEF ExecutorType
    <3>2. /\ Append(recorded, phase) \in Seq(Nat)
          /\ ToSet(Append(recorded, phase)) = ToSet(recorded) \cup {phase}
      BY <3>1, <1>4, AddSeq
    <3>3. QED
      BY <3>1, <3>2
  <2>2. ToSet(recorded) = 1..(phase - 1)
    BY <1>3 DEF ExecutorType
  <2>3. ToSet(recorded') = IF InContext' THEN 1..(phase' - 1) ELSE 1..phase'
    <3>1. InContext' <=> epc' # "next"
      BY DEF InContext
    <3>2. 1..(phase - 1) \cup {phase} = 1..phase
      BY <1>4
    <3>3. QED
      BY <1>1, <2>1, <2>2, <3>1, <3>2
  <2>4. PhaseNumbers'
    BY <1>1, <1>3, <1>4 DEF PhaseNumbers, Phases
  <2>5. QED
    BY <1>1, <1>2, <1>3, <2>1, <2>3, <2>4 DEF ExecutorType
<1>8. PhaseInv'
  <2>1. Stage(phase)' = IF epc' = "next" THEN "recorded" ELSE epc'
    BY <1>1 DEF Stage, InContext
  <2>2. ASSUME NEW q \in 1..phase, q # phase
        PROVE  Stage(q)' = Stage(q) /\ state'[q] = state[q]
    BY <1>1, <1>5, <2>2 DEF Stage
  <2>3. QED
    BY <1>1, <1>3, <1>5, <2>1, <2>2 DEF PhaseInv
<1>9. FailInv'
  BY <1>1, <1>3, <1>5 DEF FailInv, Failing
<1>10. TestInv'
  BY <1>1, <1>3 DEF TestInv, InContext
<1>11. QED
  BY <1>5, <1>6, <1>7, <1>8, <1>9, <1>10 DEF IInv

-----------------------------------------------------------------------------
(* The steps of a body and of the reader. *)

\* A body that is somewhere has a phase that was started, and when that phase has no
\* zombie it is running.
LEMMA BodyAt ==
    ASSUME IInv, NEW p \in Phases, body[p].pc # "off"
    PROVE  /\ p \in 1..phase /\ state[p] \in PState(p) /\ body[p] \in Body
           /\ BodyGood(p, body[p]) /\ PhaseGood(p, state[p], body[p], Stage(p))
           /\ body[p].pc # "end" /\ state[p].zombie = FALSE => Stage(p) = "running"
<1>1. p \in Nat /\ p >= 1 /\ phase \in Nat
  BY NamesAssumption DEF Phases, IInv, ExecutorType, PhaseNumbers
<1>2. ~(p > phase)
  BY DEF IInv, BodyType
<1>3. p \in 1..phase
  BY <1>1, <1>2
<1>4. /\ state[p] \in PState(p) /\ body[p] \in Body /\ BodyGood(p, body[p])
      /\ PhaseGood(p, state[p], body[p], Stage(p))
  BY <1>3 DEF IInv, StateType, BodyType, PhaseInv
<1>5. QED
  BY <1>3, <1>4 DEF PhaseGood

LEMMA UpdType ==
    ASSUME IInv, upd' = upd
    PROVE  upd' \in [Phases -> Seq(SUBSET (Names \cup {"none"}))]
BY DEF IInv, BodyType

\* A phase that runs is good when its measurements are.
LEMMA RunningGood ==
    ASSUME NEW p, NEW s, NEW b, NEW stage, s.zombie = FALSE => stage = "running",
           s.zombie = FALSE => \A n \in Declared[p] : MeasGood(n, s.m[n], b)
    PROVE  PhaseGood(p, s, b, stage)
BY DEF PhaseGood

\* The body is not in the middle of setting another measurement than n.
NoOther(p, b, n) == \A q \in Declared[p] : q # n => b.pc # "store" \/ b.name # q

\* A body puts a measurement.
LEMMA PutStep ==
    ASSUME IInv, NEW p \in Phases, body[p].pc \notin {"off", "end"},
           NEW n \in Declared[p], NEW x \in MeasOf(n), NEW k \in Nat,
           NEW b \in Body, BodyGood(p, b),
           state' = [state EXCEPT ![p] = PutMap(state[p], [state[p].m EXCEPT ![n] = x], k)],
           body' = [body EXCEPT ![p] = b], UNCHANGED upd, ExecutorUnchanged,
           MeasGood(n, state[p].m[n], body[p]) => MeasGood(n, x, b),
           NoOther(p, body[p], n), NoOther(p, b, n)
    PROVE  IInv'
<1> DEFINE s == state[p]
           f == [s.m EXCEPT ![n] = x]
           e == PutMap(s, f, k)
<1>1. /\ p \in 1..phase /\ s \in PState(p) /\ PhaseGood(p, s, body[p], Stage(p))
      /\ s.zombie = FALSE => Stage(p) = "running"
  BY BodyAt
<1>2. f \in MeasMap(p) /\ f[n] = x /\ \A q \in Declared[p] : q # n => f[q] = s.m[q]
  BY <1>1, MapFacts, PutOne
<1> HIDE DEF f
<1>3. /\ e \in PState(p) /\ e.m = f /\ e.outcome = s.outcome /\ e.failures = s.failures
      /\ e.marginal = s.marginal /\ e.zombie = s.zombie
  BY <1>1, <1>2, PutFacts
<1>4. state' = [state EXCEPT ![p] = e]
  BY DEF f
<1> HIDE DEF e
<1>5. s.zombie = FALSE => \A q \in Declared[p] : MeasGood(q, e.m[q], b)
  <2>1. SUFFICES ASSUME s.zombie = FALSE, NEW q \in Declared[p]
                 PROVE  MeasGood(q, e.m[q], b)
    OBVIOUS
  <2>2. MeasGood(q, s.m[q], body[p])
    BY <1>1, <2>1 DEF PhaseGood
  <2>3. CASE q = n
    BY <1>2, <1>3, <2>2, <2>3
  <2>4. CASE q # n
    <3>1. e.m[q] = s.m[q]
      BY <1>2, <1>3, <2>4
    <3>2. MeasGood(q, s.m[q], b)
      BY <2>2, <2>4, SameBody DEF NoOther
    <3>3. QED
      BY <3>1, <3>2
  <2>5. QED
    BY <2>3, <2>4
<1>6. PhaseGood(p, e, b, Stage(p))
  BY <1>1, <1>3, <1>5, RunningGood
<1>7. QED
  BY <1>1, <1>3, <1>4, <1>6, UpdType, ThreadStep

LEMMA SetItemKeeps ==
    ASSUME IInv, NEW p \in Phases, NEW n \in Names, NEW v \in Values, SetItem(p, n, v)
    PROVE  IInv'
<1> DEFINE s == state[p]
           x == Validate(SetScalar(n, s.m[n], v))
           pc == IF Raises(x) \/ ~x.cb THEN "run" ELSE "load"
           b == [body[p] EXCEPT !.pc = pc, !.name = n]
<1>1. body[p].pc = "run" /\ n \in Declared[p] \ Dimensioned
  BY DEF SetItem, CanSet, At
<1>2. s \in PState(p) /\ body[p] \in Body /\ s.sets \in Nat
  BY <1>1, BodyAt, MapFacts
<1>3. x \in MeasOf(n) /\ \A d : MeasGood(n, s.m[n], body[p]) /\ d.pc # "store" => MeasGood(n, x, d)
  BY <1>1, <1>2, SetGood
<1>4. /\ state' = [state EXCEPT ![p].m[n] = x, ![p].sets = @ + 1]
      /\ body' = [body EXCEPT ![p].pc = pc, ![p].name = n]
      /\ UNCHANGED upd /\ ExecutorUnchanged
  BY DEF SetItem, PutMeas
<1>5. pc \in {"run", "load"}
  OBVIOUS
<1> HIDE DEF x, pc
<1>6. state' = [state EXCEPT ![p] = PutMap(s, [s.m EXCEPT ![n] = x], s.sets + 1)]
  BY <1>4 DEF PutMap
<1>7. b \in Body /\ b.pc # "store" /\ BodyGood(p, b)
  BY <1>2, <1>5 DEF Body, BodyGood
<1>8. body' = [body EXCEPT ![p] = b]
  BY <1>4
<1> HIDE DEF b
<1>9. s.sets + 1 \in Nat
  BY <1>2
<1>10. MeasGood(n, s.m[n], body[p]) => MeasGood(n, x, b)
  BY <1>3, <1>7
<1>11. NoOther(p, body[p], n) /\ NoOther(p, b, n)
  BY <1>1, <1>7 DEF NoOther
<1>12. QED
  BY <1>1, <1>3, <1>4, <1>6, <1>7, <1>8, <1>9, <1>10, <1>11, PutStep

LEMMA SetDimensionedKeeps ==
    ASSUME IInv, NEW p \in Phases, NEW n \in Names, NEW c \in Coords, NEW v \in Values,
           SetDimensioned(p, n, c, v)
    PROVE  IInv'
<1> DEFINE s == state[p]
           x == CacheItem(s.m[n], c, v)
           k == s.sets + 1
           b == [pc |-> "store", name |-> n, ref |-> 0, coord |-> <<c, v>>]
<1>1. body[p].pc = "run" /\ n \in Declared[p] \cap Dimensioned
  BY DEF SetDimensioned, CanSet, At
<1>2. s \in PState(p) /\ s.sets \in Nat /\ s.m[n] \in Meas
  BY <1>1, BodyAt, MapFacts
<1>3. x \in Meas /\ (Judged(n, s.m[n]) => Judged(n, x))
      /\ (Cached(n, s.m[n]) => CachedAhead(n, x, c, v))
  BY <1>2, CacheItemGood
<1>4. /\ state' = [state EXCEPT ![p].m[n] = x, ![p].sets = @ + 1]
      /\ body' = [body EXCEPT ![p] = b]
      /\ UNCHANGED upd /\ ExecutorUnchanged
  BY DEF SetDimensioned, PutMeas
<1>5. /\ b \in Body /\ BodyGood(p, b) /\ b.pc = "store" /\ b.name = n
      /\ b.coord[1] = c /\ b.coord[2] = v
  BY <1>1 DEF Body, BodyGood
<1> HIDE DEF x, b
<1>6. state' = [state EXCEPT ![p] = PutMap(s, [s.m EXCEPT ![n] = x], k)]
  BY <1>4 DEF PutMap
<1>7. x \in MeasOf(n) /\ k \in Nat
  BY <1>1, <1>2, <1>3 DEF MeasOf
<1> HIDE DEF k
<1>8. MeasGood(n, s.m[n], body[p]) => MeasGood(n, x, b)
  BY <1>1, <1>3, <1>5 DEF MeasGood
<1>9. NoOther(p, body[p], n) /\ NoOther(p, b, n)
  BY <1>1, <1>5 DEF NoOther
<1>10. body[p].pc \notin {"off", "end"} /\ n \in Declared[p]
  BY <1>1
<1>11. b \in Body /\ BodyGood(p, b)
  BY <1>5
<1>12. body' = [body EXCEPT ![p] = b] /\ UNCHANGED upd /\ ExecutorUnchanged
  BY <1>4
<1>13. QED
  BY <1>6, <1>7, <1>8, <1>9, <1>10, <1>11, <1>12, PutStep

LEMMA StoreDimensionedKeeps ==
    ASSUME IInv, NEW p \in Phases, StoreDimensioned(p)
    PROVE  IInv'
<1> DEFINE s == state[p]
           n == body[p].name
           c == body[p].coord[1]
           v == body[p].coord[2]
           y == StoreItem(n, s.m[n], c, v)
           x == [y EXCEPT !.outcome = "PARTIALLY_SET"]
           pc == IF y.cb THEN "load" ELSE "run"
           b == [body[p] EXCEPT !.pc = pc, !.coord = "none"]
<1>1. body[p].pc = "store"
  BY DEF StoreDimensioned, At
<1>2. s \in PState(p) /\ body[p] \in Body /\ BodyGood(p, body[p])
  BY <1>1, BodyAt
<1>3. n \in Declared[p] \cap Dimensioned /\ c \in Coords /\ v \in Values
  BY <1>1, <1>2 DEF BodyGood
<1>4. s.sets \in Nat /\ s.m[n] \in Meas
  BY <1>2, <1>3, MapFacts
<1>5. x \in Meas /\ (Judged(n, s.m[n]) => Judged(n, x))
      /\ (CachedAhead(n, s.m[n], c, v) => Cached(n, x))
  BY <1>3, <1>4, StoreItemGood
<1>6. /\ state' = [state EXCEPT ![p].m[n] = x]
      /\ body' = [body EXCEPT ![p].pc = pc, ![p].coord = "none"]
      /\ UNCHANGED upd /\ ExecutorUnchanged
  BY DEF StoreDimensioned
<1>7. pc \in {"run", "load"}
  OBVIOUS
<1>8. MeasGood(n, s.m[n], body[p]) => Judged(n, s.m[n]) /\ CachedAhead(n, s.m[n], c, v)
  BY <1>1 DEF MeasGood
<1> HIDE DEF x, y, pc, c, v, n
<1>9. state' = [state EXCEPT ![p] = PutMap(s, [s.m EXCEPT ![n] = x], s.sets)]
  BY <1>2, <1>6 DEF PutMap, PState
<1>10. b \in Body /\ BodyGood(p, b) /\ b.pc # "store"
  BY <1>2, <1>7 DEF Body, BodyGood
<1>11. body' = [body EXCEPT ![p] = b]
  BY <1>6
<1> HIDE DEF b
<1>12. x \in MeasOf(n)
  BY <1>3, <1>5 DEF MeasOf
<1>13. MeasGood(n, s.m[n], body[p]) => MeasGood(n, x, b)
  BY <1>5, <1>8, <1>10 DEF MeasGood
<1>14. NoOther(p, body[p], n) /\ NoOther(p, b, n)
  BY <1>10 DEF n, NoOther
<1>15. body[p].pc \notin {"off", "end"} /\ n \in Declared[p]
  BY <1>1, <1>3
<1>16. QED
  BY <1>4, <1>6, <1>9, <1>10, <1>11, <1>12, <1>13, <1>14, <1>15, PutStep

LEMMA SkipMeasurementKeeps ==
    ASSUME IInv, NEW p \in Phases, NEW n \in Names, SkipMeasurement(p, n)
    PROVE  IInv'
<1> DEFINE s == state[p]
           k == s.sets + 1
           x == [s.m[n] EXCEPT !.outcome = "SKIPPED"]
<1>1. body[p].pc = "run" /\ n \in Declared[p] /\ s.m[n].value = <<>>
  BY DEF SkipMeasurement, CanSet, At
<1>2. /\ s \in PState(p) /\ s.sets \in Nat /\ s.m[n] \in Meas /\ s.m[n] \in MeasOf(n)
      /\ body[p] \in Body /\ BodyGood(p, body[p])
  BY <1>1, BodyAt, MapFacts
<1>3. /\ state' = [state EXCEPT ![p].m[n] = x, ![p].sets = @ + 1]
      /\ body' = body /\ UNCHANGED upd /\ ExecutorUnchanged
  BY DEF SkipMeasurement, PutMeas
<1>4. x \in MeasOf(n)
  BY <1>2 DEF Meas, MeasOf, MeasOutcomes
<1>5. MeasGood(n, s.m[n], body[p]) => MeasGood(n, x, body[p])
  BY <1>1, <1>2, SkipGood DEF MeasGood
<1> HIDE DEF x
<1>6. state' = [state EXCEPT ![p] = PutMap(s, [s.m EXCEPT ![n] = x], k)]
  BY <1>3 DEF PutMap
<1>7. body' = [body EXCEPT ![p] = body[p]]
  BY <1>3 DEF IInv, BodyType
<1>8. k \in Nat
  BY <1>2
<1> HIDE DEF k
<1>9. NoOther(p, body[p], n)
  BY <1>1 DEF NoOther
<1>10. body[p].pc \notin {"off", "end"} /\ n \in Declared[p]
  BY <1>1
<1>11. body[p] \in Body /\ BodyGood(p, body[p]) /\ UNCHANGED upd /\ ExecutorUnchanged
  BY <1>2, <1>3
<1>12. QED
  BY <1>4, <1>5, <1>6, <1>7, <1>8, <1>9, <1>10, <1>11, PutStep

\* Attachments and the result.
LEMMA RestKeeps ==
    ASSUME IInv, NEW p \in Phases, body[p].pc = "run", NEW e \in PState(p),
           e.m = state[p].m, e.failures = state[p].failures, e.outcome = state[p].outcome,
           e.marginal = state[p].marginal, e.zombie = state[p].zombie,
           NEW pc \in {"run", "end"}, state' = [state EXCEPT ![p] = e],
           body' = [body EXCEPT ![p].pc = pc], UNCHANGED upd, ExecutorUnchanged
    PROVE  IInv'
<1> DEFINE b == [body[p] EXCEPT !.pc = pc]
<1>1. /\ p \in 1..phase /\ state[p] \in PState(p) /\ body[p] \in Body
      /\ PhaseGood(p, state[p], body[p], Stage(p))
      /\ state[p].zombie = FALSE => Stage(p) = "running"
  BY BodyAt
<1>2. b \in Body /\ b.pc # "store" /\ BodyGood(p, b)
  BY <1>1 DEF Body, BodyGood
<1>3. body' = [body EXCEPT ![p] = b]
  OBVIOUS
<1> HIDE DEF b
<1>4. e.zombie = FALSE => \A n \in Declared[p] : MeasGood(n, e.m[n], b)
  <2>1. SUFFICES ASSUME state[p].zombie = FALSE, NEW n \in Declared[p]
                 PROVE  MeasGood(n, state[p].m[n], b)
    OBVIOUS
  <2>2. MeasGood(n, state[p].m[n], body[p])
    BY <1>1, <2>1 DEF PhaseGood
  <2>3. QED
    BY <1>2, <2>2, SameBody
<1>5. PhaseGood(p, e, b, Stage(p))
  BY <1>1, <1>4, RunningGood
<1>6. QED
  BY <1>1, <1>2, <1>3, <1>5, UpdType, ThreadStep

LEMMA AttachKeeps ==
    ASSUME IInv, NEW p \in Phases, Attach(p, "log")
    PROVE  IInv'
<1> DEFINE s == state[p]
           a == s.attachments \cup {"log"}
           k == s.sets + 1
           e == [s EXCEPT !.attachments = a, !.sets = k]
<1>1. body[p].pc = "run"
  BY DEF Attach, CanSet, At
<1>2. s \in PState(p)
  BY <1>1, BodyAt
<1>3. a \in SUBSET {"log"} /\ k \in Nat
  BY <1>2 DEF PState
<1>4. state' = [state EXCEPT ![p] = e]
  BY DEF Attach
<1> HIDE DEF a, k
<1>5. /\ e \in PState(p) /\ e.m = s.m /\ e.failures = s.failures /\ e.outcome = s.outcome
  BY <1>2, <1>3 DEF PState
<1>6. e.marginal = s.marginal /\ e.zombie = s.zombie
  BY <1>2 DEF PState
<1>7. body' = body /\ UNCHANGED upd /\ ExecutorUnchanged
  BY DEF Attach
<1>8. body' = [body EXCEPT ![p].pc = "run"]
  BY <1>1, <1>7 DEF IInv, BodyType, Body
<1> HIDE DEF e
<1>9. QED
  BY <1>1, <1>4, <1>5, <1>6, <1>7, <1>8, RestKeeps

LEMMA BodyEndsKeeps ==
    ASSUME IInv, NEW p \in Phases, BodyEnds(p)
    PROVE  IInv'
<1> DEFINE s == state[p]
<1>1. body[p].pc = "run" /\ body' = [body EXCEPT ![p].pc = "end"] /\ UNCHANGED upd
      /\ ExecutorUnchanged
  BY DEF BodyEnds, At, Goto
<1>2. PICK r \in Results :
        state' = IF s.result = "none" THEN [state EXCEPT ![p].result = r] ELSE state
  BY DEF BodyEnds
<1>3. s \in PState(p) /\ p \in 1..phase
  BY <1>1, BodyAt
<1>4. CASE s.result = "none"
  <2> DEFINE e == [s EXCEPT !.result = r]
  <2>1. /\ e \in PState(p) /\ e.m = s.m /\ e.failures = s.failures /\ e.outcome = s.outcome
    BY <1>3 DEF PState
  <2>2. e.marginal = s.marginal /\ e.zombie = s.zombie
    BY <1>3 DEF PState
  <2>3. state' = [state EXCEPT ![p] = e]
    BY <1>2, <1>4
  <2> HIDE DEF e
  <2>4. QED
    BY <1>1, <2>1, <2>2, <2>3, RestKeeps
<1>5. CASE s.result # "none"
  <2>1. state' = [state EXCEPT ![p] = s]
    BY <1>2, <1>5 DEF IInv, StateType
  <2>2. QED
    BY <1>1, <1>3, <2>1, RestKeeps
<1>6. QED
  BY <1>4, <1>5

\* PhaseState._notify.
LEMMA NotifyKeeps ==
    ASSUME IInv, NEW p \in Phases, body[p].pc \in {"load", "add"}, NEW b \in Body,
           b.pc # "store", UNCHANGED state, body' = [body EXCEPT ![p] = b],
           upd' \in [Phases -> Seq(SUBSET (Names \cup {"none"}))], ExecutorUnchanged
    PROVE  IInv'
<1> DEFINE s == state[p]
<1>1. /\ p \in 1..phase /\ s \in PState(p) /\ PhaseGood(p, s, body[p], Stage(p))
      /\ s.zombie = FALSE => Stage(p) = "running"
  BY BodyAt
<1>2. state' = [state EXCEPT ![p] = s]
  BY DEF IInv, StateType
<1>3. s.zombie = FALSE => \A n \in Declared[p] : MeasGood(n, s.m[n], b)
  <2>1. SUFFICES ASSUME s.zombie = FALSE, NEW n \in Declared[p]
                 PROVE  MeasGood(n, s.m[n], b)
    OBVIOUS
  <2>2. MeasGood(n, s.m[n], body[p])
    BY <1>1, <2>1 DEF PhaseGood
  <2>3. QED
    BY <2>2, SameBody
<1>4. PhaseGood(p, s, b, Stage(p)) /\ BodyGood(p, b)
  BY <1>1, <1>3, RunningGood DEF BodyGood
<1>5. QED
  BY <1>1, <1>2, <1>4, ThreadStep

LEMMA NotifyLoadKeeps ==
    ASSUME IInv, NEW p \in Phases, NotifyLoad(p)
    PROVE  IInv'
<1> DEFINE b == [body[p] EXCEPT !.pc = "add", !.ref = Len(upd[p])]
<1>1. body[p].pc = "load" /\ body[p] \in Body /\ Len(upd[p]) \in Nat
  BY DEF NotifyLoad, At, IInv, BodyType
<1>2. b \in Body /\ b.pc = "add"
  BY <1>1 DEF Body
<1>3. body' = [body EXCEPT ![p] = b] /\ UNCHANGED state /\ UNCHANGED upd /\ ExecutorUnchanged
  BY DEF NotifyLoad
<1> HIDE DEF b
<1>4. QED
  BY <1>1, <1>2, <1>3, UpdType, NotifyKeeps

LEMMA NotifyAddKeeps ==
    ASSUME IInv, NEW p \in Phases, NotifyAdd(p)
    PROVE  IInv'
<1> DEFINE b == [body[p] EXCEPT !.pc = "run", !.ref = 0]
           S == SUBSET (Names \cup {"none"})
           k == body[p].ref
           new == upd[p][k] \cup {body[p].name}
           u == [upd[p] EXCEPT ![k] = new]
<1>1. body[p].pc = "add" /\ body[p] \in Body /\ upd \in [Phases -> Seq(S)]
  BY DEF NotifyAdd, At, IInv, BodyType
<1>2. b \in Body /\ b.pc = "run"
  BY <1>1 DEF Body
<1>3. body' = [body EXCEPT ![p] = b] /\ UNCHANGED state /\ ExecutorUnchanged
      /\ upd' = [upd EXCEPT ![p] = u]
  BY DEF NotifyAdd
<1>4. u \in Seq(S)
  <2>1. CASE k \in 1..Len(upd[p])
    <3>1. upd[p] \in Seq(S)
      BY <1>1
    <3>2. upd[p][k] \in S
      BY <2>1, <3>1
    <3>3. new \in S
      BY <1>1, <3>2 DEF Body
    <3> HIDE DEF S, new, k
    <3>4. QED
      BY <2>1, <3>1, <3>3, ExceptSeq
  <2>2. CASE k \notin 1..Len(upd[p])
    <3>1. upd[p] \in Seq(S)
      BY <1>1
    <3>2. u = upd[p]
      BY <2>2, <3>1
    <3>3. QED
      BY <3>1, <3>2
  <2>3. QED
    BY <2>1, <2>2
<1> HIDE DEF u, b
<1>5. upd' \in [Phases -> Seq(SUBSET (Names \cup {"none"}))]
  BY <1>1, <1>3, <1>4
<1>6. QED
  BY <1>1, <1>2, <1>3, <1>5, NotifyKeeps

\* The reader, as long as it changes no measurement.
LEMMA ReaderKeeps ==
    ASSUME IInv, UNCHANGED <<state, body>>, ExecutorUnchanged,
           upd' \in [Phases -> Seq(SUBSET (Names \cup {"none"}))]
    PROVE  IInv'
<1>1. /\ state' = state /\ body' = body /\ phase' = phase /\ epc' = epc
      /\ recorded' = recorded /\ diagnoses' = diagnoses /\ store' = store
      /\ outcome' = outcome
  BY DEF ExecutorUnchanged
<1>2. marginal' = marginal
  BY DEF ExecutorUnchanged
<1>3. StateType' /\ BodyType'
  BY <1>1 DEF IInv, StateType, BodyType
<1>4. ExecutorType'
  BY <1>1, <1>2 DEF IInv, ExecutorType, PhaseNumbers, InContext
<1>5. PhaseInv'
  BY <1>1 DEF IInv, PhaseInv, Stage, InContext
<1>6. FailInv' /\ TestInv'
  BY <1>1, <1>2 DEF IInv, FailInv, TestInv, Failing
<1>7. QED
  BY <1>3, <1>4, <1>5, <1>6 DEF IInv

LEMMA ReadSwapKeeps ==
    ASSUME IInv, ReadSwap
    PROVE  IInv'
<1> DEFINE S == SUBSET (Names \cup {"none"})
           u == Append(upd[reader.phase], {})
<1>1. upd \in [Phases -> Seq(S)]
  BY DEF IInv, BodyType
<1>2. upd' = [upd EXCEPT ![reader.phase] = u]
  BY DEF ReadSwap
<1>3. reader.phase \in Phases => u \in Seq(S)
  BY <1>1
<1> HIDE DEF u
<1>4. upd' \in [Phases -> Seq(S)]
  BY <1>1, <1>2, <1>3
<1>5. QED
  BY <1>4, ReaderKeeps DEF ReadSwap

\* Where a conversion changes the state at all.
LEMMA ReadChanges ==
    ASSUME IInv, NEW r, NEW n, state' = [state EXCEPT ![r].m[n] = AsBaseTypes(@)]
    PROVE  \/ state' = state
           \/ /\ r \in 1..phase /\ r \in Phases /\ n \in Declared[r]
              /\ LET f == [state[r].m EXCEPT ![n] = AsBaseTypes(state[r].m[n])]
                 IN  state' = [state EXCEPT ![r] = PutMap(state[r], f, state[r].sets)]
<1> DEFINE s == state[r]
           y == AsBaseTypes(s.m[n])
           f == [s.m EXCEPT ![n] = y]
<1>1. /\ StateType /\ PhaseNumbers /\ DOMAIN state = 1..phase
  BY DEF IInv, StateType, ExecutorType
<1>2. state' = [state EXCEPT ![r] = [s EXCEPT !.m = f]]
  OBVIOUS
<1>3. CASE r \notin 1..phase
  BY <1>1, <1>2, <1>3 DEF StateType
<1>4. CASE r \in 1..phase /\ n \notin Declared[r]
  <2>1. s \in PState(r)
    BY <1>1, <1>4 DEF StateType
  <2>2. f = s.m
    BY <1>4, <2>1 DEF PState, MeasMap
  <2>3. [s EXCEPT !.m = f] = s
    BY <2>1, <2>2 DEF PState
  <2>4. QED
    BY <1>1, <1>2, <2>3 DEF StateType
<1>5. CASE r \in 1..phase /\ n \in Declared[r]
  <2>1. s \in PState(r) /\ r \in Phases
    BY <1>1, <1>5, ToPhase DEF StateType
  <2> HIDE DEF f
  <2>2. [s EXCEPT !.m = f] = PutMap(s, f, s.sets)
    BY <2>1 DEF PState, PutMap
  <2>3. state' = [state EXCEPT ![r] = PutMap(s, f, s.sets)]
    BY <1>2, <2>2
  <2>4. QED
    BY <1>5, <2>1, <2>3 DEF f
<1>6. QED
  BY <1>3, <1>4, <1>5

LEMMA ReadEachKeeps ==
    ASSUME IInv, ReadEach
    PROVE  IInv'
<1>1. UNCHANGED <<upd, body>> /\ ExecutorUnchanged
  BY DEF ReadEach
<1>2. CASE state' = state
  BY <1>1, <1>2, UpdType, ReaderKeeps
<1>3. CASE state' # state
  <2>1. PICK n : state' = [state EXCEPT ![reader.phase].m[n] = AsBaseTypes(@)]
    BY <1>3 DEF ReadEach
  <2> DEFINE r == reader.phase
             s == state[r]
             f == [s.m EXCEPT ![n] = AsBaseTypes(s.m[n])]
             e == PutMap(s, f, s.sets)
  <2>2. r \in 1..phase /\ r \in Phases /\ n \in Declared[r] /\ state' = [state EXCEPT ![r] = e]
    BY <1>3, <2>1, ReadChanges
  <2>3. /\ s \in PState(r) /\ body[r] \in Body /\ BodyGood(r, body[r])
        /\ PhaseGood(r, s, body[r], Stage(r))
    BY <2>2 DEF IInv, StateType, BodyType, PhaseInv
  <2>4. f \in MeasMap(r) /\ PhaseGood(r, e, body[r], Stage(r))
    BY <2>2, <2>3, ReadGood
  <2>5. s.sets \in Nat
    BY <2>3, MapFacts
  <2> HIDE DEF f
  <2>6. /\ e \in PState(r) /\ e.outcome = s.outcome /\ e.failures = s.failures
        /\ e.marginal = s.marginal
    BY <2>3, <2>4, <2>5, PutFacts
  <2> HIDE DEF e
  <2>7. body' = [body EXCEPT ![r] = body[r]]
    BY <1>1 DEF IInv, BodyType
  <2> HIDE DEF r
  <2>8. QED
    BY <1>1, <2>2, <2>3, <2>4, <2>6, <2>7, UpdType, ThreadStep
<1>4. QED
  BY <1>2, <1>3

-----------------------------------------------------------------------------
(* The steps of the test executor. *)

LEMMA InPhase ==
    ASSUME IInv, InContext
    PROVE  /\ phase \in 1..phase /\ phase \in Phases /\ state[phase] \in PState(phase)
           /\ PhaseGood(phase, state[phase], body[phase], epc)
           /\ \A d \in state[phase].failures : d \in diagnoses /\ Failing(d)
           /\ diagnoses \subseteq store
<1>1. phase \in Phases /\ phase \in 1..phase
  BY NamesAssumption DEF IInv, ExecutorType, PhaseNumbers, Phases
<1>2. Stage(phase) = epc
  BY DEF Stage
<1>3. QED
  BY <1>1, <1>2 DEF IInv, StateType, PhaseInv, FailInv, ExecutorType

\* A new measurement has no value, and the validators that were declared.
LEMMA NewMeasurement ==
    ASSUME NEW n \in Names
    PROVE  /\ Measurement(n) \in MeasOf(n) /\ Measurement(n) \in Meas
           /\ Judged(n, Measurement(n)) /\ Cached(n, Measurement(n))
<1> DEFINE more == IF "res" \in store THEN Conditional[n] ELSE <<>>
           all == ValidatorsOf[n] \o more
           x == Measurement(n)
<1>1. /\ ValidatorsOf[n] \in Seq(AnyValidator) /\ more \in Seq(AnyValidator)
  <2>1. ASSUME NEW s \in Seq(Suitable(n)) PROVE s \in Seq(AnyValidator)
    <3>1. Suitable(n) \subseteq AnyValidator
      BY DEF Suitable, AnyValidator
    <3> HIDE DEF AnyValidator
    <3>2. QED
      BY <2>1, <3>1
  <2>2. ValidatorsOf[n] \in Seq(Suitable(n)) /\ Conditional[n] \in Seq(Suitable(n))
    BY NamesAssumption
  <2>3. <<>> \in Seq(AnyValidator)
    OBVIOUS
  <2>4. QED
    BY <2>1, <2>2, <2>3
<1> HIDE DEF more
<1>2. all \in Seq(AnyValidator) /\ Declares(n, all)
  <2>1. /\ all \in Seq(AnyValidator) /\ Len(all) = Len(ValidatorsOf[n]) + Len(more)
        /\ Len(ValidatorsOf[n]) \in Nat /\ Len(more) \in Nat
        /\ \A i \in 1..Len(ValidatorsOf[n]) : all[i] = ValidatorsOf[n][i]
        /\ \A i \in 1..Len(all) : i > Len(ValidatorsOf[n]) =>
             all[i] = more[i - Len(ValidatorsOf[n])]
    BY <1>1
  <2>2. /\ DOMAIN all = 1..Len(all) /\ DOMAIN ValidatorsOf[n] = 1..Len(ValidatorsOf[n])
        /\ DOMAIN more = 1..Len(more)
    BY <1>1, <2>1
  <2> HIDE DEF all
  <2>3. \A i \in DOMAIN ValidatorsOf[n] : i \in DOMAIN all /\ all[i] = ValidatorsOf[n][i]
    BY <2>1, <2>2
  <2>4. ASSUME NEW i \in DOMAIN all
        PROVE  all[i] \in ToSet(ValidatorsOf[n]) \cup ToSet(more)
    <3>1. CASE i <= Len(ValidatorsOf[n])
      BY <2>1, <2>2, <2>4, <3>1 DEF ToSet
    <3>2. CASE i > Len(ValidatorsOf[n])
      <4>1. i - Len(ValidatorsOf[n]) \in DOMAIN more
        BY <2>1, <2>2, <2>4, <3>2
      <4>2. QED
        BY <2>1, <2>2, <2>4, <3>2, <4>1 DEF ToSet
    <3>3. QED
      BY <2>1, <2>2, <2>4, <3>1, <3>2
  <2>5. ToSet(ValidatorsOf[n]) \subseteq ToSet(all)
    BY <2>3 DEF ToSet
  <2>6. ToSet(more) \subseteq ToSet(Conditional[n])
    BY DEF more, ToSet
  <2>7. ToSet(all) \subseteq ToSet(ValidatorsOf[n]) \cup ToSet(Conditional[n])
    BY <2>4, <2>6 DEF ToSet
  <2>8. QED
    BY <1>1, <2>1, <2>5, <2>7 DEF Declares
<1> HIDE DEF all
<1>3. x = [value |-> <<>>, base |-> <<>>, rebuild |-> FALSE, overridden |-> {},
           outcome |-> "UNSET", marginal |-> FALSE, validators |-> all,
           cb |-> TRUE, shown |-> <<>>, shownOutcome |-> "UNSET"]
  BY DEF Measurement, all, more
<1>4. <<>> \in Seq(Row) /\ Len(<<>>) = 0 /\ DOMAIN <<>> = {}
  OBVIOUS
<1>5. x \in Meas
  BY <1>2, <1>3, <1>4 DEF Meas, MeasOutcomes
<1>6. x \in MeasOf(n)
  BY <1>3, <1>4, <1>5 DEF MeasOf
<1>7. /\ x.value = <<>> /\ x.base = <<>> /\ x.rebuild = FALSE /\ x.outcome = "UNSET"
      /\ x.shown = <<>> /\ x.shownOutcome = "UNSET" /\ x.validators = all
  BY <1>3
<1> HIDE DEF x
<1>8. Judged(n, x)
  BY <1>2, <1>7 DEF Judged
<1>9. Cached(n, x)
  BY <1>4, <1>7 DEF Cached
<1>10. QED
  BY <1>5, <1>6, <1>8, <1>9 DEF x

LEMMA StartPhaseKeeps ==
    ASSUME IInv, StartPhase
    PROVE  IInv'
<1> DEFINE k == phase + 1
           e == FromDescriptor(k)
           f == [n \in Declared[k] |-> Measurement(n)]
           b == [body[k] EXCEPT !.pc = "run"]
<1>1. /\ epc = "next" /\ phase \in Nat /\ phase < Len(Declared) /\ Len(Declared) \in Nat
      /\ phase' = k /\ epc' = "running" /\ upd' = upd /\ recorded' = recorded
      /\ diagnoses' = diagnoses /\ store' = store /\ outcome' = outcome
      /\ state' = Append(state, e) /\ body' = [body EXCEPT ![k].pc = "run"]
  BY NamesAssumption DEF StartPhase, ThreadsUnchanged, IInv, ExecutorType, PhaseNumbers
<1>2. marginal' = marginal
  BY DEF StartPhase
<1>3. k \in Phases /\ k \in Nat /\ k - 1 = phase /\ k \notin 1..phase
      /\ \A q \in 1..k : q = k \/ q \in 1..phase
  BY <1>1 DEF Phases
<1>4. \A n \in Declared[k] : /\ f[n] \in MeasOf(n) /\ f[n] \in Meas
                             /\ Judged(n, f[n]) /\ Cached(n, f[n])
  BY <1>3, PhaseNames, NewMeasurement
<1>5. f \in MeasMap(k)
  BY <1>4 DEF MeasMap
<1> HIDE DEF f
<1>6. e = [m |-> f, result |-> "none", outcome |-> "none",
           marginal |-> FALSE, failures |-> {}, attachments |-> {}, sets |-> 0,
           zombie |-> FALSE]
  BY DEF FromDescriptor, f
<1>7. e \in PState(k) /\ e.m = f /\ e.failures = {} /\ e.outcome = "none"
  <2>1. {} \in SUBSET Diagnosis /\ {} \in SUBSET {"log"} /\ 0 \in Nat /\ FALSE \in BOOLEAN
    OBVIOUS
  <2> HIDE DEF e, k
  <2>2. QED
    BY <1>5, <1>6, <2>1 DEF PState
<1>8. e.zombie = FALSE /\ e.marginal = FALSE
  BY <1>6
<1> HIDE DEF e
<1>9. /\ state' \in Seq(PStates) /\ Len(state') = k /\ state'[k] = e
      /\ \A q \in 1..phase : state'[q] = state[q]
  <2>1. e \in PStates
    BY <1>3, <1>7 DEF PStates
  <2>2. state \in Seq(PStates) /\ Len(state) = phase
    BY DEF IInv, StateType
  <2>3. QED
    BY <1>1, <2>1, <2>2, AddSeq
<1>10. StateType'
  <2>1. ASSUME NEW q \in 1..k PROVE state'[q] \in PState(q)
    <3>1. CASE q = k
      BY <1>7, <1>9, <3>1
    <3>2. CASE q \in 1..phase
      BY <1>9, <3>2 DEF IInv, StateType
    <3>3. QED
      BY <1>3, <3>1, <3>2
  <2>2. QED
    BY <1>1, <1>9, <2>1 DEF StateType
<1>11. b \in Body /\ b.pc = "run" /\ body' = [body EXCEPT ![k] = b]
  <2>1. body[k] \in Body
    BY <1>3 DEF IInv, BodyType
  <2> HIDE DEF k
  <2>2. b \in Body /\ b.pc = "run"
    BY <2>1 DEF Body
  <2>3. body' = [body EXCEPT ![k] = b]
    BY <1>1
  <2>4. QED
    BY <2>2, <2>3
<1> HIDE DEF b
<1>12. /\ body' \in [Phases -> Body] /\ body'[k] = b
       /\ \A q \in Phases : q # k => body'[q] = body[q]
  BY <1>3, <1>11 DEF IInv, BodyType
<1>13. BodyType'
  <2>1. \A q \in Phases : BodyGood(q, body'[q])
    BY <1>11, <1>12 DEF IInv, BodyType, BodyGood
  <2>2. ASSUME NEW q \in Phases, q > k PROVE body'[q].pc = "off"
    <3>1. q # k /\ q > phase
      BY <1>1, <1>3, <2>2 DEF Phases
    <3>2. QED
      BY <1>12, <3>1 DEF IInv, BodyType
  <2>3. QED
    BY <1>1, <1>12, <2>1, <2>2 DEF IInv, BodyType
<1>14. ExecutorType'
  <2>1. ToSet(recorded) = 1..phase
    BY <1>1 DEF IInv, ExecutorType, InContext
  <2>2. InContext' /\ PhaseNumbers'
    BY <1>1, <1>3 DEF InContext, PhaseNumbers
  <2>3. QED
    BY <1>1, <1>2, <1>3, <2>1, <2>2 DEF IInv, ExecutorType
<1>15. PhaseInv'
  <2>1. \A n \in Declared[k] : MeasGood(n, f[n], b)
    BY <1>4, <1>11 DEF MeasGood
  <2>2. PhaseGood(k, e, b, "running")
    BY <1>7, <2>1 DEF PhaseGood
  <2>3. ASSUME NEW q \in 1..k PROVE PhaseGood(q, state'[q], body'[q], Stage(q)')
    <3>1. CASE q = k
      <4>1. Stage(q)' = "running"
        BY <1>1, <3>1 DEF Stage, InContext
      <4>2. state'[q] = e /\ body'[q] = b
        BY <1>9, <1>12, <3>1
      <4>3. QED
        BY <2>2, <3>1, <4>1, <4>2
    <3>2. CASE q \in 1..phase
      <4>1. Stage(q)' = "recorded" /\ Stage(q) = "recorded"
        BY <1>1, <1>3, <3>2 DEF Stage, InContext
      <4>2. q \in Phases /\ q # k
        BY <1>3, <3>2, ToPhase DEF IInv, ExecutorType
      <4>3. QED
        BY <1>9, <1>12, <3>2, <4>1, <4>2 DEF IInv, PhaseInv
    <3>3. QED
      BY <1>3, <3>1, <3>2
  <2>4. QED
    BY <1>1, <2>3 DEF PhaseInv
<1>16. FailInv'
  BY <1>1, <1>3, <1>7, <1>9 DEF IInv, FailInv, Failing
<1>17. TestInv'
  BY <1>1 DEF IInv, TestInv
<1>18. QED
  BY <1>10, <1>13, <1>14, <1>15, <1>16, <1>17 DEF IInv

LEMMA PhaseEndsKeeps ==
    ASSUME IInv, PhaseEnds
    PROVE  IInv'
<1> DEFINE s == state[phase]
<1>1. /\ epc = "running" /\ epc' = "measurements" /\ InContext
      /\ UNCHANGED <<upd, body, phase, recorded, diagnoses, store, outcome, marginal>>
  BY DEF PhaseEnds, ThreadsUnchanged, InContext
<1>2. /\ phase \in 1..phase /\ phase \in Phases /\ s \in PState(phase)
      /\ PhaseGood(phase, s, body[phase], "running")
      /\ \A d \in s.failures : d \in diagnoses /\ Failing(d)
      /\ diagnoses \subseteq store
  BY <1>1, InPhase
<1>3. CASE At(phase, "end") /\ UNCHANGED state
  <2>1. PhaseGood(phase, s, body[phase], "measurements")
    BY <1>2, <1>3 DEF PhaseGood, At
  <2>2. state' = [state EXCEPT ![phase] = s]
    BY <1>3 DEF IInv, StateType
  <2>3. QED
    BY <1>1, <1>2, <2>1, <2>2, ContextStep
<1>4. CASE ~At(phase, "end")
  <2> DEFINE e == [s EXCEPT !.result = "TIMEOUT", !.zombie = TRUE]
  <2>1. e \in PState(phase) /\ e.failures = s.failures
    BY <1>2 DEF PState
  <2>2. e.zombie = TRUE
    BY <1>2 DEF PState
  <2>3. state' = [state EXCEPT ![phase] = e]
    BY <1>4 DEF PhaseEnds
  <2> HIDE DEF e
  <2>4. PhaseGood(phase, e, body[phase], "measurements")
    BY <2>2 DEF PhaseGood
  <2>5. QED
    BY <1>1, <1>2, <2>1, <2>3, <2>4, ContextStep
<1>5. QED
  BY <1>3, <1>4 DEF PhaseEnds

LEMMA FinalizeMeasurementsKeeps ==
    ASSUME IInv, FinalizeMeasurements
    PROVE  IInv'
<1> DEFINE s == state[phase]
           raised == \E n \in DOMAIN s.m :
                        s.m[n].outcome = "PARTIALLY_SET" /\ Raises(s.m[n])
           r == IF raised /\ s.result \notin Terminal THEN "EXC" ELSE s.result
           e == Finalized(s, r)
<1>1. /\ epc = "measurements" /\ epc' = "outcome" /\ InContext
      /\ UNCHANGED <<upd, body, phase, recorded, diagnoses, store, outcome, marginal>>
  BY DEF FinalizeMeasurements, ThreadsUnchanged, InContext
<1>2. /\ phase \in 1..phase /\ s \in PState(phase)
      /\ PhaseGood(phase, s, body[phase], "measurements")
      /\ \A d \in s.failures : d \in diagnoses /\ Failing(d)
      /\ diagnoses \subseteq store
  BY <1>1, InPhase
<1>3. r \in PhaseResults
  BY <1>2 DEF PState, PhaseResults
<1>4. state' = [state EXCEPT ![phase] = e]
  BY DEF FinalizeMeasurements, Finalized
<1> HIDE DEF r
<1>5. /\ e \in PState(phase) /\ e.failures = s.failures
      /\ PhaseGood(phase, e, body[phase], "outcome")
  BY <1>2, <1>3, FinalizedGood
<1> HIDE DEF e
<1>6. QED
  BY <1>1, <1>2, <1>4, <1>5, ContextStep

LEMMA SetPrediagnosisOutcomeKeeps ==
    ASSUME IInv, SetPrediagnosisOutcome
    PROVE  IInv'
<1> DEFINE s == state[phase]
           o == PrediagnosisOutcome(s)
           stop == s.result = "CONTINUE" /\ o = "FAIL" /\ phase \in StopOnFail
           r == IF stop THEN "STOP" ELSE s.result
           mg == o = "PASS" /\ \E n \in DOMAIN s.m : s.m[n].marginal
           e == Predecided(s, r, mg)
<1>1. /\ epc = "outcome" /\ epc' = "diagnose" /\ InContext
      /\ UNCHANGED <<upd, body, phase, recorded, diagnoses, store, outcome, marginal>>
  BY DEF SetPrediagnosisOutcome, ThreadsUnchanged, InContext
<1>2. /\ phase \in 1..phase /\ s \in PState(phase)
      /\ PhaseGood(phase, s, body[phase], "outcome")
      /\ \A d \in s.failures : d \in diagnoses /\ Failing(d)
      /\ diagnoses \subseteq store
  BY <1>1, InPhase
<1>3. r \in PhaseResults /\ (r = s.result \/ r = "STOP")
  BY <1>2 DEF PState, PhaseResults
<1>4. mg \in BOOLEAN /\ (o = "PASS" => \A n \in DOMAIN s.m : s.m[n].marginal => mg)
  OBVIOUS
<1>5. state' = [state EXCEPT ![phase] = e]
  BY DEF SetPrediagnosisOutcome, Predecided
<1> HIDE DEF r, mg
<1>6. /\ e \in PState(phase) /\ e.failures = s.failures
      /\ PhaseGood(phase, e, body[phase], "diagnose")
  BY <1>2, <1>3, <1>4, PredecidedGood
<1> HIDE DEF e
<1>7. QED
  BY <1>1, <1>2, <1>5, <1>6, ContextStep

\* What fails a phase is in the record of the test: an internal diagnosis that would
\* fail it is refused.
LEMMA ExecutePhaseDiagnosersKeeps ==
    ASSUME IInv, ExecutePhaseDiagnosers
    PROVE  IInv'
<1> DEFINE s == state[phase]
<1>1. /\ epc = "diagnose" /\ epc' = "record" /\ InContext
      /\ UNCHANGED <<upd, body, phase, recorded, outcome, marginal>>
  BY DEF ExecutePhaseDiagnosers, ThreadsUnchanged, InContext
<1>2. /\ phase \in 1..phase /\ s \in PState(phase)
      /\ PhaseGood(phase, s, body[phase], "diagnose")
      /\ \A d \in s.failures : d \in diagnoses /\ Failing(d)
      /\ diagnoses \subseteq store
  BY <1>1, InPhase
<1>3. PICK ret \in {<<>>} \cup Returns :
        LET added == Yielded(ret)
            raised == \E i \in DOMAIN ret : Refused(ret[i])
        IN  /\ state' = [state EXCEPT
                  ![phase].failures = @ \cup {d \in added : Failing(d)},
                  ![phase].result = IF raised /\ @ \notin Terminal THEN "EXC" ELSE @]
            /\ diagnoses' = diagnoses \cup {d \in added : InTestRecord(d)}
            /\ store' = store \cup added
  BY DEF ExecutePhaseDiagnosers
<1> DEFINE added == Yielded(ret)
           raised == \E i \in DOMAIN ret : Refused(ret[i])
           fails == s.failures \cup {d \in added : Failing(d)}
           r == IF raised /\ s.result \notin Terminal THEN "EXC" ELSE s.result
           e == Diagnosed(s, fails, r)
<1>4. ret \in Seq(Diagnosis)
  <2>1. <<>> \in Seq(Diagnosis)
    OBVIOUS
  <2>2. Returns \subseteq Seq(Diagnosis)
    BY NamesAssumption DEF Diagnosis
  <2>3. QED
    BY <2>1, <2>2
<1>5. added \subseteq Diagnosis /\ \A d \in added : ~Refused(d)
  BY <1>4 DEF Yielded
<1>6. r \in PhaseResults /\ (r = s.result \/ r = "EXC")
  BY <1>2 DEF PState, PhaseResults
<1>7. state' = [state EXCEPT ![phase] = e]
  BY <1>3 DEF Diagnosed
<1>8. diagnoses' = diagnoses \cup {d \in added : InTestRecord(d)} /\ store' = store \cup added
  BY <1>3
<1> HIDE DEF added, r
<1>9. fails \in SUBSET Diagnosis
  BY <1>2, <1>5 DEF PState
<1>10. \A d \in fails : d \in diagnoses' /\ Failing(d)
  BY <1>2, <1>5, <1>8 DEF Failing, Refused, InTestRecord
<1> HIDE DEF fails
<1>11. /\ e \in PState(phase) /\ e.failures = fails
       /\ PhaseGood(phase, e, body[phase], "record")
  <2> DEFINE ph == phase  bd == body[phase]
  <2>1. s \in PState(ph) /\ PhaseGood(ph, s, bd, "diagnose")
    BY <1>2
  <2> HIDE DEF s, ph, bd
  <2>2. /\ e \in PState(ph) /\ e.failures = fails /\ PhaseGood(ph, e, bd, "record")
    BY <2>1, <1>6, <1>9, DiagnosedGood
  <2>3. QED
    BY <2>2 DEF ph, bd
<1> HIDE DEF e
<1>12. diagnoses \subseteq diagnoses' /\ diagnoses' \subseteq store'
  BY <1>2, <1>8
<1>13. QED
  BY <1>1, <1>7, <1>10, <1>11, <1>12, ContextStep

LEMMA RecordPhaseKeeps ==
    ASSUME IInv, RecordPhase
    PROVE  IInv'
<1> DEFINE s == state[phase]
           e == Closed(s)
<1>1. /\ epc = "record" /\ epc' = "next" /\ InContext /\ recorded' = Append(recorded, phase)
      /\ UNCHANGED <<upd, body, phase, diagnoses, store, outcome, marginal>>
  BY DEF RecordPhase, ThreadsUnchanged, InContext
<1>2. /\ phase \in 1..phase /\ s \in PState(phase)
      /\ PhaseGood(phase, s, body[phase], "record")
      /\ \A d \in s.failures : d \in diagnoses /\ Failing(d)
      /\ diagnoses \subseteq store
  BY <1>1, InPhase
<1>3. state' = [state EXCEPT ![phase] = e]
  BY DEF RecordPhase, Closed
<1>4. /\ e \in PState(phase) /\ e.failures = s.failures
      /\ PhaseGood(phase, e, body[phase], "recorded")
  BY <1>2, ClosedGood
<1> HIDE DEF e
<1>5. QED
  BY <1>1, <1>2, <1>3, <1>4, ContextStep

LEMMA FinalizeTestKeeps ==
    ASSUME IInv, FinalizeTest
    PROVE  IInv'
<1>1. /\ epc = "next" /\ epc' = "done"
      /\ outcome' = IF Ended THEN EarlyOutcome(state[phase].result) ELSE NormalOutcome
      /\ state' = state /\ body' = body /\ upd' = upd /\ phase' = phase
      /\ recorded' = recorded /\ diagnoses' = diagnoses /\ store' = store
  BY DEF FinalizeTest, ThreadsUnchanged
<1>2. marginal' = (outcome' = "PASS" /\ \E p \in ToSet(recorded) : state[p].marginal)
  BY DEF FinalizeTest
<1>3. StateType' /\ BodyType' /\ FailInv'
  BY <1>1 DEF IInv, StateType, BodyType, FailInv, Failing
<1>4. outcome' \in {"PASS", "FAIL", "ERROR", "TIMEOUT", "ABORTED"}
      /\ (outcome' = "PASS" => ~Ended /\ NormalOutcome = "PASS")
  BY <1>1 DEF EarlyOutcome, NormalOutcome
<1>5. marginal' \in BOOLEAN
  BY <1>2
<1>6. ToSet(recorded) = 1..phase /\ ~InContext /\ ~InContext'
  BY <1>1 DEF IInv, ExecutorType, InContext
<1>7. ExecutorType'
  BY <1>1, <1>4, <1>5, <1>6 DEF IInv, ExecutorType, PhaseNumbers
<1>8. PhaseInv'
  BY <1>1, <1>6 DEF IInv, PhaseInv, Stage
<1>9. ASSUME outcome' = "PASS"
      PROVE  /\ \A d \in diagnoses' : ~Failing(d)
             /\ \A p \in 1..phase : state[p].outcome # "FAIL" /\ (state[p].marginal => marginal')
  <2>1. /\ "FAIL" \notin {state[p].outcome : p \in ToSet(recorded)}
        /\ ~ \E d \in diagnoses : Failing(d)
    BY <1>4, <1>9 DEF NormalOutcome
  <2>2. \A p \in 1..phase : state[p].marginal => marginal'
    BY <1>2, <1>6, <1>9
  <2>3. QED
    BY <1>1, <1>6, <2>1, <2>2
<1>10. TestInv'
  BY <1>1, <1>9 DEF TestInv, Failing
<1>11. QED
  BY <1>3, <1>7, <1>8, <1>10 DEF IInv

-----------------------------------------------------------------------------
(* The theorems. *)

LEMMA InitKeeps ==
    ASSUME Init
    PROVE  IInv
<1>1. /\ state = <<>> /\ upd = [p \in Phases |-> <<{}>>]
      /\ body = [p \in Phases |-> [pc |-> "off", name |-> "none", ref |-> 0, coord |-> "none"]]
      /\ epc = "next" /\ phase = 0 /\ recorded = <<>>
      /\ diagnoses = {} /\ store = {} /\ outcome = "none" /\ marginal = FALSE
  BY DEF Init
<1>2. 1..phase = {}
  BY <1>1
<1>3. StateType
  <2>1. <<>> \in Seq(PStates) /\ Len(<<>>) = 0
    OBVIOUS
  <2>2. QED
    BY <1>1, <1>2, <2>1 DEF StateType
<1>4. BodyType
  <2>1. <<{}>> \in Seq(SUBSET (Names \cup {"none"}))
    OBVIOUS
  <2>2. [pc |-> "off", name |-> "none", ref |-> 0, coord |-> "none"] \in Body
    BY DEF Body
  <2>3. QED
    BY <1>1, <2>1, <2>2 DEF BodyType, BodyGood
<1>5. ExecutorType
  <2>1. recorded \in Seq(Nat) /\ ToSet(recorded) = {}
    BY <1>1 DEF ToSet
  <2>2. ~InContext /\ PhaseNumbers
    BY <1>1, NamesAssumption DEF InContext, PhaseNumbers
  <2>3. QED
    BY <1>1, <1>2, <2>1, <2>2 DEF ExecutorType
<1>6. PhaseInv /\ FailInv
  BY <1>2 DEF PhaseInv, FailInv
<1>7. TestInv
  BY <1>1 DEF TestInv
<1>8. QED
  BY <1>3, <1>4, <1>5, <1>6, <1>7 DEF IInv

LEMMA NextKeeps ==
    ASSUME IInv, [Next]_vars
    PROVE  IInv'
<1>1. CASE UNCHANGED vars
  <2>1. UNCHANGED <<state, body>> /\ upd' = upd /\ ExecutorUnchanged
    BY <1>1 DEF vars, ExecutorUnchanged
  <2>2. QED
    BY <2>1, UpdType, ReaderKeeps
<1>2. CASE \E p \in Phases : BodyStep(p)
  <2>1. PICK p \in Phases : BodyStep(p)
    BY <1>2
  <2>2. CASE \E n \in Names, v \in Values : SetItem(p, n, v)
    BY <2>2, SetItemKeeps
  <2>3. CASE \E n \in Names, c \in Coords, v \in Values : SetDimensioned(p, n, c, v)
    BY <2>3, SetDimensionedKeeps
  <2>4. CASE \E n \in Names : SkipMeasurement(p, n)
    BY <2>4, SkipMeasurementKeeps
  <2>5. CASE Attach(p, "log")
    BY <2>5, AttachKeeps
  <2>6. CASE StoreDimensioned(p)
    BY <2>6, StoreDimensionedKeeps
  <2>7. CASE NotifyLoad(p)
    BY <2>7, NotifyLoadKeeps
  <2>8. CASE NotifyAdd(p)
    BY <2>8, NotifyAddKeeps
  <2>9. CASE BodyEnds(p)
    BY <2>9, BodyEndsKeeps
  <2>10. QED
    BY <2>1, <2>2, <2>3, <2>4, <2>5, <2>6, <2>7, <2>8, <2>9 DEF BodyStep
<1>3. CASE ReaderStep
  <2>1. CASE ReadLoad
    <3>1. UNCHANGED <<state, body>> /\ upd' = upd /\ ExecutorUnchanged
      BY <2>1 DEF ReadLoad
    <3>2. QED
      BY <3>1, UpdType, ReaderKeeps
  <2>2. CASE ReadSwap
    BY <2>2, ReadSwapKeeps
  <2>3. CASE ReadEach
    BY <2>3, ReadEachKeeps
  <2>4. QED
    BY <1>3, <2>1, <2>2, <2>3 DEF ReaderStep
<1>4. CASE ExecutorStep
  <2>1. CASE StartPhase
    BY <2>1, StartPhaseKeeps
  <2>2. CASE PhaseEnds
    BY <2>2, PhaseEndsKeeps
  <2>3. CASE FinalizeMeasurements
    BY <2>3, FinalizeMeasurementsKeeps
  <2>4. CASE SetPrediagnosisOutcome
    BY <2>4, SetPrediagnosisOutcomeKeeps
  <2>5. CASE ExecutePhaseDiagnosers
    BY <2>5, ExecutePhaseDiagnosersKeeps
  <2>6. CASE RecordPhase
    BY <2>6, RecordPhaseKeeps
  <2>7. CASE FinalizeTest
    BY <2>7, FinalizeTestKeeps
  <2>8. QED
    BY <1>4, <2>1, <2>2, <2>3, <2>4, <2>5, <2>6, <2>7 DEF ExecutorStep
<1>5. CASE Finished
  BY <1>1, <1>5 DEF Finished
<1>6. QED
  BY <1>1, <1>2, <1>3, <1>4, <1>5 DEF Next

LEMMA Invariance == Spec => []IInv
<1>1. Init => IInv
  BY InitKeeps
<1>2. IInv /\ [Next]_vars => IInv'
  BY NextKeeps
<1>3. QED
  BY <1>1, <1>2, PTL DEF Spec

\* What a final phase has.
LEMMA FinalFacts ==
    ASSUME IInv, NEW p \in Phases, Final(p)
    PROVE  /\ p \in 1..phase /\ (InContext => p # phase)
           /\ state[p] \in PState(p) /\ body[p].pc = "end"
           /\ Decided(state[p]) /\ Recorded(state[p])
           /\ \A n \in Declared[p] :
                /\ state[p].m[n] \in Meas /\ Judged(n, state[p].m[n])
                /\ Cached(n, state[p].m[n]) /\ Converted(state[p].m[n])
                /\ state[p].m[n].outcome # "PARTIALLY_SET"
<1>1. p \in 1..phase /\ (InContext => p # phase)
  BY DEF Final, IInv, ExecutorType, PhaseNumbers
<1>2. Stage(p) = "recorded"
  BY <1>1 DEF Stage
<1>3. state[p] \in PState(p) /\ PhaseGood(p, state[p], body[p], "recorded")
  BY <1>1, <1>2 DEF IInv, StateType, PhaseInv
<1>4. state[p].zombie = FALSE
  BY <1>3 DEF Final, PState
<1>5. /\ body[p].pc = "end" /\ Decided(state[p]) /\ Recorded(state[p])
      /\ \A n \in Declared[p] : /\ MeasGood(n, state[p].m[n], body[p])
                                /\ state[p].m[n].outcome # "PARTIALLY_SET"
  BY <1>3, <1>4 DEF PhaseGood
<1>6. /\ DOMAIN state[p].m = Declared[p]
      /\ \A n \in Declared[p] : state[p].m[n] \in Meas
  BY <1>3, MapFacts
<1>7. \A n \in Declared[p] : Judged(n, state[p].m[n]) /\ Cached(n, state[p].m[n])
  BY <1>5 DEF MeasGood
<1>8. \A n \in Declared[p] : Converted(state[p].m[n])
  BY <1>5, <1>6 DEF Recorded
<1>9. QED
  BY <1>1, <1>3, <1>5, <1>6, <1>7, <1>8

\* A judgement passes when the values meet every validator.
LEMMA JudgementMeets ==
    ASSUME NEW x \in Meas, x.value # <<>>
    PROVE  Judgement(x) = "pass" <=> \A v \in ToSet(x.validators) : Meets(v, ValuesOf(x))
<1> DEFINE vs == ValuesOf(x)
           calls == [i \in DOMAIN x.validators |-> Call(x.validators[i], vs)]
           V == {calls[i] : i \in DOMAIN x.validators}
<1>1. /\ x.value \in Seq(Row) /\ DOMAIN x.value = 1..Len(x.value) /\ Len(x.value) \in Nat
      /\ x.validators \in Seq(AnyValidator) /\ Len(x.validators) \in Nat
      /\ DOMAIN x.validators = 1..Len(x.validators)
  BY DEF Meas
<1>2. vs \in Seq(MeasuredValues) /\ vs # <<>>
  <2>1. \A i \in 1..Len(x.value) : x.value[i][2] \in MeasuredValues
    <3>1. \A r \in Row : r[2] \in MeasuredValues
      BY NamesAssumption DEF Row
    <3>2. QED
      BY <1>1, <3>1
  <2>2. vs = [i \in 1..Len(x.value) |-> x.value[i][2]]
    BY <1>1 DEF ValuesOf
  <2>3. vs \in [1..Len(x.value) -> MeasuredValues]
    BY <2>1, <2>2
  <2>4. vs \in Seq(MeasuredValues) /\ DOMAIN vs = 1..Len(x.value)
    BY <1>1, <2>3
  <2>5. 1..Len(x.value) # {}
    <3>1. ASSUME NEW S, NEW s \in Seq(S), s # <<>> PROVE Len(s) \in Nat \ {0}
      BY <3>1
    <3>2. Len(x.value) \in Nat \ {0}
      BY <1>1, <3>1
    <3>3. 1 \in 1..Len(x.value)
      BY <3>2
    <3>4. QED
      BY <3>3
  <2>6. QED
    BY <2>4, <2>5
<1> HIDE DEF vs
<1>3. calls \in Seq(V) /\ Len(calls) = Len(x.validators)
  <2>1. calls \in [1..Len(x.validators) -> V]
    BY <1>1
  <2> HIDE DEF V, calls
  <2>2. QED
    BY <1>1, <2>1
<1>4. All(calls) = "pass" <=> \A i \in 1..Len(calls) : calls[i] = "pass"
  <2> HIDE DEF V, calls
  <2>1. QED
    BY <1>3, AllPass
<1>5. \A i \in 1..Len(x.validators) :
        calls[i] = "pass" <=> Meets(x.validators[i], vs)
  <2>1. ASSUME NEW i \in 1..Len(x.validators)
        PROVE  Call(x.validators[i], vs) = "pass" <=> Meets(x.validators[i], vs)
    <3>1. x.validators[i] \in ScalarValidators \cup PivotValidators
      BY <1>1 DEF AnyValidator
    <3>2. QED
      BY <3>1, <1>2, CallsMeet
  <2>2. QED
    BY <1>1, <2>1
<1>6. Judgement(x) = All(calls)
  BY DEF Judgement, vs
<1> HIDE DEF calls
<1>7. ToSet(x.validators) = {x.validators[i] : i \in 1..Len(x.validators)}
  BY <1>1 DEF ToSet
<1>8. QED
  BY <1>3, <1>4, <1>5, <1>6, <1>7 DEF vs

ZeroMargin(v) == v.kind = "within_percent" /\ v.marginal = <<0>>

\* Only WithinPercent with a marginal_percent of 0 raises when asked for marginality.
LEMMA NoRaise ==
    ASSUME NEW x \in Meas, \A v \in ToSet(x.validators) : ~ZeroMargin(v)
    PROVE  Marginality(x) # "raise"
<1> DEFINE each == [i \in DOMAIN x.validators |-> IsMarginal(x.validators[i], ValuesOf(x))]
           I == {i \in 1..Len(each) : each[i] # "fail"}
<1>1. /\ x.validators \in Seq(AnyValidator) /\ Len(x.validators) \in Nat
      /\ DOMAIN x.validators = 1..Len(x.validators)
  BY DEF Meas
<1>2. ASSUME NEW v \in ToSet(x.validators) PROVE IsMarginal(v, ValuesOf(x)) # "raise"
  <2>1. v \in AnyValidator
    BY <1>1 DEF ToSet
  <2>2. ASSUME NEW b PROVE Verdict(b) # "raise"
    BY DEF Verdict
  <2>3. CASE IsPivot(v)
    BY <2>3 DEF IsMarginal, IsPivot
  <2>4. CASE ~IsPivot(v) /\ v.kind = "in_range"
    BY <2>2, <2>4 DEF IsMarginal, IsPivot, InRangeMarginal
  <2>5. CASE ~IsPivot(v) /\ v.kind # "in_range"
    <3>1. v.kind = "within_percent"
      BY <2>1, <2>5 DEF AnyValidator, ScalarValidators, PivotValidators, IsPivot
    <3>2. v.marginal # <<0>>
      BY <3>1 DEF ZeroMargin
    <3>3. QED
      BY <2>2, <2>5, <3>2 DEF IsMarginal, IsPivot, WithinPercentMarginal
  <2>6. QED
    BY <2>3, <2>4, <2>5
<1>3. \A i \in DOMAIN x.validators : each[i] # "raise"
  BY <1>2 DEF ToSet
<1>4. Len(each) = Len(x.validators)
  BY <1>1
<1>5. Marginality(x) = IF (IF I # {} THEN Min(I) ELSE 0) = 0 THEN "fail"
                       ELSE each[IF I # {} THEN Min(I) ELSE 0]
  BY DEF Marginality, SelectInSeq
<1> HIDE DEF each
<1>6. I \in SUBSET Nat /\ (I # {} => Min(I) \in I)
  <2>1. I \in SUBSET Nat
    BY <1>1, <1>4
  <2> HIDE DEF I
  <2>2. QED
    BY <2>1, NatMin
<1>7. QED
  BY <1>1, <1>3, <1>4, <1>5, <1>6

(* Types: the phases' states are in the order the phases were started in, only a
   dimensioned measurement is ever PARTIALLY_SET, a scalar one has one value, and what
   the test records of diagnoses is in the store. *)
THEOREM TypeCorrect == Spec => []TypeOK
<1>1. IInv => TypeOK
  <2>1. SUFFICES ASSUME IInv PROVE TypeOK
    OBVIOUS
  <2>2. Len(state) = phase /\ phase \in 0..Len(Declared)
    BY <2>1, NamesAssumption DEF IInv, StateType, ExecutorType, PhaseNumbers
  <2>3. ASSUME NEW p \in 1..phase, NEW n \in Declared[p]
        PROVE  /\ state[p].m[n].outcome \in MeasOutcomes
               /\ n \notin Dimensioned => state[p].m[n].outcome # "PARTIALLY_SET"
                                          /\ Len(state[p].m[n].value) <= 1
    <3>1. state[p] \in PState(p)
      BY <2>1 DEF IInv, StateType
    <3>2. state[p].m[n] \in Meas /\ state[p].m[n] \in MeasOf(n)
      BY <3>1, MapFacts
    <3>3. QED
      BY <3>2 DEF Meas, MeasOf
  <2>4. QED
    BY <2>1, <2>2, <2>3 DEF TypeOK, IInv, StateType, ExecutorType, MeasOutcomes
<1>2. QED
  BY <1>1, Invariance, PTL

\* No validator's marginality is undecidable: WithinPercent takes a marginal_percent of 0
\* and raises a TypeError when a value passes.
NoZeroMargin ==
    \A n \in Names : \A v \in ToSet(ValidatorsOf[n]) \cup ToSet(Conditional[n]) :
        ~ZeroMargin(v)

ShownVerdict(x) ==
    IF x.value = <<>> THEN x.outcome \in {"UNSET", "SKIPPED"}
    ELSE x.outcome = IF \A v \in ToSet(x.validators) : Meets(v, ValuesOf(x))
                       THEN "PASS" ELSE "FAIL"

(* PhaseState._finalize_measurements and Measurement.validate: in the record of a phase
   each outcome is the validators' verdict on the values in the record, whatever was
   set, overridden and skipped, and whenever a validator was added. *)
THEOREM VerdictsHold == NoZeroMargin => (Spec => []MeasurementsJudged)
<1> SUFFICES ASSUME NoZeroMargin PROVE Spec => []MeasurementsJudged
  OBVIOUS
<1>1. IInv => MeasurementsJudged
  <2>1. SUFFICES ASSUME IInv, NEW p \in Phases, Final(p), NEW n \in Declared[p]
                 PROVE  ShownVerdict(state[p].m[n])
    BY DEF MeasurementsJudged, ShownVerdict
  <2> DEFINE x == state[p].m[n]
  <2>2. x \in Meas /\ Judged(n, x) /\ x.outcome # "PARTIALLY_SET" /\ n \in Names
    BY <2>1, FinalFacts, PhaseNames
  <2> HIDE DEF x
  <2>3. CASE x.value = <<>>
    BY <2>2, <2>3 DEF Judged, ShownVerdict, x
  <2>4. CASE x.value # <<>>
    <3>1. x.outcome \in {"PASS", "FAIL"} /\ x.outcome = OutcomeOf(x)
      BY <2>2, <2>4 DEF Judged
    <3>2. Judgement(x) = "pass" <=> \A v \in ToSet(x.validators) : Meets(v, ValuesOf(x))
      BY <2>2, <2>4, JudgementMeets
    <3>3. \A v \in ToSet(x.validators) : ~ZeroMargin(v)
      BY <2>1, <2>2 DEF Judged, Declares, NoZeroMargin
    <3>4. Marginality(x) # "raise"
      BY <2>2, <3>3, NoRaise
    <3>5. Passes(x) <=> Judgement(x) = "pass"
      BY <3>4 DEF Passes, Raises
    <3>6. x.outcome = IF \A v \in ToSet(x.validators) : Meets(v, ValuesOf(x))
                        THEN "PASS" ELSE "FAIL"
      BY <3>1, <3>2, <3>5 DEF OutcomeOf
    <3>7. QED
      BY <2>4, <3>6 DEF ShownVerdict, x
  <2>5. QED
    BY <2>3, <2>4
<1>2. QED
  BY <1>1, Invariance, PTL

(* TestState.finalize_normally: a PASS is earned by measurements that have a value and
   meet every validator, or that were excused, with no failing diagnosis; and it is
   marginal when one of these values is. *)
THEOREM PassesAreMeasured == Spec => []PassIsMeasured
<1>1. IInv => PassIsMeasured
  <2>1. SUFFICES ASSUME IInv, outcome = "PASS", NEW p \in Phases, Final(p),
                        state[p].result = "CONTINUE"
                 PROVE  /\ state[p].failures = {}
                        /\ \A n \in Declared[p] :
                             LET x == state[p].m[n]
                             IN  \/ n \in AllowFail
                                 \/ x.value = <<>> /\ (AllowUnset \/ x.outcome = "SKIPPED")
                                 \/ /\ x.value # <<>>
                                    /\ \A v \in ToSet(ValidatorsOf[n]) : Meets(v, ValuesOf(x))
                                    /\ Marginality(x) = "pass" => marginal
    BY DEF PassIsMeasured
  <2> DEFINE s == state[p]
  <2>2. /\ p \in 1..phase /\ s \in PState(p) /\ Decided(s) /\ Recorded(s)
        /\ \A n \in Declared[p] : s.m[n] \in Meas /\ Judged(n, s.m[n])
    BY <2>1, FinalFacts
  <2>3. s.outcome # "FAIL" /\ (s.marginal => marginal)
    BY <2>1, <2>2 DEF IInv, TestInv
  <2>4. s.outcome = "PASS" /\ MeasurementsPass(s.m)
    BY <2>1, <2>2, <2>3 DEF Decided
  <2>5. DOMAIN s.m = Declared[p]
    BY <2>2, MapFacts
  <2>6. \A n \in Declared[p] : s.m[n].marginal => marginal
    BY <2>2, <2>3, <2>4, <2>5 DEF Decided
  <2>7. ASSUME NEW n \in Declared[p], n \notin AllowFail
        PROVE  LET x == s.m[n]
               IN  \/ x.value = <<>> /\ (AllowUnset \/ x.outcome = "SKIPPED")
                   \/ /\ x.value # <<>>
                      /\ \A v \in ToSet(ValidatorsOf[n]) : Meets(v, ValuesOf(x))
                      /\ Marginality(x) = "pass" => marginal
    <3> DEFINE x == s.m[n]
    <3>1. \/ x.outcome \in {"PASS", "SKIPPED"}
          \/ x.outcome = "UNSET" /\ AllowUnset
      BY <2>4, <2>5, <2>7 DEF MeasurementsPass
    <3>2. x \in Meas /\ Judged(n, x) /\ (x.marginal => marginal)
      BY <2>2, <2>6
    <3> HIDE DEF x
    <3>3. CASE x.value = <<>>
      <4>1. AllowUnset \/ x.outcome = "SKIPPED"
        BY <3>1, <3>2, <3>3 DEF Judged
      <4>2. QED
        BY <3>3, <4>1 DEF x
    <3>4. CASE x.value # <<>>
      <4>1. x.outcome = "PASS" /\ OutcomeOf(x) = "PASS"
        BY <3>1, <3>2, <3>4 DEF Judged
      <4>2. Judgement(x) = "pass"
        BY <4>1 DEF OutcomeOf, Passes
      <4>3. \A v \in ToSet(ValidatorsOf[n]) : Meets(v, ValuesOf(x))
        BY <3>2, <3>4, <4>2, JudgementMeets DEF Judged, Declares
      <4>4. Marginality(x) = "pass" => marginal
        BY <3>2, <4>1 DEF Judged
      <4>5. QED
        BY <3>4, <4>3, <4>4 DEF x
    <3>5. QED
      BY <3>3, <3>4
  <2>8. s.failures = {}
    BY <2>2, <2>4 DEF Recorded
  <2>9. QED
    BY <2>7, <2>8
<1>2. QED
  BY <1>1, Invariance, PTL

(* Measurement.as_base_types and the cache of DimensionedMeasuredValue: the record shows
   the outcome, rows that were measured, and all of them unless a coordinate was set
   twice, with a reader that converts at any time. *)
THEOREM RecordIsComplete == Spec => []RecordShowsValues
<1>1. IInv => RecordShowsValues
  <2>1. SUFFICES ASSUME IInv, NEW p \in Phases, Final(p), NEW n \in Declared[p]
                 PROVE  LET x == state[p].m[n]
                        IN  /\ x.outcome # "SKIPPED" => x.shownOutcome = x.outcome
                            /\ \A i \in DOMAIN x.shown : \E j \in DOMAIN x.value :
                                 ShowsRow(n, x, x.shown[i], x.value[j])
                            /\ x.overridden = {} =>
                                 /\ Len(x.shown) = Len(x.value)
                                 /\ \A i \in DOMAIN x.value :
                                      ShowsRow(n, x, x.shown[i], x.value[i])
    BY DEF RecordShowsValues
  <2> DEFINE x == state[p].m[n]
  <2>2. /\ x \in Meas /\ Judged(n, x) /\ Cached(n, x) /\ Converted(x)
        /\ x.outcome # "PARTIALLY_SET"
    BY <2>1, FinalFacts
  <2> HIDE DEF x
  <2>3. x.outcome # "SKIPPED" => x.shownOutcome = x.outcome
    BY <2>2 DEF Judged, Meas, MeasOutcomes
  <2>4. CASE x.value = <<>>
    <3>1. x.shown = <<>>
      BY <2>2, <2>4 DEF Judged
    <3>2. QED
      BY <2>3, <2>4, <3>1 DEF x
  <2>5. CASE x.value # <<>>
    <3>1. x.shown = x.base
      BY <2>2, <2>5 DEF Converted
    <3>2. QED
      BY <2>2, <2>3, <3>1 DEF Cached, x
  <2>6. QED
    BY <2>4, <2>5
<1>2. QED
  BY <1>1, Invariance, PTL

(* DiagnosesManager.execute_phase_diagnoser and PhaseState.finalize: a failure that a
   diagnoser found is in the test's record and in the store, and keeps the test from
   passing; a phase that ended with an error is an ERROR in the record. *)
THEOREM NoFailureIsLost == Spec => []FailuresReported
<1>1. IInv => FailuresReported
  <2>1. SUFFICES ASSUME IInv, NEW p \in Phases, Final(p)
                 PROVE  /\ state[p].failures \subseteq diagnoses \cap store
                        /\ state[p].failures # {} => outcome # "PASS"
                        /\ state[p].result \in EndsTest => state[p].outcome = "ERROR"
    BY DEF FailuresReported
  <2>2. p \in 1..phase /\ Recorded(state[p])
    BY <2>1, FinalFacts
  <2>3. \A d \in state[p].failures : d \in diagnoses /\ d \in store /\ Failing(d)
    BY <2>1, <2>2 DEF IInv, FailInv, ExecutorType
  <2>4. outcome = "PASS" => \A d \in diagnoses : ~Failing(d)
    BY <2>1 DEF IInv, TestInv
  <2>5. state[p].result \in EndsTest => state[p].outcome = "ERROR"
    BY <2>2 DEF Recorded
  <2>6. QED
    BY <2>3, <2>4, <2>5
<1>2. QED
  BY <1>1, Invariance, PTL

\* A step changes the state of the phase its body or its reader is at, or of the phase
\* that runs.
LEMMA FrozenStep ==
    ASSUME IInv, [Next]_vars, NEW p \in Phases, Final(p)
    PROVE  state'[p] = state[p]
<1>1. /\ p \in 1..phase /\ (InContext => p # phase) /\ state[p] \in PState(p)
      /\ body[p].pc = "end" /\ Recorded(state[p])
  BY FinalFacts
<1>2. state \in Seq(PStates) /\ Len(state) = phase
  BY DEF IInv, StateType
<1>3. CASE \E q \in Phases : BodyStep(q)
  <2>1. PICK q \in Phases : BodyStep(q)
    BY <1>3
  <2>2. CASE \E n \in Names, v \in Values : SetItem(q, n, v)
    BY <1>1, <1>2, <2>2 DEF SetItem, CanSet, At, PutMeas
  <2>3. CASE \E n \in Names, c \in Coords, v \in Values : SetDimensioned(q, n, c, v)
    BY <1>1, <1>2, <2>3 DEF SetDimensioned, CanSet, At, PutMeas
  <2>4. CASE \E n \in Names : SkipMeasurement(q, n)
    BY <1>1, <1>2, <2>4 DEF SkipMeasurement, CanSet, At, PutMeas
  <2>5. CASE Attach(q, "log")
    BY <1>1, <1>2, <2>5 DEF Attach, CanSet, At
  <2>6. CASE StoreDimensioned(q)
    BY <1>1, <1>2, <2>6 DEF StoreDimensioned, At
  <2>7. CASE NotifyLoad(q) \/ NotifyAdd(q)
    BY <2>7 DEF NotifyLoad, NotifyAdd
  <2>8. CASE BodyEnds(q)
    BY <1>1, <1>2, <2>8 DEF BodyEnds, At
  <2>9. QED
    BY <2>1, <2>2, <2>3, <2>4, <2>5, <2>6, <2>7, <2>8 DEF BodyStep
<1>4. CASE ReaderStep
  <2>1. CASE state' = state
    BY <2>1
  <2>2. CASE state' # state
    <3>1. PICK n : state' = [state EXCEPT ![reader.phase].m[n] = AsBaseTypes(@)]
      BY <1>4, <2>2 DEF ReaderStep, ReadLoad, ReadSwap, ReadEach
    <3> DEFINE r == reader.phase
               s == state[r]
               f == [s.m EXCEPT ![n] = AsBaseTypes(s.m[n])]
               e == PutMap(s, f, s.sets)
    <3>2. /\ r \in 1..phase /\ r \in Phases /\ n \in Declared[r]
          /\ state' = [state EXCEPT ![r] = e]
      BY <2>2, <3>1, ReadChanges
    <3>3. s \in PState(r)
      BY <3>2 DEF IInv, StateType
    <3>4. CASE r = p
      <4>1. s.zombie = FALSE /\ Recorded(s)
        BY <1>1, <3>4 DEF Final, PState
      <4>2. e = s
        BY <3>2, <3>3, <4>1, ReadGood
      <4> HIDE DEF e
      <4>3. QED
        BY <1>1, <1>2, <3>2, <3>4, <4>2
    <3>5. CASE r # p
      <4> HIDE DEF e
      <4>1. QED
        BY <1>1, <1>2, <3>2, <3>5
    <3>6. QED
      BY <3>4, <3>5
  <2>3. QED
    BY <2>1, <2>2
<1>5. CASE ExecutorStep
  <2>1. CASE StartPhase
    <3> DEFINE e == FromDescriptor(phase + 1)
    <3>1. state' = Append(state, e)
      BY <2>1 DEF StartPhase
    <3> HIDE DEF e
    <3>2. QED
      BY <1>1, <1>2, <3>1
  <2>2. CASE PhaseEnds
    BY <1>1, <1>2, <2>2 DEF PhaseEnds, InContext
  <2>3. CASE FinalizeMeasurements
    BY <1>1, <1>2, <2>3 DEF FinalizeMeasurements, InContext
  <2>4. CASE SetPrediagnosisOutcome
    BY <1>1, <1>2, <2>4 DEF SetPrediagnosisOutcome, InContext
  <2>5. CASE ExecutePhaseDiagnosers
    BY <1>1, <1>2, <2>5 DEF ExecutePhaseDiagnosers, InContext
  <2>6. CASE RecordPhase
    BY <1>1, <1>2, <2>6 DEF RecordPhase, InContext
  <2>7. CASE FinalizeTest
    BY <2>7 DEF FinalizeTest
  <2>8. QED
    BY <1>5, <2>1, <2>2, <2>3, <2>4, <2>5, <2>6, <2>7 DEF ExecutorStep
<1>6. CASE UNCHANGED vars \/ Finished
  BY <1>6 DEF Finished, vars
<1>7. QED
  BY <1>3, <1>4, <1>5, <1>6 DEF Next

(* PhaseRecord: once a phase is in the record and no body of it is left, no step of any
   thread changes it, also not a reader that is still converting its measurements. *)
THEOREM RecordsStayFrozen == Spec => RecordsFrozen
<1>1. IInv /\ [Next]_vars => [\A p \in Phases : Final(p) => state'[p] = state[p]]_vars
  BY FrozenStep
<1>2. QED
  BY <1>1, Invariance, PTL DEF Spec, RecordsFrozen

=============================================================================

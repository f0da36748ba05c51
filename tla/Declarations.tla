---------------------------- MODULE Declarations ----------------------------
(***************************************************************************)
(* How a measurement is declared, and how its values are addressed.        *)
(* Sources: openhtf/core/measurements.py, and the part of                  *)
(* openhtf/util/validators.py that fills in limits.                        *)
(*                                                                         *)
(* Every call of the chain Measurement('x').with_dimensions(...)...        *)
(* returns the measurement as it leaves it, and whether it raised: a call  *)
(* can change the measurement and raise.                                   *)
(***************************************************************************)
EXTENDS PhaseNodes, Validators

Done(m) == [m |-> m, raised |-> FALSE]
Raised(m) == [m |-> m, raised |-> TRUE]

-----------------------------------------------------------------------------
(* in_range with limits that with_args fills in: a number, a place for a keyword
   argument, or the digits that have taken its place. *)

NumberLimit(n) == [form |-> "number", n |-> n, key |-> "none"]
Place(key) == [form |-> "place", n |-> 0, key |-> key]

(* A range as declared; typed: with type=int. *)
RangeTemplate(min, max, typed) == [min |-> min, max |-> max, typed |-> typed]

(* InRange.__init__ compares limits that are numbers only. *)
CanDeclareRange(v) ==
    /\ v.min # <<>> \/ v.max # <<>>
    /\ v.min # <<>> /\ v.max # <<>> /\ v.min[1].form = "number" /\ v.max[1].form = "number" =>
         v.min[1].n <= v.max[1].n

(* InRange.with_args, with util.format_string on each limit. *)
FillLimit(limit, kwargs) ==
    [i \in DOMAIN limit |->
        IF limit[i].form = "place" /\ limit[i].key \in DOMAIN kwargs
          THEN [form |-> "digits", n |-> kwargs[limit[i].key], key |-> "none"]
          ELSE limit[i]]
RangeWithArgs(v, kwargs) ==
    [v EXCEPT !.min = FillLimit(@, kwargs), !.max = FillLimit(@, kwargs)]

(* The converter of a limit gives a number; a text cannot be compared with one. *)
Converts(v, limit) == limit.form = "number" \/ (limit.form = "digits" /\ v.typed)

(* InRange.__call__, which converts a limit when it comes to it. *)
TemplateCall(v, value) ==
    LET says(limit, outside) ==
            IF limit = <<>> THEN "pass"
            ELSE IF ~Converts(v, limit[1]) THEN "raise"
            ELSE Verdict(~outside)
        low == says(v.min, v.min # <<>> /\ value.n < v.min[1].n)
        high == says(v.max, v.max # <<>> /\ value.n > v.max[1].n)
    IN  CASE value.type = "text" -> "raise"
          [] value.type \in {"None", "nan"} -> "fail"
          [] OTHER -> All(<<low, high>>)

-----------------------------------------------------------------------------
(* Measurement. *)

(* Dimension: a description, a unit or both; "" and "none" where there is none. *)
Dimension(description, unit) == [description |-> description, unit |-> unit]
FromUnitDescriptor(unit) == Dimension("", unit)
FromString(string, units) ==
    Dimension(string, IF string \in units THEN string ELSE "none")
DimensionName(d) == IF d.description # "" THEN d.description ELSE d.unit

(* MeasuredValue and, with dimensions, DimensionedMeasuredValue. *)
NewValue(dimensions, transform) ==
    [dims |-> Len(dimensions), transform |-> transform, set |-> FALSE]

Reserved == {<<Text("set_measurement_outcome_to_skipped")>>}

(* Measurement(name); the other fields have their defaults. *)
NewMeasurement(name) ==
    [name |-> name, dimensions |-> <<>>, units |-> "none", transform |-> "none",
     validators |-> <<>>, conditional |-> <<>>, value |-> NewValue(<<>>, "none"),
     cached |-> <<>>]

(* _initialize_value, which the setters of dimensions and transform_fn end with. *)
InitializeValue(m) ==
    IF m.value.set THEN Raised(m)
    ELSE Done([m EXCEPT !.value = NewValue(m.dimensions, m.transform)])

(* with_units and with_dimensions: a TypeError for what is neither a Dimension, a unit
   nor a text. *)
WithUnits(m, unit) == IF unit = "bad" THEN Raised(m) ELSE Done([m EXCEPT !.units = unit])
WithDimensions(m, dimensions) ==
    IF "bad" \in {dimensions[i].unit : i \in DOMAIN dimensions} THEN Raised(m)
    ELSE LET r == InitializeValue([m EXCEPT !.dimensions = dimensions])
         IN  IF r.raised THEN r ELSE Done([r.m EXCEPT !.cached = <<>>])

(* with_transform, and with_precision by way of it. *)
WithTransform(m, transform) ==
    IF transform = "bad" \/ m.transform # "none" THEN Raised(m)
    ELSE InitializeValue([m EXCEPT !.transform = transform])

(* with_validator, which takes anything that can be called; in_range(...) and the other
   registered names through __getattr__, where the constructor may refuse. *)
NotCallable == RangeTemplate(<<>>, <<>>, FALSE)
WithValidator(m, validator) ==
    IF validator = NotCallable THEN Raised(m)
    ELSE Done([m EXCEPT !.validators = Append(@, validator), !.cached = <<>>])
GetAttr(m, name, registered, validator) ==
    IF name \in registered /\ CanDeclareRange(validator) THEN WithValidator(m, validator)
    ELSE Raised(m)

(* validate_on: the pairs before one that is refused stay. *)
ValidateOn(m, pairs) ==
    LET bad == SelectInSeq(pairs, LAMBDA p : p[2] = NotCallable)
    IN  IF bad = 0
          THEN Done([m EXCEPT !.conditional = @ \o pairs, !.cached = <<>>])
          ELSE Raised([m EXCEPT !.conditional = @ \o SubSeq(pairs, 1, bad - 1)])

(* with_args makes a new measurement, with a copy of the value and the validators filled
   in; its name is checked as that of any other. *)
MeasurementWithArgs(m, kwargs, limits) ==
    LET name == FormatString(m.name, kwargs)
    IN  IF name \in Reserved THEN Raised(m)
        ELSE Done([m EXCEPT !.name = name, !.cached = <<>>,
                   !.validators = [i \in DOMAIN @ |-> RangeWithArgs(@[i], limits)],
                   !.conditional = [i \in DOMAIN @ |-> <<@[i][1], RangeWithArgs(@[i][2], limits)>>]])

(* as_base_types; the dict is made once. *)
ShowMeasurement(m) ==
    Done(IF m.cached # <<>> THEN m
         ELSE [m EXCEPT !.cached = <<[validators |-> m.validators, conditional |-> m.conditional,
                                      dimensions |-> m.dimensions, units |-> m.units]>>])

(* to_dataframe names its columns. *)
Columns(m) ==
    [i \in DOMAIN m.dimensions |-> DimensionName(m.dimensions[i])]
        \o <<IF m.units # "none" THEN m.units ELSE "value">>

-----------------------------------------------------------------------------
(* Coordinates: a number or a text, or a tuple or list of them. *)

Single(type, x) == [type |-> type, items |-> <<x>>]
Several(type, items) == [type |-> type, items |-> items]

(* _coordinates_len. *)
CoordinatesLen(c) == IF c.type \in {"number", "text"} THEN 1 ELSE Len(c.items)

(* The key of a row in value_dict, for __setitem__ and __getitem__. *)
Key(c, dims) == IF dims = 1 THEN <<c>> ELSE c.items

(* __setitem__ raises InvalidDimensionsError for the others: a list has no hash. *)
CanAddress(c, dims) == CoordinatesLen(c) = dims /\ c.type # "list"

(* A row of value and basetype_value. *)
Row(c, dims, value) == Append(Key(c, dims), value)

-----------------------------------------------------------------------------
(* Collection: a function from names to measurements, a scalar one with its value. *)

(* __getitem__ and __getattr__. *)
GetItem(c, name) ==
    IF name \notin DOMAIN c THEN "NotAMeasurementError"
    ELSE IF c[name].dims > 0 THEN "dimensioned"
    ELSE IF c[name].set THEN "value"
    ELSE "MeasurementNotSetError"

(* __setitem__. *)
SetItemRaises(c, name) == name \notin DOMAIN c \/ c[name].dims > 0

(* __iter__ asks every measurement for its value. *)
IterRaises(c) == \E name \in DOMAIN c : ~c[name].set

(* ImmutableMeasurement.from_measurement: None for a scalar that is not set. *)
Immutable(value) ==
    [dims |-> value.dims, value |-> IF value.dims > 0 \/ value.set THEN "copy" ELSE "None"]

=============================================================================

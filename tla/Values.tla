------------------------------- MODULE Values -------------------------------
(***************************************************************************)
(* What internal/validate knows of one value without looking into it: the  *)
(* checks of strings, numbers and durations, the texts of forms, queries   *)
(* and headers read as values, and how a violation names its place.        *)
(*                                                                         *)
(* A decoded value is a record whose field `is` names its Go type:         *)
(*   [is |-> "null"]            [is |-> "boolean", on |-> b]               *)
(*   [is |-> "number", twice |-> n]   a float64, in halves; without the    *)
(*                                    field `twice` it is NaN              *)
(*   [is |-> "int", n |-> n]    a native int: graphql-go decodes them      *)
(*   [is |-> "string", text |-> t]    [is |-> "duration", n |-> n]         *)
(*   [is |-> "array", items |-> s]    [is |-> "object", at |-> f]          *)
(* A builder is the record SchemaBuilders makes: what the code holds as a  *)
(* pointer or with a flag "was it ever called" is a set of at most one     *)
(* element there: min |-> {} is a Min that was never called.               *)
(***************************************************************************)
EXTENDS Integers, SequencesExt

CONSTANTS
    SchemaTable,     \* schema id -> what SchemaBuilders!New makes of its declaration
    TextLen,         \* text -> its length
    TextNumber,      \* text -> {} or {what strconv.ParseFloat makes of it}
    TextBoolean,     \* text -> {} or {what strconv.ParseBool makes of it}
    TextDuration,    \* text -> {} or {what time.ParseDuration makes of it}
    Sanitize(_),     \* the dev's Sanitize function
    CustomFails(_),  \* whether the dev's Custom function returns an error
    Custom(_)        \* and the value it returns

Null == [is |-> "null"]

\* A violation names its rule, and the field it is in: the code joins the keys
\* and indexes on the way down, here each level puts its own around the rest.
Fault(why) == [why |-> why]
Within(key, violations) == {[field |-> key, fault |-> v] : v \in violations}

\* f < n and f > n of Go: both false for NaN.
Below(v, twice) == "twice" \in DOMAIN v /\ v.twice < twice
Above(v, twice) == "twice" \in DOMAIN v /\ v.twice > twice
IsIntegral(v) == "twice" \in DOMAIN v /\ v.twice % 2 = 0

\* toFloat64: the numbers it knows; a time.Duration is none of them.
toFloat64(v) == CASE v.is = "int" -> {[is |-> "number", twice |-> 2 * v.n]}
                  [] v.is = "number" -> {v}
                  [] OTHER -> {}

\* int64(f) cuts the fraction off; of NaN it makes what the platform makes.
Integral(f) == IF "twice" \notin DOMAIN f THEN [is |-> "int"]
               ELSE [is |-> "int", n |-> IF f.twice < 0 THEN -((-f.twice) \div 2) ELSE f.twice \div 2]

Sanitized(raw, p) == IF p.sanitize THEN Sanitize(raw) ELSE raw

-----------------------------------------------------------------------------
(* validate.go: the checks of one value. *)

StringFaults(s, p) ==
    {why \in {"min", "max", "pattern", "enum"} :
        CASE why = "min"     -> \E n \in p.min : TextLen[s] < n
          [] why = "max"     -> \E n \in p.max : TextLen[s] > n
          [] why = "pattern" -> \E matching \in p.pattern : s \notin matching
          [] why = "enum"    -> \E allowed \in p.enumString : s \notin allowed}

NumberFaults(v, p) ==
    IF p.kind = "integer" /\ ~IsIntegral(v)
      THEN {"integral"}
      ELSE {why \in {"min", "max", "enum"} :
              CASE why = "min"  -> \E n \in p.min : Below(v, 2 * n)
                [] why = "max"  -> \E n \in p.max : Above(v, 2 * n)
                [] why = "enum" -> \E allowed \in p.enumInt : Integral(v) \notin {[is |-> "int", n |-> n] : n \in allowed}}

DurationFaults(s, p) ==
    IF TextDuration[s] = {}
      THEN {"format"}
      ELSE {why \in {"min", "max", "enum"} : \E d \in TextDuration[s] :
              CASE why = "min"  -> \E n \in p.min : d < n
                [] why = "max"  -> \E n \in p.max : d > n
                [] why = "enum" -> \E allowed \in p.enumInt : d \notin allowed}

validatePrimitive(raw, p) ==
    LET faults ==
          CASE p.kind = "string"   -> IF raw.is # "string" THEN {"type"} ELSE StringFaults(raw.text, p)
            [] p.kind \in {"integer", "number"}
                                   -> IF raw.is # "number" THEN {"type"} ELSE NumberFaults(raw, p)
            [] p.kind = "boolean"  -> IF raw.is # "boolean" THEN {"type"} ELSE {}
            [] p.kind = "duration" -> IF raw.is # "string" THEN {"type"} ELSE DurationFaults(raw.text, p)
            [] OTHER               -> {}
    IN  {Fault(why) : why \in faults}

-----------------------------------------------------------------------------
\* The properties a tag shows: `tag:"-"` hides one.
Visible(s, tag) == {p \in Range(SchemaTable[s].fields) : tag \notin p.hidden}

\* The zero value of a field's type.
Zero == [is |-> "zero"]

\* Accessor.UnmarshalJSON marks the field, a null in the body leaves it empty.
UnmarshalJSON(v) == [is |-> "accessor", dirty |-> TRUE, value |-> IF v.is = "null" THEN Zero ELSE v]

\* coerceParamString: a text of a form, a query, a header... of the kind.
coerceParamString(t, kind) ==
    CASE kind \in {"integer", "number"} -> TextNumber[t]
      [] kind = "boolean"               -> {[is |-> "boolean", on |-> b] : b \in TextBoolean[t]}
      [] OTHER                          -> {[is |-> "string", text |-> t]}
=============================================================================

----------------------------- MODULE Validation -----------------------------
(***************************************************************************)
(* The recursive parts of internal/validate: the validators of a decoded   *)
(* value against a schema, encoding/json's decoding into a Go type, and    *)
(* the normalisation of GraphQL arguments.                                 *)
(***************************************************************************)
EXTENDS Values

RECURSIVE validateValue(_, _), validateStruct(_, _, _)

validateArray(raw, p) ==
    IF raw.is # "array"
      THEN {Fault("type")}
      ELSE {Fault(why) : why \in
              {w \in {"min", "max"} :
                 IF w = "min" THEN \E n \in p.min : Len(raw.items) < n
                              ELSE \E n \in p.max : Len(raw.items) > n}}
           \cup UNION {
              LET item == raw.items[i]
              IN  Within(ToString(i),
                    IF p.itemRef = {}
                      THEN UNION {validateValue(item, b) : b \in p.item}
                      ELSE IF item.is # "object"
                             THEN {Fault("type")}
                             ELSE UNION {validateStruct(item.at, s, "json") : s \in p.itemRef})
              : i \in DOMAIN raw.items}

validateObject(raw, p) ==
    IF p.open \/ p.ref = {}
      THEN {}
      ELSE IF raw.is # "object"
             THEN {Fault("type")}
             ELSE UNION {validateStruct(raw.at, s, "json") : s \in p.ref}

\* Sanitize prepares the value; Custom replaces every other check.
validateValue(raw, p) ==
    LET v == Sanitized(raw, p)
    IN  IF p.custom
          THEN IF CustomFails(v) THEN {Fault("custom")} ELSE {}
          ELSE IF v.is = "null"
                 THEN IF p.nullable THEN {} ELSE {Fault("null")}
                 ELSE CASE p.kind = "array"  -> validateArray(v, p)
                        [] p.kind = "object" -> validateObject(v, p)
                        [] OTHER             -> validatePrimitive(v, p)

\* Every property is looked up in the decoded object, never the other way round.
validateStruct(at, s, tag) ==
    UNION {Within(p.key, IF p.key \in DOMAIN at THEN validateValue(at[p.key], p)
                         ELSE IF p.required THEN {Fault("required")} ELSE {})
           : p \in Visible(s, tag)}

-----------------------------------------------------------------------------
(* The JSON round trip of setField: {} is an error. *)

\* encoding/json's own decoding of `v` into a Go type, which the round trip
\* of setField uses: the tags and types of the structs decide, no builder's
\* Sanitize or Custom is called, and a time.Duration is a number to it.
ElementType(p) == IF p.itemRef # {} THEN [type |-> "struct", ref |-> p.itemRef]
                                    ELSE CHOOSE b \in p.item : TRUE

\* The one function that picks from each set, if none of them is empty.
Picked(f) == IF {} \in Range(f) THEN {} ELSE {[k \in DOMAIN f |-> CHOOSE x \in f[k] : TRUE]}

RECURSIVE Unmarshal(_, _)
Unmarshal(v, p) ==
    IF p.type = "accessor" THEN {UnmarshalJSON(v)} ELSE
    IF v.is = "null" THEN {Zero} ELSE
    CASE p.type = "any" -> {v}
      [] p.type = "string" /\ v.is = "string" -> {v}
      [] p.type = "bool" /\ v.is = "boolean" -> {v}
      [] p.type = "float" /\ v.is = "number" -> {v}
      [] p.type = "int" /\ v.is = "number" /\ IsIntegral(v) -> {[is |-> "int", n |-> v.twice \div 2]}
      [] p.type = "duration" /\ v.is = "number" /\ IsIntegral(v) -> {[is |-> "duration", n |-> v.twice \div 2]}
      [] p.type = "slice" /\ v.is = "array" ->
           {[is |-> "array", items |-> items] :
              items \in Picked([i \in DOMAIN v.items |-> Unmarshal(v.items[i], ElementType(p))])}
      [] p.type = "struct" /\ v.is = "object" ->
           LET fields == {q \in UNION {Visible(s, "json") : s \in p.ref} : q.key \in DOMAIN v.at}
           IN  {[is |-> "object", at |-> at] :
                  at \in Picked([k \in {q.key : q \in fields} |->
                                   Unmarshal(v.at[k], CHOOSE q \in fields : q.key = k)])}
      [] OTHER -> {}

-----------------------------------------------------------------------------
\* normalizeGraphqlValue: graphql-go's ints become float64, at any depth.
RECURSIVE normalizeGraphqlValue(_)
normalizeGraphqlValue(v) ==
    CASE v.is = "int"    -> [is |-> "number", twice |-> 2 * v.n]
      [] v.is = "object" -> [v EXCEPT !.at = [k \in DOMAIN v.at |-> normalizeGraphqlValue(v.at[k])]]
      [] v.is = "array"  -> [v EXCEPT !.items = [i \in DOMAIN v.items |-> normalizeGraphqlValue(v.items[i])]]
      [] OTHER           -> v
=============================================================================

------------------------------ MODULE Soundness ------------------------------
(***************************************************************************)
(* What the document promises of a value, what the checks let through and  *)
(* what a handler gets of it, at any depth.  These walks recurse into the  *)
(* value, which is why they are not in Contract.                           *)
(***************************************************************************)
EXTENDS Contract

-----------------------------------------------------------------------------
(* What a schema object of JSON Schema accepts. *)

IsOfType(v, t) ==
    CASE t = "integer" -> v.is = "number" /\ IsIntegral(v)
      [] OTHER         -> v.is = t

Listed(v, allowed) ==
    \/ v.is = "string" /\ v.text \in allowed
    \/ v.is = "number" /\ \E n \in allowed : v = [is |-> "number", twice |-> 2 * n]

Size(v) == CASE v.is = "string" -> {TextLen[v.text]} [] v.is = "array" -> {Len(v.items)} [] OTHER -> {}

RECURSIVE Valid(_, _)
ValidObject(v, o) ==
    /\ v.is = "object"
    /\ o.required \subseteq DOMAIN v.at
    /\ \A k \in DOMAIN v.at \cap DOMAIN o.properties : Valid(v.at[k], o.properties[k])

\* A value against a schema object with that of its items, and so on, behind it.
Valid(v, nested) ==
    LET object == Head(nested) IN
    IF object.ref # {}
      THEN v.is \in object.types \/ \E n \in object.ref : ValidObject(v, schemas[n])
      ELSE /\ object.types = {} \/ \E t \in object.types : IsOfType(v, t)
           /\ \A allowed \in object.enum : Listed(v, allowed)
           /\ v.is = "string" => \A matching \in object.pattern : v.text \in matching
           /\ \A size \in Size(v) : (\A n \in object.min : size >= n) /\ (\A n \in object.max : size <= n)
           /\ v.is = "number" => (\A n \in object.min : ~Below(v, 2 * n)) /\ (\A n \in object.max : ~Above(v, 2 * n))
           /\ v.is = "array" /\ Len(nested) > 1 => \A i \in DOMAIN v.items : Valid(v.items[i], Tail(nested))

\* The schemas whose rules a document can state: no function of the dev's
\* decides, and no builder is without a kind or of the kind duration.
Stated(p) == p.kind \notin {"", "duration"} /\ ~p.custom /\ ~p.sanitize
Statable(s) ==
    \A t \in Closure({s}) : ~SchemaTable[t].isValue /\ \A p \in Range(SchemaTable[t].fields) :
        Stated(p) /\ (p.kind = "array" /\ p.itemRef = {} => \A b \in p.item : Stated(b))

\* The document promises no more than the checks allow: a body that is valid by
\* the schema the document has for it breaks no rule of validate.go.  The two
\* are written apart and dispatch on the builder each for itself.  (The other
\* way round does not hold: see the README.  Texts have one byte per character.)
DocumentedIsAccepted ==
    /\ pc = "decide" /\ source = "json" /\ input.is = "object"
    /\ schema \in DOMAIN schemaNames /\ Statable(schema)
    /\ ValidObject(input, schemas[schemaNames[schema]])
    => found = {}

-----------------------------------------------------------------------------
\* The limits of the builder, asked of what ended up in the field.
RECURSIVE Keeps(_, _)
Keeps(v, p) ==
    LET Allowed(w, q) == q.sanitize \/ q.custom \/ Keeps(w, q) IN
    CASE v.is = "string"   -> StringFaults(v.text, p) = {}
      [] v.is = "int"      -> NumberFaults([is |-> "number", twice |-> 2 * v.n], p) = {}
      [] v.is = "number"   -> NumberFaults(v, p) = {}
      [] v.is = "duration" -> (\A n \in p.min : v.n >= n) /\ (\A n \in p.max : v.n <= n)
      [] v.is = "array"    -> /\ (\A n \in p.min : Len(v.items) >= n) /\ (\A n \in p.max : Len(v.items) <= n)
                              /\ p.itemRef = {} => \A i \in DOMAIN v.items :
                                                     \A b \in p.item : Allowed(v.items[i], b)
      [] v.is = "object"   -> \A s \in p.ref : \A q \in Visible(s, "json") :
                                 IF q.key \in DOMAIN v.at THEN Allowed(v.at[q.key], q) ELSE ~q.required
      [] OTHER             -> TRUE

\* What a call hands out keeps the limits of its schema: the value that was
\* written, after Sanitize ran a second time and the texts were converted, is
\* one the checks let pass, at any depth where no Sanitize or Custom is left out
\* of the round trip; a field left at its zero value is optional or null.  (A
\* default is the dev's own and is not checked; what Custom returns replaces the
\* checks.)
AcceptedIsSound ==
    pc \in {"accepted", "synced"} =>
        \A p \in Properties : LET v == dst[p.key] IN
            IF v = Zero
              THEN p.required /\ ~p.nullable /\ ~p.custom => source = "env" /\ p.default # {}
              ELSE /\ ~p.custom /\ (source = "env" => p.default = {}) => Keeps(v, p)
                   /\ source = "json" /\ ~SchemaTable[schema].isValue => p.key \in DOMAIN Keys(input)
=============================================================================

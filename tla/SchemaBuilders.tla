--------------------------- MODULE SchemaBuilders ---------------------------
(***************************************************************************)
(* The builders of internal/schema: what a chain of calls such as          *)
(*     s.Property(&t.Rows).Array().Max(2).Object(row)                      *)
(* leaves in a PropertyBuilder.  Every branch method returns a view of the *)
(* same builder or of its item, and every call overwrites what it sets:    *)
(* the last one wins, and what a branch does not reset stays.              *)
(*                                                                         *)
(* A chain is a sequence of calls [do |-> method, with |-> argument].      *)
(***************************************************************************)
EXTENDS Integers, SequencesExt

\* The branch methods: the format and the kind they set.
Branches ==
    "String"   :> <<"", "string">>        @@ "Email"    :> <<"email", "string">>    @@
    "Uuid"     :> <<"uuid", "string">>    @@ "Uri"      :> <<"uri", "string">>      @@
    "Hostname" :> <<"hostname", "string">> @@ "Ipv4"    :> <<"ipv4", "string">>     @@
    "Ipv6"     :> <<"ipv6", "string">>    @@ "Password" :> <<"password", "string">> @@
    "Byte"     :> <<"byte", "string">>    @@ "Binary"   :> <<"binary", "string">>   @@
    "DateTime" :> <<"date-time", "string">> @@ "Date"   :> <<"date", "string">>     @@
    "Integer"  :> <<"int64", "integer">>  @@ "Int32"    :> <<"int32", "integer">>   @@
    "Float"    :> <<"float", "number">>   @@ "Double"   :> <<"double", "number">>   @@
    "Boolean"  :> <<"", "boolean">>       @@ "Duration" :> <<"duration", "duration">>

\* A builder nothing was called on.
NewBuilder ==
    [kind |-> "", format |-> "", required |-> FALSE, nullable |-> FALSE,
     min |-> {}, max |-> {}, pattern |-> {}, enumString |-> {}, enumInt |-> {},
     item |-> {}, itemRef |-> {}, ref |-> {}, open |-> FALSE,
     custom |-> FALSE, sanitize |-> FALSE, graphqlScalar |-> {}, default |-> {}]

\* A chain at work: the builders (the property's, its item's, the item's of
\* that...), which of them the value returned last stands for, and whether it
\* is an ArraySchema.
NewChain == [builders |-> <<NewBuilder>>, at |-> 1, array |-> FALSE]

Update(chain, i, b) == [chain EXCEPT !.builders[i] = b]
This(chain) == chain.builders[chain.at]

\* An ArraySchema has the branch methods of its item; Duration is not among
\* them, so Go promotes the one of the array's own builder.
Branch(chain, method) ==
    LET i == IF chain.array /\ method # "Duration" THEN chain.at + 1 ELSE chain.at
    IN  [Update(chain, i, [chain.builders[i] EXCEPT !.format = Branches[method][1],
                                                    !.kind = Branches[method][2]])
           EXCEPT !.at = i, !.array = FALSE]

Array(chain) ==
    LET array == [This(chain) EXCEPT !.format = "array", !.kind = "array", !.itemRef = {},
                                     !.min = {}, !.max = {}]
    IN  [chain EXCEPT !.builders = Append(Append(SubSeq(@, 1, chain.at - 1), array), NewBuilder),
                      !.array = TRUE]

\* Object(ref) of an array is about its items; Object(fn) makes the builder an
\* object and hands it to fn, whose calls are Schema and AdditionalProperties.
Object(chain, with) ==
    IF chain.array
      THEN Update(chain, chain.at, [This(chain) EXCEPT !.itemRef = {with}])
      ELSE Update(chain, chain.at, [This(chain) EXCEPT !.format = "object", !.kind = "object",
                                                       !.ref = {}, !.open = FALSE])

\* The setters: a StringSchema's Enum is of texts, the others' of numbers.
Setter(b, call) ==
    CASE call.do = "Min"           -> [b EXCEPT !.min = {call.with}]
      [] call.do = "Max"           -> [b EXCEPT !.max = {call.with}]
      [] call.do = "Pattern"       -> [b EXCEPT !.pattern = {call.with}]
      [] call.do = "Enum"          -> IF b.kind = "string" THEN [b EXCEPT !.enumString = {call.with}]
                                                           ELSE [b EXCEPT !.enumInt = {call.with}]
      [] call.do = "Schema"        -> [b EXCEPT !.ref = {call.with}]
      [] call.do = "AdditionalProperties" -> [b EXCEPT !.open = TRUE]
      [] call.do = "Required"      -> [b EXCEPT !.required = TRUE]
      [] call.do = "Nullable"      -> [b EXCEPT !.nullable = TRUE]
      [] call.do = "Custom"        -> [b EXCEPT !.custom = TRUE]
      [] call.do = "Sanitize"      -> [b EXCEPT !.sanitize = TRUE]
      [] call.do = "Default"       -> [b EXCEPT !.default = {call.with}]
      [] call.do = "GraphqlScalar" -> [b EXCEPT !.graphqlScalar = {call.with}]

Call(chain, call) ==
    CASE call.do \in DOMAIN Branches -> Branch(chain, call.do)
      [] call.do = "Array"           -> Array(chain)
      [] call.do = "Object"          -> Object(chain, call.with)
      [] OTHER -> Update(chain, chain.at, Setter(This(chain), call))

\* The builder of a whole chain, its items inside it.
Built(calls) ==
    LET builders == FoldLeft(Call, NewChain, calls).builders
        nest[i \in DOMAIN builders] ==
          IF i = Len(builders) THEN builders[i]
          ELSE [builders[i] EXCEPT !.item = {nest[i + 1]}]
    IN  nest[1]

\* Property(&field) with its chain: the struct field's name, its tag (one for
\* all the tags but those that hide it with "-"), its Go type and that of the
\* elements of a slice.
Property(field) ==
    LET b == Built(field.calls)
    IN  [b EXCEPT !.item = {item @@ [type |-> field.elements] : item \in @}]
          @@ [key |-> field.key, name |-> field.name, hidden |-> field.hidden, type |-> field.type]

\* NewSchema and NewValue; decl.fields in the order of the struct.
New(decl) ==
    [isValue |-> decl.isValue, title |-> decl.title, structType |-> decl.structType,
     refines |-> decl.refines,
     fields |-> [i \in DOMAIN decl.fields |-> Property(decl.fields[i])]]
=============================================================================

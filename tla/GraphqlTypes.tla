---------------------------- MODULE GraphqlTypes ----------------------------
(***************************************************************************)
(* internal/graphql's Build: the operations of every resolver, with their  *)
(* argument and return schemas, become the root types of a GraphQL schema. *)
(*                                                                         *)
(* `work` is the stack of objectType calls under way, the innermost first. *)
(* An objectType is cached when it is finished, so Build ends only for     *)
(* schemas that do not refer to themselves.                                *)
(***************************************************************************)
EXTENDS Integers, SequencesExt, Maps

CONSTANTS
    SchemaTable,     \* schema id -> what SchemaBuilders!New makes of its declaration
    Nesting(_),      \* a builder, its ItemBuilder(), the one of that, and so on
    OperationLists   \* what the resolvers may have declared: sequences, in the order Build goes
                     \* through them, of [root, name, args, returns, list], where args and
                     \* returns are {} or {schema}

VARIABLES
    objects,     \* schema -> the fields of its object type
    scalars,     \* names of the scalars made so far
    roots,       \* root -> name -> [type, args]
    operations,  \* the operations Build is given
    done,        \* how many of them have become fields
    work,        \* calls of objectType
    failure      \* {} or {why Build returned an error}

vars == <<objects, scalars, roots, operations, done, work, failure>>

Roots == {"Query", "Mutation", "Subscription"}

Init ==
    /\ objects = <<>> /\ scalars = {}
    /\ roots = [r \in Roots |-> <<>>]
    /\ operations \in OperationLists /\ done = 0
    /\ work = <<>>
    /\ failure = {}

NameOf(s) == IF SchemaTable[s].title = "" THEN SchemaTable[s].structType ELSE SchemaTable[s].title

Running == failure = {} /\ done < Len(operations)

-----------------------------------------------------------------------------
(* leafScalar and scalarOrListType. *)

NativeScalarName ==
    "email" :> "Email" @@ "uuid" :> "Uuid" @@ "uri" :> "Uri" @@ "hostname" :> "Hostname" @@
    "ipv4" :> "Ipv4" @@ "ipv6" :> "Ipv6" @@ "password" :> "Password" @@ "byte" :> "Byte" @@
    "binary" :> "Binary" @@ "date-time" :> "DateTime" @@ "date" :> "Date" @@ "duration" :> "Duration"

BuiltIn == {"Int", "Float", "Boolean", "String"}

\* The scalars that have to be declared for a leaf: by its format, else by name.
Declared(p) ==
    IF p.format \in DOMAIN NativeScalarName THEN {NativeScalarName[p.format]} ELSE p.graphqlScalar

\* Mutant: what has no scalar of its own is a String.
leafScalarString(p) ==
    IF Declared(p) # {} THEN Declared(p)
    ELSE CASE p.kind = "integer" -> {"Int"} [] p.kind = "number" -> {"Float"}
           [] p.kind = "boolean" -> {"Boolean"} [] OTHER -> {"String"}

\* {} is the error of a Custom without a name.
leafScalar(p) ==
    IF Declared(p) # {} THEN Declared(p)
    ELSE IF p.custom THEN {}
    ELSE CASE p.kind = "integer" -> {"Int"} [] p.kind = "number" -> {"Float"}
           [] p.kind = "boolean" -> {"Boolean"} [] OTHER -> {"String"}

\* An array whose items are typed by the builder behind it.
OfBuilders(p) == p.kind = "array" /\ p.itemRef = {}

\* How deep scalarOrListType goes, and the builder it finds there.
Depth(p) ==
    CHOOSE n \in DOMAIN Nesting(p) :
        /\ ~OfBuilders(Nesting(p)[n])
        /\ \A i \in 1 .. (n - 1) : OfBuilders(Nesting(p)[i])
Leaf(p) == Nesting(p)[Depth(p)]

\* The object type a property's type names.
Reference(p) ==
    LET leaf == Leaf(p)
    IN  CASE leaf.kind = "array" -> leaf.itemRef [] leaf.kind = "object" -> leaf.ref [] OTHER -> {}

Scalars(p) ==
    LET leaf == Leaf(p)
    IN  IF Reference(p) # {} THEN {}
        ELSE IF leaf.kind = "object" THEN {"JSON"} ELSE leafScalar(leaf)

\* What has no name at all: the error comes up through every call.
Nameless(p) == Reference(p) = {} /\ Scalars(p) = {}

\* A type: an object's or a scalar's, in so many lists, outside of them non-null.
scalarOrListType(p) ==
    [nonNull |-> FALSE, object |-> Reference(p), scalar |-> Scalars(p),
     lists |-> Depth(p) - (IF Leaf(p).kind = "array" THEN 0 ELSE 1)]

FieldType(p) == [scalarOrListType(p) EXCEPT !.nonNull = p.required]

argKey(p) == IF "json" \in p.hidden THEN p.name ELSE p.key

Fields(s) ==
    LET fields == Range(SchemaTable[s].fields)
    IN  [k \in {argKey(p) : p \in fields} |-> FieldType(CHOOSE p \in fields : argKey(p) = k)]

-----------------------------------------------------------------------------
(* objectType. *)

\* What a property needs before its type can be told.
Frame(s, ps) == [of |-> s, left |-> ps]
NewFrame(s) == Frame(s, Range(SchemaTable[s].fields))
Missing(p) == Reference(p) \ DOMAIN objects

Fail(why) == failure' = {why} /\ work' = <<>> /\ UNCHANGED <<objects, scalars, roots, operations, done>>

WalkField ==
    /\ Running /\ work # <<>> /\ Head(work).left # {}
    /\ \E p \in Head(work).left :
         LET rest == <<Frame(Head(work).of, Head(work).left \ {p})>> \o Tail(work)
         IN  IF Nameless(p)
               THEN Fail("custom")
               ELSE /\ IF Missing(p) # {}
                         THEN \E s \in Missing(p) : work' = <<NewFrame(s)>> \o work /\ UNCHANGED scalars
                         ELSE /\ work' = rest
                              /\ scalars' = scalars \cup (Scalars(p) \ BuiltIn)
                    /\ UNCHANGED <<objects, roots, operations, done, failure>>

\* Only now is the object known to later calls.
ObjectBuilt ==
    /\ Running /\ work # <<>> /\ Head(work).left = {}
    /\ objects' = Put(objects, Head(work).of, Fields(Head(work).of))
    /\ work' = Tail(work)
    /\ UNCHANGED <<scalars, roots, operations, done, failure>>

-----------------------------------------------------------------------------
(* buildField, outputType and fieldArgs of the next operation. *)

Operation == operations[done + 1]

\* outputType of no schema is String; of a value, its property's type.
OutputType(op) ==
    LET Of(object, scalar) == [nonNull |-> FALSE, object |-> object, scalar |-> scalar, lists |-> 0]
        type == IF op.returns = {} THEN Of({}, {"String"})
                ELSE LET s == CHOOSE s \in op.returns : TRUE
                     IN  IF SchemaTable[s].isValue THEN scalarOrListType(SchemaTable[s].fields[1]) ELSE Of({s}, {})
    IN  IF op.list THEN [type EXCEPT !.lists = @ + 1] ELSE type

\* The object types the operation's own type and arguments name.
Wanted(op) ==
    (UNION {IF SchemaTable[s].isValue THEN Reference(SchemaTable[s].fields[1]) ELSE {s} : s \in op.returns})
    \cup (UNION {UNION {Reference(p) : p \in Range(SchemaTable[s].fields)} : s \in op.args})

\* The properties buildField types itself.
Direct(op) ==
    UNION {Range(SchemaTable[s].fields) : s \in op.args \cup {s \in op.returns : SchemaTable[s].isValue}}

BuildObject ==
    /\ Running /\ work = <<>>
    /\ \E s \in Wanted(Operation) \ DOMAIN objects : work' = <<NewFrame(s)>>
    /\ UNCHANGED <<objects, scalars, roots, operations, done, failure>>

\* The duplicate is noticed when its field is built already.
BuildField ==
    /\ Running /\ work = <<>>
    /\ Wanted(Operation) \subseteq DOMAIN objects
    /\ LET op == Operation
           args == [k \in {argKey(p) : p \in UNION {Range(SchemaTable[s].fields) : s \in op.args}} |->
                      FieldType(CHOOSE p \in UNION {Range(SchemaTable[s].fields) : s \in op.args} : argKey(p) = k)]
       IN  IF \E p \in Direct(op) : Nameless(p) THEN Fail("custom")
           ELSE IF op.name \in DOMAIN roots[op.root] THEN Fail("duplicate")
           ELSE /\ roots' = [roots EXCEPT ![op.root] = Put(@, op.name, [type |-> OutputType(op), args |-> args])]
                /\ done' = done + 1
                /\ scalars' = scalars \cup UNION {Scalars(p) \ BuiltIn : p \in Direct(op)}
                /\ UNCHANGED <<objects, operations, work, failure>>

Next == WalkField \/ ObjectBuilt \/ BuildObject \/ BuildField

Spec == Init /\ [][Next]_vars

Done == ~Running

\* gql.NewSchema refuses two types of one name; a schema without queries gets
\* the field _empty.
Schema ==
    LET names == [s \in DOMAIN objects |-> NameOf(s)]
    IN  IF failure # {} THEN failure
        ELSE IF \E s, t \in DOMAIN objects : s # t /\ names[s] = names[t] THEN {"names"} ELSE {}
QueryFields == IF roots["Query"] = <<>> THEN {"_empty"} ELSE DOMAIN roots["Query"]
=============================================================================

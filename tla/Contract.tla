------------------------------ MODULE Contract ------------------------------
(***************************************************************************)
(* One table of schemas, three readers: OpenApi documents it, GraphqlTypes *)
(* makes types of it, and Parsing judges calls by it.  NewApp builds the   *)
(* GraphQL schema and fails if that fails; main generates the document of  *)
(* the App it gets (OpenapiGenerate) and serves then.                      *)
(***************************************************************************)
EXTENDS Parsing, FiniteSets

CONSTANTS Nesting(_), Modules, Controllers, Routes, Root, ExceptionSchema, DocumentBearerAuth, OperationLists

VARIABLES
    apiPaths, schemas, schemaNames, visited, apiWork,      \* OpenApi's
    objects, scalars, roots, operations, done, gqlWork, failure   \* GraphqlTypes'

Api == INSTANCE OpenApi WITH paths <- apiPaths, work <- apiWork
Gql == INSTANCE GraphqlTypes WITH work <- gqlWork

document == <<apiPaths, schemas, schemaNames, visited, apiWork>>
types == <<objects, scalars, roots, operations, done, gqlWork, failure>>
contract == <<parsing, document, types>>

\* Nesting(p) is what ItemBuilder leads to from p: Array() makes the builder of
\* its items, and no other call does.  References are to schemas of the table.
ASSUME NestingAssumption ==
    /\ IsFiniteSet(DOMAIN SchemaTable)
    /\ \A s \in DOMAIN SchemaTable : \A p \in Range(SchemaTable[s].fields) :
         LET nested == Nesting(p) IN
         /\ IsSequence(nested) /\ nested # <<>> /\ nested[1] = p
         /\ \A i \in DOMAIN nested :
              /\ nested[i].item = IF i = Len(nested) THEN {} ELSE {nested[i + 1]}
              /\ nested[i].kind = "array" => nested[i].item # {}
              /\ nested[i].ref \cup nested[i].itemRef \subseteq DOMAIN SchemaTable

\* The application is closed: what it refers to is there.
ASSUME ApplicationAssumption ==
    /\ IsFiniteSet(DOMAIN Modules) /\ Root \in DOMAIN Modules
    /\ \A m \in DOMAIN Modules :
         /\ IsSequence(Modules[m].imports) /\ Range(Modules[m].imports) \subseteq DOMAIN Modules
         /\ IsSequence(Modules[m].controllers) /\ Range(Modules[m].controllers) \subseteq DOMAIN Controllers
    /\ \A c \in DOMAIN Controllers :
         IsSequence(Controllers[c].routes) /\ Range(Controllers[c].routes) \subseteq DOMAIN Routes
    /\ ExceptionSchema \in DOMAIN SchemaTable
    /\ \A r \in DOMAIN Routes :
         Routes[r].params \cup Routes[r].query \cup Routes[r].form \cup Routes[r].body \cup UNION Range(Routes[r].responses)
           \subseteq DOMAIN SchemaTable

\* A value schema has the one property NewValue gives it.
ASSUME OperationsAssumption ==
    \A list \in OperationLists :
        /\ IsSequence(list)
        /\ \A op \in Range(list) :
             /\ op.root \in Gql!Roots
             /\ op.args \cup op.returns \subseteq DOMAIN SchemaTable
             /\ \A s \in op.returns : SchemaTable[s].isValue => SchemaTable[s].fields # <<>>

ContractInit == ParseInit /\ Api!Init /\ Gql!Init

\* registerGraphql, the end of NewApp.
Build == Gql!Next /\ UNCHANGED <<parsing, document>>

Generate ==
    /\ Gql!Done /\ Gql!Schema = {}
    /\ Api!Next
    /\ UNCHANGED <<parsing, types>>

Serve ==
    /\ Gql!Done /\ Gql!Schema = {} /\ Api!Done
    /\ ParseNext
    /\ UNCHANGED <<document, types>>

ContractNext == Build \/ Generate \/ Serve

ContractSpec == ContractInit /\ [][ContractNext]_contract

-----------------------------------------------------------------------------
(* Properties *)

\* What can be reached from some nodes, `behind` giving those behind each: no
\* way without circles is longer than there are nodes.
OneFurther(nodes, behind) == UNION {{n} \cup behind[n] : n \in nodes}
Reachable(given, behind) ==
    LET within[i \in 0 .. Cardinality(DOMAIN behind)] ==
          IF i = 0 THEN given ELSE OneFurther(within[i - 1], behind)
    IN  within[Cardinality(DOMAIN behind)]

\* Schemas, by the references of their properties.
Closure(given) ==
    Reachable(given, [s \in DOMAIN SchemaTable |-> UNION {Gql!Reference(p) : p \in Range(SchemaTable[s].fields)}])

Imported == Reachable({Root}, [m \in DOMAIN Modules |-> Range(Modules[m].imports)])

\* The (controller, route) pairs of the application that are to be documented.
Documented ==
    UNION {UNION {{<<c, r>> : r \in {x \in Range(Controllers[c].routes) : ~Routes[x].excluded}} :
                     c \in Range(Modules[m].controllers)} : m \in Imported}

NamesIn(nested) == UNION {o.ref : o \in Range(nested)}
NamesInObject(o) == UNION {NamesIn(o.properties[k]) : k \in DOMAIN o.properties}
NamesInOperation(op) ==
    op.body \cup (UNION {op.responses[status] : status \in DOMAIN op.responses})
      \cup (UNION {NamesIn(q.schema) : q \in op.parameters})
      \cup (UNION {NamesInObject(o) : o \in op.form})

\* Every name behind a $ref of the document.
NamesUsed ==
    (UNION {NamesInOperation(apiPaths[k]) : k \in DOMAIN apiPaths})
      \cup (UNION {NamesInObject(schemas[n]) : n \in DOMAIN schemas})

\* The document is whole, however the maps were walked and the modules import
\* each other: it has an operation for exactly the routes that are not excluded,
\* and each name behind a $ref, in an operation or in a schema, is the whole
\* schema that was meant, also where schemas refer to each other in circles.
\* (A name two registered schemas share is that of the one walked last.)
DocumentComplete ==
    Api!Done /\ pc = "idle" =>
        /\ DOMAIN apiPaths = {Api!PathOf(d[1], d[2]) : d \in Documented}
        /\ NamesUsed \subseteq DOMAIN schemas
        /\ \A s \in DOMAIN schemaNames :
             (\A t \in DOMAIN schemaNames \ {s} : Api!NameOf(t) # Api!NameOf(s))
               => schemas[schemaNames[s]] = Api!ObjectSchema(s, "json")

-----------------------------------------------------------------------------
\* A Custom no scalar is named for, in a property or in the items of its lists.
Unnamed(p) ==
    LET leaf == Gql!Leaf(p)
    IN  /\ leaf.custom /\ leaf.kind \notin {"array", "object"}
        /\ leaf.graphqlScalar = {} /\ leaf.format \notin DOMAIN Gql!NativeScalarName

\* Build refuses the operations that stand for nothing, two of one name or a
\* property whose Custom has no scalar, however deep below an operation it is,
\* and only those; what it builds is closed: every object type a field or an
\* argument names was made, each once per schema, and every operation is there.
BuiltOrRefused ==
    Gql!Done /\ pc = "idle" =>
        LET seen == 1 .. (done + IF failure = {} THEN 0 ELSE 1)
            walked == {operations[i] : i \in seen}
            reached == Closure(UNION {Gql!Wanted(op) : op \in walked})
            unnamed == \E p \in UNION ({Gql!Direct(op) : op \in walked}
                                          \cup {Range(SchemaTable[s].fields) : s \in reached}) : Unnamed(p)
            twice == \E i, j \in seen : i < j /\ operations[i].root = operations[j].root
                                              /\ operations[i].name = operations[j].name
        IN  /\ failure # {} <=> unnamed \/ twice
            /\ failure = {} =>
                 /\ DOMAIN objects = reached
                 /\ \A op \in walked : op.name \in DOMAIN roots[op.root]
                 /\ UNION {UNION {objects[s][k].object : k \in DOMAIN objects[s]} : s \in DOMAIN objects}
                      \subseteq DOMAIN objects
=============================================================================

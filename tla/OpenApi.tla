------------------------------ MODULE OpenApi -------------------------------
(***************************************************************************)
(* internal/openapi: Generate walks the modules, their controllers and     *)
(* routes and makes paths and components.schemas of them.                  *)
(*                                                                         *)
(* The walk is depth first and recursive; `work` is its call stack, the    *)
(* innermost call first.  OwnProperties and the responses are Go maps, so  *)
(* they are visited in any order.  Texts that only describe (summary,      *)
(* description, tags, examples, formats) are left out.                     *)
(***************************************************************************)
EXTENDS Integers, SequencesExt, Maps

CONSTANTS
    SchemaTable,        \* schema id -> what SchemaBuilders!New makes of its declaration
    Nesting(_),         \* a builder, its ItemBuilder(), the one of that, and so on
    Modules,            \* module -> [controllers, imports], both sequences
    Controllers,        \* controller -> [prefix, routes, bearerAuth]
    Routes,             \* route -> [method, path, excluded, bearerAuth, params, query, form,
                        \*           fileFields, body, code, responses]; params to body are {} or
                        \*           {schema}, responses status -> {} or {schema}
    Root,               \* the root module
    ExceptionSchema,    \* exception.Schema
    DocumentBearerAuth  \* BearerAuth was called on the document

VARIABLES
    paths,          \* (full path, method) -> operation
    schemas,        \* components.schemas: name -> object schema
    schemaNames,    \* schema -> the name it was given
    visited,        \* modules seen
    work            \* calls under way

vars == <<paths, schemas, schemaNames, visited, work>>

\* The calls: of walkModule, of walkController, of walkRoute before it has built
\* the operation and after, and of registerSchema before it has looked at the
\* names (for all the schemas of `left`) and after (`left`: the properties to come).
WalkModule(m) == [do |-> "module", of |-> m]
WalkController(c) == [do |-> "controller", of |-> c]
WalkRoute(c, r) == [do |-> "route", of |-> r, in |-> c]
BuiltRoute(c, r) == [do |-> "path", of |-> r, in |-> c]
Register(ss) == [do |-> "register", left |-> ss]
WalkSchema(s, ps) == [do |-> "schema", of |-> s, left |-> ps]

Init ==
    /\ paths = <<>> /\ schemas = <<>> /\ schemaNames = <<>>
    /\ visited = {}
    /\ work = <<WalkModule(Root)>>

Done == work = <<>>
Doing(call) == work # <<>> /\ Head(work).do = call
Top == Head(work)

NameOf(s) == IF SchemaTable[s].title = "" THEN SchemaTable[s].structType ELSE SchemaTable[s].title

\* tagName: the json tag, the context's tag, the field's name.
tagName(p, context) == IF {"json", context} \subseteq p.hidden THEN p.name ELSE p.key

-----------------------------------------------------------------------------
(* schemaFor: a builder as a schema object. *)

\* The schema object that says nothing.
Anything == [types |-> {}, min |-> {}, max |-> {}, pattern |-> {}, enum |-> {}, ref |-> {}]

Typed(t, p) == [Anything EXCEPT !.types = {t} \cup (IF p.nullable THEN {"null"} ELSE {})]

\* Mutant: only the lower limit is written down.
LimitedBelow(t, p) == [Typed(t, p) EXCEPT !.min = p.min]

Limited(t, p) == [Typed(t, p) EXCEPT !.min = p.min, !.max = p.max]
refSchema(ss) == [Anything EXCEPT !.ref = {NameOf(s) : s \in ss}]

\* An array whose items are described by the builder behind it.
OfBuilders(p) == p.kind = "array" /\ ~p.custom /\ p.itemRef = {}

\* How deep schemaFor goes: to the first builder that is no such array.
Depth(p) ==
    CHOOSE n \in DOMAIN Nesting(p) :
        /\ ~OfBuilders(Nesting(p)[n])
        /\ \A i \in 1 .. (n - 1) : OfBuilders(Nesting(p)[i])
Innermost(p) == Nesting(p)[Depth(p)]

\* What is said of a builder itself, a nullable $ref being anyOf that and null.
Described(p) ==
    IF p.custom THEN Anything ELSE
    CASE p.kind = "string"  -> [Limited("string", p) EXCEPT !.pattern = p.pattern, !.enum = p.enumString]
      [] p.kind \in {"integer", "number"} -> [Limited(p.kind, p) EXCEPT !.enum = p.enumInt]
      [] p.kind = "boolean" -> Typed("boolean", p)
      [] p.kind = "array"   -> Limited("array", p)
      [] p.kind = "object"  ->
           IF p.ref = {} THEN Typed("object", p)
                         ELSE [refSchema(p.ref) EXCEPT !.types = IF p.nullable THEN {"null"} ELSE {}]
      [] OTHER -> Anything

\* The schemas behind the items of an array.
ItemRef(p) == IF p.kind = "array" /\ ~p.custom THEN p.itemRef ELSE {}

\* A schema object and its items behind it, theirs behind those.
schemaFor(p) ==
    [i \in 1 .. Depth(p) |-> Described(Nesting(p)[i])]
      \o IF ItemRef(Innermost(p)) = {} THEN <<>> ELSE <<refSchema(ItemRef(Innermost(p)))>>

\* Mutant: the $ref of an array's items is written without registering it.
ReferredByObjects(p) == IF p.kind = "object" /\ ~p.custom THEN p.ref ELSE {}

\* The schemas schemaFor registers on its way.
Referred(p) ==
    LET inner == Innermost(p)
    IN  IF inner.kind = "object" /\ ~inner.custom THEN inner.ref ELSE ItemRef(inner)

ObjectSchema(s, context) ==
    LET fields == Range(SchemaTable[s].fields)
        keys == {tagName(p, context) : p \in fields}
    IN  [properties |-> [k \in keys |-> schemaFor(CHOOSE p \in fields : tagName(p, context) = k)],
         required |-> {tagName(p, context) : p \in {q \in fields : q.required}}]

-----------------------------------------------------------------------------
(* walkModule and walkController. *)

VisitModule ==
    /\ Doing("module")
    /\ LET m == Top.of
           controllers == [i \in DOMAIN Modules[m].controllers |-> WalkController(Modules[m].controllers[i])]
           imports == [i \in DOMAIN Modules[m].imports |-> WalkModule(Modules[m].imports[i])]
       IN  IF m \in visited
             THEN UNCHANGED visited /\ work' = Tail(work)
             ELSE /\ visited' = visited \cup {m}
                  /\ work' = controllers \o imports \o Tail(work)
    /\ UNCHANGED <<paths, schemas, schemaNames>>

VisitController ==
    /\ Doing("controller")
    /\ LET routes == Controllers[Top.of].routes
       IN  work' = [i \in DOMAIN routes |-> WalkRoute(Top.of, routes[i])] \o Tail(work)
    /\ UNCHANGED <<paths, schemas, schemaNames, visited>>

-----------------------------------------------------------------------------
(* walkRoute and buildResponses. *)

fullPath(c, r) == Controllers[c].prefix \o Routes[r].path

\* A route's own value wins over its controller's.
resolveBearerAuth(c, r) ==
    IF Routes[r].bearerAuth = {} THEN Controllers[c].bearerAuth ELSE TRUE \in Routes[r].bearerAuth

\* An error without a schema is an exception; no responses: Code() alone.
ResponseSchemas(r) ==
    LET stated == Routes[r].responses
    IN  IF stated = <<>> THEN [status \in {Routes[r].code} |-> {}]
        ELSE [status \in DOMAIN stated |->
                IF stated[status] = {} /\ status >= 400 THEN {ExceptionSchema} ELSE stated[status]]

paramsToParameters(given, in) ==
    UNION {{[name |-> tagName(p, in), in |-> in, required |-> p.required, schema |-> schemaFor(p)] :
              p \in Range(SchemaTable[s].fields)} : s \in given}

formBodySchemaObject(s, fileFields) ==
    LET form == ObjectSchema(s, "form")
        file == [Anything EXCEPT !.types = {"string"}]
    IN  [required |-> form.required,
         properties |-> [k \in fileFields \cup DOMAIN form.properties |->
                           IF k \in fileFields THEN <<file>> ELSE form.properties[k]]]

\* The form wins over a request body, and is never put among the schemas.
Operation(c, r) ==
    LET route == Routes[r]
    IN  [security   |-> resolveBearerAuth(c, r),
         parameters |-> paramsToParameters(route.params, "param") \cup paramsToParameters(route.query, "query"),
         form       |-> {formBodySchemaObject(s, route.fileFields) : s \in route.form},
         body       |-> IF route.form # {} THEN {} ELSE {NameOf(s) : s \in route.body},
         responses  |-> [status \in DOMAIN ResponseSchemas(r) |-> {NameOf(s) : s \in ResponseSchemas(r)[status]}]]

ReferredIn(given) == UNION {UNION {Referred(p) : p \in Range(SchemaTable[s].fields)} : s \in given}

\* The schemas each part of the operation registers, in the order of the parts.
Registering(r) ==
    LET route == Routes[r]
    IN  << ReferredIn(route.params), ReferredIn(route.query),
           IF route.form # {} THEN ReferredIn(route.form) ELSE route.body,
           UNION Range(ResponseSchemas(r)) >>

VisitRoute ==
    /\ Doing("route")
    /\ LET parts == Registering(Top.of)
       IN  work' = IF Routes[Top.of].excluded
                     THEN Tail(work)
                     ELSE [i \in DOMAIN parts |-> Register(parts[i])] \o <<BuiltRoute(Top.in, Top.of)>> \o Tail(work)
    /\ UNCHANGED <<paths, schemas, schemaNames, visited>>

\* The last of two routes with one path and method is the one documented.
PathOf(c, r) == <<fullPath(c, r), Routes[r].method>>
SetPath ==
    /\ Doing("path")
    /\ paths' = Put(paths, PathOf(Top.in, Top.of), Operation(Top.in, Top.of))
    /\ work' = Tail(work)
    /\ UNCHANGED <<schemas, schemaNames, visited>>

-----------------------------------------------------------------------------
(* registerSchema. *)

\* A schema that has a name is not walked again; a new one gets its name before
\* its properties are looked at.
registerSchema ==
    /\ Doing("register")
    /\ \E s \in Top.left :
         LET rest == <<Register(Top.left \ {s})>> \o Tail(work)
         IN  IF s \in DOMAIN schemaNames
               THEN work' = rest /\ UNCHANGED schemaNames
               ELSE /\ schemaNames' = Put(schemaNames, s, NameOf(s))
                    /\ work' = <<WalkSchema(s, Range(SchemaTable[s].fields))>> \o rest
    /\ UNCHANGED <<paths, schemas, visited>>

Registered ==
    /\ Doing("register") /\ Top.left = {}
    /\ work' = Tail(work)
    /\ UNCHANGED <<paths, schemas, schemaNames, visited>>

\* schemaFor of a property goes into the schemas it refers to first.
WalkProperty ==
    /\ Doing("schema")
    /\ \E p \in Top.left :
         work' = <<Register(Referred(p)), WalkSchema(Top.of, Top.left \ {p})>> \o Tail(work)
    /\ UNCHANGED <<paths, schemas, schemaNames, visited>>

SetSchema ==
    /\ Doing("schema") /\ Top.left = {}
    /\ schemas' = Put(schemas, schemaNames[Top.of], ObjectSchema(Top.of, "json"))
    /\ work' = Tail(work)
    /\ UNCHANGED <<paths, schemaNames, visited>>

Next ==
    \/ VisitModule \/ VisitController \/ VisitRoute \/ SetPath
    \/ registerSchema \/ Registered \/ WalkProperty \/ SetSchema

Spec == Init /\ [][Next]_vars

\* Document: the schemes are declared if anything asks for one.
hasAnyBearerAuth == DocumentBearerAuth \/ \E k \in DOMAIN paths : paths[k].security
Document ==
    [paths |-> paths, schemas |-> schemas, bearerAuth |-> hasAnyBearerAuth, security |-> DocumentBearerAuth]
=============================================================================

------------------------------ MODULE Parsing -------------------------------
(***************************************************************************)
(* One call of Parse: the sources of internal/validate (JSON body, GraphQL *)
(* arguments, path parameters, query, headers, environment, multipart      *)
(* form) in front of the checks of Validation, what comes before it for an *)
(* environment (Dotenv.Load) and after it for a PATCH (SyncAccessorFields).*)
(*                                                                         *)
(* A schema's properties are kept in a Go map: the order in which a source *)
(* walks over them is any.  The dev's functions (Sanitize, Custom, onFile, *)
(* Refine) are CONSTANTS and are functions of their arguments, as the      *)
(* comments on them demand.  So are the walks that recurse into a value:   *)
(* Validation defines them, and nothing here depends on how.               *)
(***************************************************************************)
EXTENDS Values, Accessor, Dotenv

CONSTANTS
    Violations(_, _),           \* Validation!validateValue: of a value, against a builder
    StructViolations(_, _, _),  \* Validation!validateStruct: of the keys of an object
    RoundTrip(_, _),            \* Validation!Unmarshal: into a field, {} for an error
    Normalized(_),              \* Validation!normalizeGraphqlValue
    Cases,           \* the calls: their source, schema, matches, input, setup, paths, before
    Entity,          \* the struct a PATCH handler updates
    Refine(_, _),    \* check and value -> {} or {the field it blames}
    FileFails(_)     \* whether onFile returns an error for a file

TextSources == {"params", "query", "header", "env"}
DecodedSources == {"json", "graphql"}
Sources == TextSources \cup DecodedSources \cup {"form"}

IsSequence(s) == s \in Seq(Range(s))

\* The dev gives each field of a struct a key of its own: the walks know a field
\* by it.  (encoding/json drops fields that share one.)
ASSUME KeysAssumption ==
    \A s \in DOMAIN SchemaTable :
        LET fields == SchemaTable[s].fields IN
        /\ IsSequence(fields)
        /\ \A i, j \in DOMAIN fields : fields[i].key = fields[j].key => i = j

\* A form is a stream of parts, a .env file one of lines and a value one of pieces.
AreFiles(these) ==
    /\ IsSequence(these)
    /\ \A i \in DOMAIN these :
         /\ IsSequence(these[i].lines)
         /\ \A line \in Range(these[i].lines) :
              line.is = "pair" => IsSequence(line.value) /\ IsSequence(line.rest)

ASSUME CasesAssumption ==
    /\ \A c \in Cases : /\ c.source \in Sources /\ c.schema \in DOMAIN SchemaTable
                        /\ c.source = "form" => IsSequence(c.input)
                        /\ c.source = "env" => AreFiles(c.paths)
    /\ \A i \in DOMAIN Entity : {"dirty", "value"} \subseteq DOMAIN Entity[i]

\* What the tag of a source is called.
Tag(src) == CASE src = "params" -> "param" [] src = "graphql" -> "json" [] OTHER -> src

VARIABLES
    source,      \* which Parseable is asked
    schema,      \* the schema it is given
    matches,     \* the schema was built for the type asked for
    input,       \* the body, the texts by key, or the parts of the form
    setup,       \* the form's onFile was given, its stream is available; the PATCH
                 \* handler hands a pointer to the parsed struct over
    paths,       \* the .env files that are loaded first
    before,      \* the environment before that
    environ,     \* the environment of the process
    pc,          \* where the call is
    next,        \* index of the next path, or of the next part of the form
    pending,     \* properties the loop at hand has not come to
    found,       \* violations so far
    presence,    \* key -> decoded value
    dst,         \* key -> what was written into its field
    files,       \* files onFile was called with
    entity       \* the struct that takes over the dirty accessors

inputs == <<source, schema, matches, input, setup, paths, before>>
result == <<dst, files, entity>>
parsing == <<inputs, environ, pc, next, pending, found, presence, result>>

AllKeys == {p.key : p \in UNION {Range(SchemaTable[s].fields) : s \in DOMAIN SchemaTable}}

ParseInit ==
    /\ source = "none" /\ schema = "none" /\ matches = FALSE
    /\ input = <<>> /\ setup = <<>> /\ paths = <<>> /\ before = <<>> /\ environ = <<>>
    /\ pc = "idle"
    /\ next = 1
    /\ pending = {} /\ found = {} /\ presence = <<>>
    /\ dst = [k \in AllKeys |-> Zero]
    /\ files = <<>>
    /\ entity = Entity

\* Parse of a source, or of an environment.
Call ==
    /\ pc = "idle"
    /\ \E c \in Cases :
         /\ source' = c.source /\ schema' = c.schema /\ matches' = c.matches
         /\ input' = c.input /\ setup' = c.setup
         /\ paths' = c.paths /\ before' = c.before /\ environ' = c.before
         /\ pc' = IF c.source = "env" THEN "load" ELSE "resolve"
    /\ UNCHANGED <<next, pending, found, presence, result>>

Properties == Visible(schema, Tag(source))
Refines == SchemaTable[schema].refines

Returned == {"accepted", "rejected", "panicked"}

\* BadRequestException with these violations; SafeParse returns a zero value
\* with it, so nobody sees what was written before.
Reject(violations) ==
    /\ pc' = "rejected"
    /\ found' = violations

AsString(text) == [is |-> "string", text |-> text]

-----------------------------------------------------------------------------
(* setField: what ends up in a field of Go type p.type. {} is an error.     *)

\* A null is nil, or leaves the zero value.
setField(v, p) ==
    IF v.is = "null" THEN {Zero} ELSE
    CASE p.type = "any" -> {v}
      [] p.type = "accessor" -> {UnmarshalJSON(v)}
      [] p.type = "duration" /\ v.is = "string" ->
           {[is |-> "duration", n |-> d] : d \in TextDuration[v.text]}
      [] p.type = "duration" /\ v.is = "duration" -> {v}
      [] p.type = "duration" /\ v.is \notin {"string", "duration"} ->
           {[Integral(f) EXCEPT !.is = "duration"] : f \in toFloat64(v)}
      [] p.type = "int" -> {Integral(f) : f \in toFloat64(v)}
      [] p.type = "float" -> toFloat64(v)
      [] p.type = "string" -> IF v.is = "string" THEN {v} ELSE {}
      [] p.type = "bool" -> IF v.is = "boolean" THEN {v} ELSE {}
      [] OTHER -> RoundTrip(v, p)                 \* the JSON round trip

\* Sanitize and Custom once more, on the raw value.
Prepared(raw, p) == IF p.custom THEN Custom(Sanitized(raw, p)) ELSE Sanitized(raw, p)

\* Mutant: Sanitize is for the checks only.
WrittenRaw(raw, p) ==
    IF p.custom /\ CustomFails(raw) THEN {} ELSE setField(IF p.custom THEN Custom(raw) ELSE raw, p)

\* populate and populateValue.
Written(raw, p) ==
    IF p.custom /\ CustomFails(Sanitized(raw, p)) THEN {} ELSE setField(Prepared(raw, p), p)

-----------------------------------------------------------------------------
(* Dotenv.Load and SafeLoad, before the environment is parsed. *)

ParsedPath ==
    IF paths[next].missing THEN {} ELSE parseFile(paths[next].lines, environ)

\* A path: read, parsed as a whole, then applied pair by pair.
LoadPath ==
    /\ pc = "load" /\ next <= Len(paths)
    /\ \E pairs \in ParsedPath : environ' = Setenv(pairs, environ)
    /\ next' = next + 1
    /\ UNCHANGED <<inputs, pc, pending, found, presence, result>>

\* Load panics; the caller of SafeLoad may go on with what is set so far.
LoadFails ==
    /\ pc = "load" /\ next <= Len(paths)
    /\ ParsedPath = {}
    /\ pc' \in {"panicked", "resolve"}
    /\ UNCHANGED <<inputs, environ, next, pending, found, presence, result>>

Loaded ==
    /\ pc = "load" /\ next > Len(paths)
    /\ pc' = "resolve"
    /\ UNCHANGED <<inputs, environ, next, pending, found, presence, result>>

-----------------------------------------------------------------------------
(* Each ParseInto starts with resolveSchema; a form also needs its stream. *)

Resolve ==
    /\ pc = "resolve"
    /\ pc' = IF ~matches \/ (source = "form" /\ ~setup.stream) THEN "panicked"
             ELSE IF source \in DecodedSources THEN "decode"
             ELSE IF source = "form" THEN "parts" ELSE "check"
    /\ pending' = IF source \in TextSources THEN Properties ELSE {}
    /\ UNCHANGED <<inputs, environ, next, found, presence, result>>

-----------------------------------------------------------------------------
(* jsonBodySource, mapArgsSource and parseDecoded. *)

Decoded == IF source = "graphql" THEN Normalized(input) ELSE input

\* A value that is no object has none of the keys.
Keys(v) == IF v.is = "object" THEN v.at ELSE <<>>

MalformedBody ==
    /\ pc = "decode" /\ input.is = "malformed"
    /\ Reject({Fault("syntax")})
    /\ UNCHANGED <<inputs, environ, next, pending, presence, result>>

DecodeStruct ==
    /\ pc = "decode" /\ input.is # "malformed" /\ ~SchemaTable[schema].isValue
    /\ presence' = Keys(Decoded)
    /\ found' = StructViolations(Keys(Decoded), schema, "json")
    /\ pc' = "decide"
    /\ UNCHANGED <<inputs, environ, next, pending, result>>

\* populateValue: the body is the value, no Refine runs.
WriteValue(key, violations, written) ==
    IF violations # {} \/ written = {}
      THEN Reject(IF violations = {} THEN {Fault("populate")} ELSE violations) /\ UNCHANGED dst
      ELSE /\ pc' = "accepted"
           /\ \E v \in written : dst' = [dst EXCEPT ![key] = v]
           /\ UNCHANGED found

DecodeValue ==
    /\ pc = "decode" /\ input.is # "malformed" /\ SchemaTable[schema].isValue
    /\ LET p == SchemaTable[schema].fields[1]
       IN  WriteValue(p.key, Violations(Decoded, p), Written(Decoded, p))
    /\ UNCHANGED <<inputs, environ, next, pending, presence, files, entity>>

-----------------------------------------------------------------------------
(* paramsSource, querySource, headersSource and ParseEnvInto. *)

\* The raw text of a key: a header that is empty counts as absent.
RawText(key) ==
    CASE source = "env"    -> Lookup(key, environ)
      [] source = "header" -> Lookup(key, input) \ {<<>>}
      [] OTHER             -> Lookup(key, input)

\* Mutant: the last part of a name is the only one that counts.
TakeLast(p, text) ==
    LET coerced == IF p.custom THEN {AsString(text)} ELSE coerceParamString(text, p.kind)
    IN  /\ found' = {v \in found : v.field # p.key}
                        \cup Within(p.key, IF coerced = {} THEN {Fault("coerce")}
                                           ELSE UNION {Violations(v, p) : v \in coerced})
        /\ presence' = IF coerced = {} THEN presence ELSE Put(presence, p.key, CHOOSE v \in coerced : TRUE)

\* What a text does to `found` and `presence`, in every source of texts:
\* Custom takes it as it is, the other checks take what it is coerced to.
Take(p, text) ==
    LET coerced == IF p.custom THEN {AsString(text)} ELSE coerceParamString(text, p.kind)
    IN  /\ found' = found \cup Within(p.key, IF coerced = {} THEN {Fault("coerce")}
                                              ELSE UNION {Violations(v, p) : v \in coerced})
        /\ presence' = IF coerced = {} THEN presence ELSE Put(presence, p.key, CHOOSE v \in coerced : TRUE)

VisitPresent(p) ==
    /\ pc = "check" /\ p \in pending
    /\ \E text \in RawText(p.key) : Take(p, text)
    /\ pending' = pending \ {p}
    /\ UNCHANGED <<inputs, environ, pc, next, result>>

\* A default is put beside the decoded values, unchecked.
VisitAbsent(p) ==
    /\ pc = "check" /\ p \in pending
    /\ RawText(p.key) = {}
    /\ IF source = "env" /\ p.default # {}
         THEN /\ \E v \in p.default : presence' = Put(presence, p.key, v)
              /\ UNCHANGED found
         ELSE /\ found' = found \cup Within(p.key, IF p.required THEN {Fault("required")} ELSE {})
              /\ UNCHANGED presence
    /\ pending' = pending \ {p}
    /\ UNCHANGED <<inputs, environ, pc, next, result>>

Checked ==
    /\ pc = "check" /\ pending = {}
    /\ pc' = "decide"
    /\ UNCHANGED <<inputs, environ, next, pending, found, presence, result>>

-----------------------------------------------------------------------------
(* formBodySource: one walk over the stream, fields and files as they come. *)

Part == input[next]
NextPart(kind) == pc = "parts" /\ next <= Len(input) /\ Part.is = kind

BrokenPart ==
    /\ NextPart("broken")
    /\ Reject({Fault("multipart")})
    /\ UNCHANGED <<inputs, environ, next, pending, presence, result>>

\* Mutant: an error of onFile is a violation like any other.
FilePartGoesOn ==
    /\ NextPart("file")
    /\ next' = next + 1
    /\ files' = IF setup.onFile THEN Append(files, Part.name) ELSE files
    /\ found' = found \cup Within(Part.key, IF setup.onFile /\ FileFails(Part.name) THEN {Fault("file")} ELSE {})
    /\ UNCHANGED <<inputs, environ, pc, pending, presence, dst, entity>>

\* onFile gets the part while its bytes are unread; its error ends the walk.
FilePart ==
    /\ NextPart("file")
    /\ next' = next + 1
    /\ files' = IF setup.onFile THEN Append(files, Part.name) ELSE files
    /\ IF setup.onFile /\ FileFails(Part.name)
         THEN Reject(Within(Part.key, {Fault("file")}))
         ELSE UNCHANGED <<pc, found>>
    /\ UNCHANGED <<inputs, environ, pending, presence, dst, entity>>

\* A field the schema does not declare is skipped.
FieldPart ==
    /\ NextPart("field")
    /\ next' = next + 1
    /\ LET declared == {p \in Properties : p.key = Part.key}
       IN  \/ declared = {} /\ UNCHANGED <<found, presence>>
           \/ \E p \in declared : Take(p, Part.text)
    /\ UNCHANGED <<inputs, environ, pc, pending, result>>

\* A required key without a decoded value, for whatever reason, is missing.
EndOfParts ==
    /\ pc = "parts" /\ next > Len(input)
    /\ found' = found \cup UNION {Within(p.key, {Fault("required")}) :
                                    p \in {q \in Properties : q.required /\ q.key \notin DOMAIN presence}}
    /\ pc' = "decide"
    /\ UNCHANGED <<inputs, environ, next, pending, presence, result>>

-----------------------------------------------------------------------------
(* Every source: reject with all violations, or populate and refine. *)

Decide ==
    /\ pc = "decide"
    /\ IF found # {}
         THEN Reject(found) /\ UNCHANGED pending
         ELSE /\ pc' = "populate"
              /\ pending' = {p \in Properties : p.key \in DOMAIN presence}
              /\ UNCHANGED found
    /\ UNCHANGED <<inputs, environ, next, presence, result>>

Populate(p) ==
    /\ pc = "populate" /\ p \in pending
    /\ \E v \in Written(presence[p.key], p) : dst' = [dst EXCEPT ![p.key] = v]
    /\ pending' = pending \ {p}
    /\ UNCHANGED <<inputs, environ, pc, next, found, presence, files, entity>>

PopulateFails(p) ==
    /\ pc = "populate" /\ p \in pending
    /\ Written(presence[p.key], p) = {}
    /\ Reject({Fault("populate")})
    /\ UNCHANGED <<inputs, environ, next, pending, presence, result>>

\* The checks over the whole value: all of them, of decoded sources only.
Populated ==
    /\ pc = "populate" /\ pending = {}
    /\ LET blamed == IF source \in DecodedSources THEN UNION {Refine(r, dst) : r \in Refines} ELSE {}
       IN  IF blamed # {} THEN Reject(UNION {Within(f, {Fault("refine")}) : f \in blamed})
                          ELSE pc' = "accepted" /\ UNCHANGED found
    /\ UNCHANGED <<inputs, environ, next, pending, presence, result>>

-----------------------------------------------------------------------------
(* The dev's PATCH handler: SyncAccessorFields(entity, value). *)

\* The parsed value as the struct SyncAccessorFields sees.
Parsed ==
    [i \in DOMAIN SchemaTable[schema].fields |->
       LET p == SchemaTable[schema].fields[i]
           v == dst[p.key]
       IN  [name |-> p.name, tag |-> p.key,
            holds |-> IF p.type = "accessor" THEN "accessor" ELSE "plain",
            dirty |-> v.is = "accessor" /\ v.dirty,
            value |-> IF v.is = "accessor" THEN v.value ELSE v]]

Sync ==
    /\ pc = "accepted" /\ source = "json" /\ ~SchemaTable[schema].isValue
    /\ entity' = SyncAccessorFields(entity, Parsed, setup.pointer)
    /\ pc' = "synced"
    /\ UNCHANGED <<inputs, environ, next, pending, found, presence, dst, files>>

-----------------------------------------------------------------------------
ParseNext ==
    \/ Call
    \/ LoadPath \/ LoadFails \/ Loaded
    \/ Resolve
    \/ MalformedBody \/ DecodeStruct \/ DecodeValue
    \/ \E p \in pending : VisitPresent(p) \/ VisitAbsent(p)
    \/ Checked
    \/ BrokenPart \/ FilePart \/ FieldPart \/ EndOfParts
    \/ Decide
    \/ \E p \in pending : Populate(p) \/ PopulateFails(p)
    \/ Populated
    \/ Sync

ParseSpec == ParseInit /\ [][ParseNext]_parsing

-----------------------------------------------------------------------------
(* Properties *)

\* The texts a source has for a key: a form may send several parts of one name.
Supplied(key) ==
    IF source = "form" THEN {input[i].text : i \in {j \in DOMAIN input : input[j].is = "field" /\ input[j].key = key}}
                       ELSE RawText(key)

\* What a JSON body with the text's reading as the value of p would be told.
Refuted(p, text) ==
    LET readings == IF p.custom THEN {AsString(text)} ELSE coerceParamString(text, p.kind)
    IN  readings = {} \/ \E v \in readings : Violations(v, p) # {}

\* Path parameters, queries, headers, environments and forms are judged as a
\* JSON body with the same keys would be: a property is blamed exactly if one of
\* its texts does not read as its kind or breaks a rule, or if it is required
\* and the source has neither a text nor a default for it.  No order of the walk
\* over the properties, and no part of a form that comes later, changes that.
DecidesAsJson ==
    pc = "decide" /\ source \notin DecodedSources =>
        \A p \in Properties :
            (\E v \in found : v.field = p.key)
              <=> \/ \E text \in Supplied(p.key) : Refuted(p, text)
                  \/ p.required /\ Supplied(p.key) = {} /\ (source = "env" => p.default = {})

\* onFile sees the files of the form once each and in the order they were sent,
\* also when the form is refused later for a field; after a part that cannot be
\* read or a file onFile refused it sees no more.
FilesInOrder ==
    LET Ends(i) == input[i].is = "broken" \/ (input[i].is = "file" /\ FileFails(input[i].name))
        sent == {i \in DOMAIN input : input[i].is = "file" /\ \A j \in 1 .. (i - 1) : ~Ends(j)}
    IN  pc \in Returned \cup {"decide"} /\ source = "form" /\ setup.stream /\ setup.onFile /\ matches =>
            \E part \in [DOMAIN files -> sent] :
                /\ Range(part) = sent
                /\ \A n \in DOMAIN files : files[n] = input[part[n]].name
                /\ \A m, n \in DOMAIN files : m < n => part[m] < part[n]

\* The definitions of a file: none if it is missing or does not parse as a whole.
Definitions(path) == IF path.missing THEN {} ELSE parseFile(path.lines, before)

\* Among several .env files the environment of the process wins, then the first
\* file, then the first of its lines, for every key; a file that is missing or
\* malformed somewhere defines nothing, and stops the files after it only.
FirstPathWins ==
    source = "env" =>
        LET loaded == {i \in DOMAIN paths : i < next}
            Defining(k) == {i \in loaded : \E pairs \in Definitions(paths[i]) : \E n \in DOMAIN pairs : pairs[n].key = k}
            plain(i, k) == \A line \in Range(paths[i].lines) : line.is = "pair" /\ line.key = k =>
                              ~HasVars(line.value) /\ ~HasVars(line.rest)
        IN  /\ \A k \in DOMAIN before : k \in DOMAIN environ /\ environ[k] = before[k]
            /\ \A k \in DOMAIN environ \ DOMAIN before : Defining(k) # {}
            /\ \A i \in loaded : \A pairs \in Definitions(paths[i]) : \A n \in DOMAIN pairs :
                   LET k == pairs[n].key
                       first == (\A j \in Defining(k) : i <= j) /\ (\A m \in 1 .. (n - 1) : pairs[m].key # k)
                   IN  /\ k \in DOMAIN environ
                       /\ k \notin DOMAIN before /\ first /\ plain(i, k) => environ[k] = pairs[n].value

\* A PATCH changes the fields its body has and no other: an accessor field of the
\* struct the handler updates is touched exactly if the body had a value for it
\* (a null is none, before or after Sanitize and Custom), and gets that value.
PatchTouchesOnlySent ==
    pc = "synced" =>
        \A i \in DOMAIN Entity :
            LET sent == {p \in Properties : /\ p.type = "accessor" /\ p.key \in DOMAIN Keys(input)
                                            /\ NamesOf([name |-> p.name, tag |-> p.key]) \cap NamesOf(Entity[i]) # {}
                                            /\ Prepared(input.at[p.key], p).is # "null"}
            IN  IF sent = {} \/ ~setup.pointer
                  THEN entity[i] = Entity[i]
                  ELSE /\ entity[i].value \in {Prepared(input.at[p.key], p) : p \in sent}
                       /\ Entity[i].holds = "accessor" => entity[i].dirty
=============================================================================

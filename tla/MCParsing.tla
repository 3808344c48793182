----------------------------- MODULE MCParsing -----------------------------
(* Four schemas, and every call of a source with a few texts, bodies, parts *)
(* or .env files.                                                           *)
EXTENDS Parsing

Txt(t) == IF t = "" THEN <<>> ELSE <<[lit |-> t]>>

mcBlock == <<[char |-> "n"], [lit |-> "2"]>>

texts == {Txt("a"), Txt("abc"), Txt(" ab"), Txt("2"), Txt("1.5"), Txt("9"), Txt("NaN"),
          Txt("true"), Txt("5s"), Txt("9s"), <<>>, mcBlock}

mcLen == [t \in texts |-> CASE t = <<>> -> 0 [] t \in {Txt("abc"), Txt(" ab"), Txt("1.5"), Txt("NaN")} -> 3
                            [] t = Txt("true") -> 4 [] t \in {Txt("5s"), Txt("9s"), mcBlock} -> 2 [] OTHER -> 1]
mcNumber == [t \in texts |-> CASE t = Txt("2") -> {[is |-> "number", twice |-> 4]}
                               [] t = Txt("1.5") -> {[is |-> "number", twice |-> 3]}
                               [] t = Txt("9") -> {[is |-> "number", twice |-> 18]}
                               [] t = Txt("NaN") -> {[is |-> "number"]}
                               [] OTHER -> {}]
mcBoolean == [t \in texts |-> IF t = Txt("true") THEN {TRUE} ELSE {}]
mcDuration == [t \in texts |-> CASE t = Txt("5s") -> {5} [] t = Txt("9s") -> {9} [] OTHER -> {}]

\* Sanitize trims, Custom wants "a" and makes 7 of it.
mcSanitize(v) == IF v.is = "string" /\ v.text = Txt(" ab") THEN [v EXCEPT !.text = Txt("2")] ELSE v
mcCustomFails(v) == ~(v.is = "string" /\ v.text = Txt("a"))
mcCustom(v) == [is |-> "int", n |-> 7]
mcRefine(r, value) == IF value["name"] = [is |-> "string", text |-> Txt("2")] THEN {"name"} ELSE {}
mcFileFails(f) == f = "bad"

B == INSTANCE SchemaBuilders
V == INSTANCE Validation

mcViolations(raw, p) == V!validateValue(raw, p)
mcStructViolations(at, s, tag) == V!validateStruct(at, s, tag)
mcRoundTrip(v, p) == V!Unmarshal(v, p)
mcNormalized(v) == V!normalizeGraphqlValue(v)

Do(method) == [do |-> method, with |-> {}]
DoWith(method, argument) == [do |-> method, with |-> argument]

field == [key |-> "", name |-> "", hidden |-> {}, type |-> "any", elements |-> "any", calls |-> <<>>]

nameField == [field EXCEPT !.type = "string", !.key = "name", !.name = "Name",
  !.calls = <<Do("String"), DoWith("Min", 1), DoWith("Max", 9), DoWith("Max", 2), Do("Required"), Do("Sanitize")>>]
countField == [field EXCEPT !.type = "int", !.key = "count", !.name = "Count",
  !.calls = <<Do("Int32"), DoWith("Min", 1), DoWith("Max", 2), DoWith("Default", [is |-> "int", n |-> 4])>>]
rateField == [field EXCEPT !.type = "float", !.key = "rate", !.name = "Rate", !.hidden = {"query"},
  !.calls = <<Do("Double"), DoWith("Max", 2)>>]
waitField == [field EXCEPT !.type = "duration", !.key = "wait", !.name = "Wait",
  !.calls = <<Do("Duration"), DoWith("Max", 5), Do("Required")>>]
codeField == [field EXCEPT !.type = "int", !.key = "code", !.name = "Code",
  !.calls = <<Do("String"), Do("Custom"), DoWith("Default", [is |-> "int", n |-> 4])>>]
flagField == [field EXCEPT !.type = "bool", !.key = "flag", !.name = "Flag", !.calls = <<Do("Boolean")>>]

titleField == [field EXCEPT !.type = "accessor", !.key = "title", !.name = "Title",
  !.calls = <<Do("String"), DoWith("Enum", {Txt("a"), Txt("9")}), Do("Nullable")>>]
innerField == [field EXCEPT !.type = "struct", !.key = "inner", !.name = "Inner",
  !.calls = <<DoWith("Object", {}), DoWith("Schema", "flat")>>]
listField == [field EXCEPT !.type = "slice", !.elements = "int", !.key = "list", !.name = "List",
  !.calls = <<Do("Array"), DoWith("Max", 1), Do("Integer"), DoWith("Max", 2)>>]
rowsField == [field EXCEPT !.type = "slice", !.key = "rows", !.name = "Rows",
  !.calls = <<Do("Array"), DoWith("Object", "timed")>>]

struct == [isValue |-> FALSE, title |-> "", structType |-> "", refines |-> {}, fields |-> <<>>]

mcDeclarations ==
    "flat"  :> [struct EXCEPT !.structType = "Flat", !.fields = <<nameField, countField, rateField>>, !.refines = {"r"}] @@
    "timed" :> [struct EXCEPT !.structType = "Timed", !.fields = <<waitField, codeField, flagField>>] @@
    "patch" :> [struct EXCEPT !.structType = "Patch", !.fields = <<titleField, innerField, listField, rowsField>>] @@
    "bare"  :> [struct EXCEPT !.isValue = TRUE, !.structType = "Bare",
                                    !.fields = <<[listField EXCEPT !.key = "", !.name = ""]>>]

mcEntity == << [name |-> "Title", tag |-> "heading", holds |-> "accessor", dirty |-> FALSE, value |-> [is |-> "old"]],
               [name |-> "Body", tag |-> "inner", holds |-> "plain", dirty |-> FALSE, value |-> [is |-> "old"]],
               [name |-> "Legacy", tag |-> "title", holds |-> "pointer", dirty |-> FALSE, value |-> [is |-> "old"]] >>

-----------------------------------------------------------------------------
mcCall == [source |-> "", schema |-> "flat", matches |-> TRUE, input |-> <<>>,
         setup |-> [onFile |-> TRUE, stream |-> TRUE, pointer |-> TRUE], paths |-> <<>>, before |-> <<>>]

\* Functions from any subset of the keys.
Partial(keys, values) == UNION {[ks -> values] : ks \in SUBSET keys}

flatTexts == {Txt("a"), Txt("abc"), Txt(" ab"), Txt("2"), Txt("NaN"), <<>>}
timedTexts == {Txt("a"), Txt("5s"), Txt("9s"), Txt("true")}

textCalls ==
    {[mcCall EXCEPT !.source = src, !.input = at] :
       src \in {"params", "query", "header"}, at \in Partial({"name", "count", "rate"}, flatTexts)}
    \cup {[mcCall EXCEPT !.source = src, !.schema = "timed", !.input = at] :
       src \in {"params", "header"}, at \in Partial({"wait", "code", "flag"}, timedTexts)}
    \cup {[mcCall EXCEPT !.source = "query", !.matches = FALSE]}

num(n) == [is |-> "number", twice |-> n]
str(t) == [is |-> "string", text |-> Txt(t)]
obj(at) == [is |-> "object", at |-> at]
arr(s) == [is |-> "array", items |-> s]

bodies ==
    {obj(at) : at \in Partial({"name", "count", "rate"}, {Null, num(4), num(3), str("a"), str(" ab"), [is |-> "int", n |-> 9]})}
    \cup {[is |-> "malformed"], str("a"), arr(<<>>)}

rowBodies == {[is |-> "object", at |-> f] : f \in
    {("wait" :> w) @@ g : w \in {str("5s"), num(4)}, g \in {<<>>, "code" :> str("a"), "flag" :> [is |-> "boolean", on |-> TRUE]}}}

patchBodies ==
    {obj(at) : at \in
       {f @@ g @@ h : f \in Partial({"title"}, {Null, str("a"), str("abc")}),
                      g \in Partial({"inner"}, {Null, str("a"), obj("name" :> str("a")), obj("name" :> str(" ab")), obj("count" :> num(4))}),
                      h \in Partial({"list"}, {arr(<<>>), arr(<<num(4)>>), arr(<<num(18)>>), arr(<<num(4), num(4)>>)})
                            \cup Partial({"rows"}, {arr(<<r>>) : r \in rowBodies} \cup {arr(<<str("a")>>)})}}

decodedCalls ==
    {[mcCall EXCEPT !.source = src, !.input = b] : src \in DecodedSources, b \in bodies}
    \cup {[mcCall EXCEPT !.source = "json", !.schema = "patch", !.input = b, !.setup.pointer = ptr] :
            b \in patchBodies, ptr \in BOOLEAN}
    \cup {[mcCall EXCEPT !.source = "json", !.schema = "bare", !.input = b] :
            b \in {arr(<<>>), arr(<<num(4)>>), arr(<<num(3)>>), str("a"), Null}}

-----------------------------------------------------------------------------
parts ==
    {[is |-> "field", key |-> k, text |-> Txt(t)] : k \in {"name", "count"}, t \in {"a", "abc", "2"}}
    \cup {[is |-> "field", key |-> "other", text |-> <<>>], [is |-> "broken"]}
    \cup {[is |-> "file", name |-> f, key |-> "name"] : f \in {"f", "g", "bad"}}

formCalls ==
    {[mcCall EXCEPT !.source = "form", !.input = s] : s \in UNION {[1 .. n -> parts] : n \in 0 .. 3}}
    \cup {[mcCall EXCEPT !.source = "form", !.setup.stream = FALSE]}
    \cup {[mcCall EXCEPT !.source = "form", !.setup.onFile = FALSE,
                       !.input = <<[is |-> "file", name |-> "bad", key |-> "x"]>>]}

-----------------------------------------------------------------------------
pair == [is |-> "pair", key |-> "name", quote |-> "none", value |-> <<>>, rest |-> <<>>, closed |-> TRUE,
         text |-> Txt("2"), ticks |-> FALSE]

lineSet ==
    { [is |-> "comment", text |-> Txt("2"), ticks |-> FALSE],
      [is |-> "malformed", text |-> Txt("2"), ticks |-> TRUE],
      [pair EXCEPT !.value = Txt("a")],
      [pair EXCEPT !.value = Txt("2"), !.quote = "single", !.rest = <<[hash |-> "h"]>>],
      [pair EXCEPT !.key = "count", !.value = <<[var |-> "name", op |-> ":-", arg |-> Txt("9")]>>],
      [pair EXCEPT !.key = "count", !.quote = "double", !.value = Txt("2")],
      [pair EXCEPT !.quote = "backtick", !.closed = FALSE] }

mcFiles == [missing : BOOLEAN, lines : {<<>>}]
         \cup [missing : {FALSE}, lines : [1 .. 1 -> lineSet] \cup [1 .. 2 -> lineSet]]

envCalls ==
    {[mcCall EXCEPT !.source = "env", !.paths = ps, !.before = b] :
       ps \in UNION {[1 .. n -> mcFiles] : n \in 0 .. 2}, b \in Partial({"name"}, {Txt("abc")})}
    \cup {[mcCall EXCEPT !.source = "env", !.schema = "timed", !.before = at] :
       at \in Partial({"wait", "code", "flag"}, timedTexts)}

mcCases == textCalls \cup decodedCalls \cup formCalls \cup envCalls
=============================================================================

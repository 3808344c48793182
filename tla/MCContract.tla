----------------------------- MODULE MCContract -----------------------------
(* The calls of MCParsing, behind an application that documents its schemas *)
(* and builds GraphQL types of them: an order with lines and an address     *)
(* they share, and a tree that refers to itself.                            *)
EXTENDS Soundness, MCParsing

cityField == [field EXCEPT !.type = "string", !.key = "city", !.name = "City",
  !.calls = <<Do("String"), DoWith("Pattern", {Txt("a"), Txt("abc")}), DoWith("Max", 2), Do("Required")>>]
noteField == [field EXCEPT !.type = "string", !.key = "note", !.name = "Note",
  !.calls = <<Do("Email"), DoWith("Enum", {Txt("a"), Txt("2")}), Do("Nullable")>>]
toField == [field EXCEPT !.type = "struct", !.key = "to", !.name = "To",
  !.calls = <<DoWith("Object", {}), DoWith("Schema", "address"), Do("Nullable")>>]
metaField == [field EXCEPT !.key = "meta", !.name = "Meta", !.hidden = {"json"},
  !.calls = <<DoWith("Object", {}), Do("AdditionalProperties"), Do("Required")>>]
linesField == [field EXCEPT !.type = "slice", !.key = "lines", !.name = "Lines",
  !.calls = <<Do("Array"), DoWith("Min", 1), DoWith("Object", "line"), DoWith("Max", 2)>>]
quantityField == [field EXCEPT !.type = "int", !.key = "quantity", !.name = "Quantity",
  !.calls = <<DoWith("Min", 9), Do("Integer"), DoWith("Min", 1), DoWith("Enum", {1, 4}), Do("Required")>>]
priceField == [field EXCEPT !.type = "float", !.key = "price", !.name = "Price",
  !.calls = <<Do("Float"), DoWith("Min", 1), DoWith("Max", 4), Do("Nullable")>>]
tagsField == [field EXCEPT !.type = "slice", !.elements = "string", !.key = "tags", !.name = "Tags",
  !.calls = <<Do("Array"), Do("String"), DoWith("Max", 1), Do("Nullable")>>]
depthField == [field EXCEPT !.type = "int", !.key = "depth", !.name = "Depth",
  !.calls = <<Do("String"), DoWith("Min", 1), Do("Int32"), DoWith("Max", 2), Do("Required")>>]
childrenField == [field EXCEPT !.type = "slice", !.key = "children", !.name = "Children",
  !.calls = <<DoWith("Min", 4), Do("Array"), DoWith("Max", 1), DoWith("Object", "node")>>]
parentField == [field EXCEPT !.type = "struct", !.key = "parent", !.name = "Parent",
  !.calls = <<DoWith("Object", {}), DoWith("Schema", "node"), Do("Nullable")>>]
skuField == [field EXCEPT !.key = "sku", !.name = "Sku", !.type = "string",
  !.calls = <<Do("Custom"), DoWith("GraphqlScalar", "Sku")>>]

mcContractDeclarations ==
    mcDeclarations @@
    "address" :> [struct EXCEPT !.structType = "Address", !.fields = <<cityField, noteField>>] @@
    "line"    :> [struct EXCEPT !.structType = "Line", !.fields = <<quantityField, priceField, tagsField>>] @@
    "order"   :> [struct EXCEPT !.title = "Order", !.structType = "orderDto", !.fields = <<toField, linesField, metaField>>] @@
    "node"    :> [struct EXCEPT !.structType = "Node", !.fields = <<depthField, childrenField, parentField>>] @@
    "sku"     :> [struct EXCEPT !.structType = "SkuArgs", !.fields = <<skuField, flagField>>] @@
    "problem" :> [struct EXCEPT !.structType = "Problem", !.fields = <<[nameField EXCEPT !.calls = <<Do("String")>>]>>]

\* With @@, TLC evaluates the table once.
mcContractSchemas ==
    [s \in DOMAIN mcContractDeclarations |-> B!New(mcContractDeclarations[s])] @@ <<>>

RECURSIVE mcNesting(_)
mcNesting(p) == <<p>> \o IF p.item = {} THEN <<>> ELSE mcNesting(CHOOSE b \in p.item : TRUE)

-----------------------------------------------------------------------------
mcModules ==
    "app"    :> [controllers |-> <<"orders">>, imports |-> <<"trees", "shared">>] @@
    "trees"  :> [controllers |-> <<"trees">>, imports |-> <<"shared">>] @@
    "shared" :> [controllers |-> <<>>, imports |-> <<"app">>] @@
    "unused" :> [controllers |-> <<"hidden">>, imports |-> <<>>]

mcControllers ==
    "orders" :> [prefix |-> <<"orders">>, routes |-> <<"place", "show", "probe">>, bearerAuth |-> TRUE] @@
    "trees"  :> [prefix |-> <<"trees">>, routes |-> <<"plant", "import">>, bearerAuth |-> FALSE] @@
    "hidden" :> [prefix |-> <<"hidden">>, routes |-> <<"plant">>, bearerAuth |-> FALSE]

mcRoute == [method |-> "get", path |-> <<>>, excluded |-> FALSE, bearerAuth |-> {}, params |-> {}, query |-> {},
          form |-> {}, fileFields |-> {}, body |-> {}, code |-> 200, responses |-> <<>>]

mcRoutes ==
    "place"  :> [mcRoute EXCEPT !.method = "post", !.body = {"order"}, !.responses = 201 :> {"order"} @@ 400 :> {} @@ 204 :> {}] @@
    "show"   :> [mcRoute EXCEPT !.path = <<":id">>, !.params = {"address"}, !.query = {"line"}, !.bearerAuth = {FALSE},
                                !.responses = 404 :> {} @@ 200 :> {"order"}] @@
    "probe"  :> [mcRoute EXCEPT !.path = <<"probe">>, !.excluded = TRUE, !.body = {"timed"}] @@
    "plant"  :> [mcRoute EXCEPT !.method = "post", !.body = {"node"}] @@
    "import" :> [mcRoute EXCEPT !.method = "put", !.form = {"line"}, !.fileFields = {"scan"}, !.body = {"patch"}]

mcOperation == [root |-> "Query", name |-> "order", args |-> {}, returns |-> {"order"}, list |-> FALSE]

mcGood == << [mcOperation EXCEPT !.list = TRUE],
             [mcOperation EXCEPT !.name = "lists", !.returns = {"bare"}, !.args = {"address"}],
             [mcOperation EXCEPT !.root = "Mutation", !.name = "note", !.returns = {}, !.args = {"sku"}],
             [mcOperation EXCEPT !.root = "Subscription", !.returns = {"line"}] >>

mcOperationLists ==
    { mcGood,
      Append(mcGood, [mcOperation EXCEPT !.returns = {"address"}]),
      Append(mcGood, [mcOperation EXCEPT !.root = "Mutation", !.name = "late", !.returns = {"patch"}]),
      << [mcOperation EXCEPT !.args = {"timed"}] >>,
      << [mcOperation EXCEPT !.returns = {"timed"}], mcOperation >> }

-----------------------------------------------------------------------------
addresses == {obj(at) : at \in Partial({"city", "note"}, {Null, str("a"), str("abc"), num(4)})}
lineSet2 == {obj(f @@ g) : f \in Partial({"quantity", "price"}, {Null, num(2), num(3), num(8), num(18)}),
                       g \in Partial({"tags"}, {Null, arr(<<>>), arr(<<str("a"), Null>>), arr(<<str("abc")>>)})}
goodLine == obj("quantity" :> num(2))
orderBodies ==
    {obj(f @@ g) : f \in Partial({"to"}, addresses \cup {Null, num(2)}),
                   g \in Partial({"lines", "Meta"}, {obj(<<>>), arr(<<>>), arr(<<goodLine>>), arr(<<goodLine, num(2)>>)})}
    \cup {obj("lines" :> arr(<<l>>) @@ "Meta" :> obj(<<>>)) : l \in lineSet2}
leafSet == {obj("depth" :> d) : d \in {num(2), num(3), num(18), Null}}
nodeBodies ==
    {obj(f @@ g) : f \in Partial({"depth", "parent"}, {Null, num(4), str("a")} \cup leafSet),
                   g \in Partial({"children"}, {Null, arr(<<>>)} \cup {arr(<<l>>) : l \in leafSet})}

mcContractCases ==
    mcCases \cup {[mcCall EXCEPT !.source = "json", !.schema = s[1], !.input = s[2]] :
                    s \in ({"order"} \X orderBodies) \cup ({"node"} \X nodeBodies)}
=============================================================================

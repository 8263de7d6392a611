----------------------------- MODULE MCSmithCli ------------------------------
EXTENDS SmithCli

FourNames == {"a", "b", "output", "args-json"}
ThreeTypes == {"string", "integer", "array"}
TwoScalars == {"string", "integer"}

Declare(name, in, required, type) ==
    [name |-> name, in |-> in, required |-> required, type |-> type]

\* Path parameters are required, as OpenAPI has it.
SomeParameters ==
    {Declare("a", "path", TRUE, "string"), Declare("a", "query", TRUE, "integer"),
     Declare("a", "query", FALSE, "string"), Declare("b", "query", FALSE, "string"),
     Declare("a", "header", TRUE, "string"), Declare("b", "header", TRUE, "string"),
     Declare("b", "query", FALSE, "array"), Declare("b", "cookie", FALSE, "string")}

Thing(fields, required) == [kind |-> "object", fields |-> fields, required |-> required]
A == Thing([n \in {"a"} |-> "string"], {"a"})
B == Thing([n \in {"b"} |-> "integer"], {})
AB == Thing([n \in {"a", "b"} |-> "string"], {"b"})
List == Thing([n \in {"a", "b"} |-> IF n = "a" THEN "array" ELSE "string"], {"a"})
Loose == Thing([n \in {"a"} |-> "string"], {"a", "b"})
Output == Thing([n \in {"b", "output"} |-> "string"], {"b"})
Json == Thing([n \in {"args-json"} |-> "string"], {})
Empty == Thing(<< >>, {})
Plain == [kind |-> "plain", fields |-> << >>, required |-> {}]
All(parts, fields, required) ==
    [kind |-> "allOf", parts |-> parts, fields |-> fields, required |-> required]

SomeBodies ==
    {Null, A, B, AB, List, Loose, Output, Empty, Plain, [kind |-> "oneOf"],
     All(<<B, A>>, Null, Null), All(<<A, AB>>, Null, Null), All(<<Plain, B>>, Null, Null),
     All(<<A>>, B.fields, {}), All(<<A>>, B.fields, Null), All(<<A, B>>, Null, {"b"})}

Operations(bodies) ==
    {op \in [name : {1}, hidden : {FALSE}, shared : {s \in SUBSET SomeParameters : Cardinality(s) <= 1},
             own : {s \in SUBSET SomeParameters : Cardinality(s) <= 2}, body : bodies,
             path : SUBSET {"a"}, whole : SUBSET {"a"}] :
        /\ \A p, q \in op.own : <<p.name, p.in>> = <<q.name, q.in>> => p = q
        /\ op.path = {p.name : p \in {q \in op.own \cup op.shared : q.in = "path"}}
        /\ op.whole \subseteq op.path}

Simple(name, hidden, body) ==
    [name |-> name, hidden |-> hidden, shared |-> {}, own |-> {}, body |-> body, path |-> {},
     whole |-> {}]

OneOperation == {<<op>> : op \in Operations(SomeBodies)}
ThreeOperations ==
    LET some == {Simple(n, h, b) : n \in {1, 2}, h \in BOOLEAN, b \in {A, Json, Plain}}
    IN  {<<x, y, z>> : x \in some, y \in some, z \in some}
SomeApis == OneOperation \cup ThreeOperations

\* --output is one of two words, whoever it is meant for.
JsonOrRaw == [n \in {"output"} |-> {"word"}]

\* The key is in the query, under a name that operations declare too.
KeyInQuery == [in |-> "query", name |-> "b"]

SomeLines ==
    [flags : UNION {[D -> Texts] : D \in SUBSET {"a", "b"}} \cup [{"b", "output"} -> {"word", "list"}],
     json : UNION {[D -> TwoScalars] : D \in SUBSET {"a", "b"}} \cup [{"a"} -> {Dots}] \cup {Null}]
=============================================================================

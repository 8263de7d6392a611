---------------------------- MODULE MCSidecarHttp ----------------------------
EXTENDS SidecarHttp

Inject(key, value) == [type |-> "inject", key |-> key, value |-> value]
Default(key, value) == [type |-> "default", key |-> key, value |-> value]
Rename(from, to) == [type |-> "rename", from |-> from, to |-> to]
Drops(key) == [type |-> "remove", key |-> key]
Extract(pointer) == [type |-> "extract", pointer |-> pointer]
Redact(pattern) == [type |-> "redact", pattern |-> pattern, replacement |-> "***"]
Template(template) == [type |-> "template", template |-> template]
Block(key, pattern) == [type |-> "block", key |-> key, pattern |-> pattern]
Require(key) == [type |-> "require", key |-> key]

Part(filters, input, output) ==
    [hidden |-> FALSE, filters |-> filters, input |-> input, output |-> output]
Nothing == Part(<< >>, << >>, << >>)

\* The patterns `secret' and `etc' match those words, the empty one all, and `(' does
\* not compile; the templates are {"out": {{value}}} and: Result: {{value}}.
First ==
    [global |-> Part(<<Require("path"), Block("path", "etc")>>,
                     <<Inject("key", "${KEY}"), Default("note", "none")>>,
                     <<Redact("${PATTERN}"), Template("json")>>),
     tool |-> Part(<<Block("note", "("), Block("_smith_identity", "etc")>>,
                   <<Rename("note", "path"), Drops("${UNSET}")>>,
                   <<Extract("out"), Extract("${UNSET}"), Template("plain"), Redact("home"), Inject("key", "none")>>)]
Second ==
    [global |-> Part(<<Require("${KEY}")>>, <<Rename("key", "_smith_identity")>>, <<Redact("(")>>),
     tool |-> Part(<<Require("path"), Block("note", "${UNSET}")>>, <<Default("path", "home")>>, << >>)]
Hiding == [global |-> Nothing, tool |-> [Nothing EXCEPT !.hidden = TRUE]]

SomeEdits == <<First, Second, Hiding>>
SomeBodies ==
    {[path |-> "home", key |-> "secret"], [path |-> "null", note |-> "etc"],
     [path |-> "secret", note |-> "etc", _smith_identity |-> "bob"]}

Leaf(kind, word) == [kind |-> kind, words |-> {word}]
SomeResults ==
    {[path \in {<<"text">>, <<"list", "0">>, <<"list", "1">>} |->
        IF path = <<"text">> THEN Text({"secret", "home"})
        ELSE IF path = <<"list", "0">> THEN Leaf("number", "7") ELSE Text({"secret"})],
     [path \in {<< >>} |-> Text({"home"})]}

SomeEnv == [v \in {"${KEY}", "${PATTERN}"} |-> IF v = "${KEY}" THEN "key" ELSE "secret"]
SomeVariables == {"${KEY}", "${PATTERN}", "${UNSET}"}
SomeWords == {"home", "secret", "etc", "null", "bob", "alice", "none"}
SomeRegexes == [p \in {"secret", "etc", ""} |-> IF p = "" THEN SomeWords ELSE {p}]
SomeWraps == [t \in {"json"} |-> "out"]
=============================================================================

----------------------------- MODULE ApiCompiler -----------------------------
(***************************************************************************)
(* service/api-sidecar/src/compiler.rs: compile_tools turns the operations *)
(* of an OpenAPI document into tools one after the other, and execute_tool *)
(* maps the arguments of a call back to the parts of a request.            *)
(*                                                                         *)
(* References are resolved.  A schema is an object with typed fields, an   *)
(* allOf of such objects with or without fields of its own, or of a kind   *)
(* that has no fields.  Types are what validate_value looks at of a field; *)
(* it passes over enum, and fields of objects in objects are not told      *)
(* apart.  Lists and texts are not empty: of an empty list the query gets  *)
(* nothing, and an empty text leaves an empty segment in the path.  The    *)
(* target base URL has no path of its own, which set_path would replace.   *)
(* A tool's name is its place in the alphabet.                             *)
(***************************************************************************)
EXTENDS Naturals, FiniteSets, SequencesExt

CONSTANTS
    Names,      \* of parameters and body fields
    Types,      \* of their schemas and of values
    Scalars,
    Dots,       \* the string "." or "..", which is a step where it is a segment of a path
    Secret,     \* where the configured secret goes, Null without one
    Apis,       \* documents: sequences of operations
    Exposed,    \* compile.expose_headers
    Null        \* what is not there

Maps == UNION {[D -> Types] : D \in SUBSET Names}

\* A value is known by its type, unless it is dots.
Values == Types \cup {Dots}
Arguments == UNION {[D -> Values] : D \in SUBSET Names}
TypeOf(value) == IF value = Dots THEN "string" ELSE value

\* What serde reads, whatever the document means: objects, other schemas without
\* fields, and allOf with or without keys of its own beside it
Parameter == [name : Names, in : {"path", "query", "header", "cookie"}, required : BOOLEAN, type : Types]
Object == [kind : {"object", "plain"}, fields : Maps, required : SUBSET Names]
Member == Object \cup [kind : {"oneOf"}]
Schema ==
    Member \cup [kind : {"allOf"}, parts : Seq(Member), fields : {Null} \cup Maps,
                required : {Null} \cup SUBSET Names]
\* Of its placeholders, in path, those in whole are each a whole segment; the other
\* segments have a character that is no dot.
Operation ==
    [name : Nat, hidden : BOOLEAN, shared : SUBSET Parameter, own : SUBSET Parameter,
     body : {Null} \cup Schema, path : SUBSET Names, whole : SUBSET Names]

\* Without a path it goes to another one than the operation's.
Secrets == [in : {"query", "header"}, name : Names]
Request ==
    [path : {Null} \cup Arguments, query : Arguments, header : Arguments,
     body : {Null} \cup Arguments, secret : {Null} \cup Secrets]
Called == [nth : Nat, args : Arguments, request : Request]

ASSUME NullAssumption == Null \notin Arguments /\ Null \notin Called
ASSUME DotsAssumption == Dots \notin Types
ASSUME SecretAssumption == Secret \in {Null} \cup Secrets
ASSUME ExposedAssumption == Exposed \subseteq Names
ASSUME ApisAssumption == Apis \subseteq Seq(Operation)

\* OpenAPI: a list of parameters has one of a name and place, and those in the path
\* are its placeholders and required.
WellDeclared(op) ==
    LET placed == {p \in op.own \cup op.shared : p.in = "path"} IN
    /\ \A list \in {op.own, op.shared} : \A p, q \in list :
        <<p.name, p.in>> = <<q.name, q.in>> => p = q
    /\ op.path = {p.name : p \in placed} /\ op.whole \subseteq op.path
    /\ \A p \in placed : p.required

ASSUME OpenApiAssumption == \A api \in Apis : \A i \in DOMAIN api : WellDeclared(api[i])

VARIABLES
    document,
    done,      \* how many operations compile_tools has been through
    tools,     \* the public tools, sorted in the end
    index,     \* tool_index: an operation's number and its tool, by name
    warnings,  \* the operations diagnostics warns of
    call       \* the tool called last, its arguments and the request that was sent

compilerVars == <<document, done, tools, index, warnings, call>>

-----------------------------------------------------------------------------
(* compile_schema *)

\* merge_object_schema, for all members: objects without a field in common
Mergeable(parts) ==
    /\ \A i \in DOMAIN parts : parts[i].kind = "object"
    /\ \A i, j \in DOMAIN parts :
        i # j => DOMAIN parts[i].fields \cap DOMAIN parts[j].fields = {}

Together(maps) ==
    [n \in UNION {DOMAIN f : f \in maps} |-> (CHOOSE f \in maps : n \in DOMAIN f)[n]]

\* Mutant: the fields of the first member.
FirstFields(parts) == parts[1].fields

Fields(parts) == Together({parts[i].fields : i \in DOMAIN parts})

Required(parts) == UNION {parts[i].required : i \in DOMAIN parts}

\* The keys beside allOf replace what was merged: merged.insert(key, value)
Merged(s) ==
    IF s.kind # "allOf" THEN s
    ELSE [kind |-> "object",
          fields |-> IF s.fields = Null THEN Fields(s.parts) ELSE s.fields,
          required |-> IF s.required = Null THEN Required(s.parts) ELSE s.required]

\* oneOf and anyOf fail, and so does an allOf that cannot be merged.
Compiles(s) == s.kind # "oneOf" /\ (s.kind = "allOf" => Mergeable(s.parts))

-----------------------------------------------------------------------------
(* compile_operation *)

\* Mutant: what the path item declares replaces what the operation does.
PathItemFirst(op) ==
    op.shared \cup {p \in op.own : \A q \in op.shared : <<q.name, q.in>> # <<p.name, p.in>>}

\* collect_parameters
Collected(op) ==
    op.own \cup {p \in op.shared : \A q \in op.own : <<q.name, q.in>> # <<p.name, p.in>>}

Parameters(op) == {p \in Collected(op) : p.in = "header" => p.name \in Exposed}

\* Mutant: insert_property takes the later of two fields.
Overwrites(ps, body) == TRUE

\* insert_property: "duplicate input field"
NoCollision(ps, body) ==
    /\ \A p, q \in ps : p.name = q.name => p = q
    /\ body # Null => \A p \in ps : p.name \notin DOMAIN body.fields

Supported(op) ==
    LET ps == Parameters(op)
        body == IF op.body = Null \/ ~Compiles(op.body) THEN Null ELSE Merged(op.body)
    IN  /\ \A p \in ps : p.in \in {"path", "query", "header"} /\ p.type \in Scalars
        /\ op.body # Null => body # Null /\ body.kind = "object"
        /\ NoCollision(ps, body)

Tool(op) ==
    LET ps == Parameters(op)
        body == IF op.body = Null THEN [fields |-> << >>, required |-> {}] ELSE Merged(op.body)
        args == {p.name : p \in ps}
    IN  [fields |-> [n \in args \cup DOMAIN body.fields |->
                        IF n \in DOMAIN body.fields THEN body.fields[n]
                        ELSE (CHOOSE p \in ps : p.name = n).type],
         required |-> {p.name : p \in {q \in ps : q.required}} \cup body.required,
         parameters |-> ps, path |-> op.path, whole |-> op.whole,
         hasBody |-> op.body # Null, body |-> DOMAIN body.fields]

-----------------------------------------------------------------------------
(* compile_tools *)

CompilerInit ==
    /\ document \in Apis
    /\ done = 0 /\ tools = << >> /\ index = << >> /\ warnings = {} /\ call = Null

\* Excluded by its name, without an included tag, or hidden by an override or by itself
Skipped(op) == op.hidden

\* tool_index.contains_key
Taken(op) == op.name \in DOMAIN index

\* tools.sort_by: names differ, so the i-th is the one that i are not behind.
Sorted(names) ==
    [i \in 1..Cardinality(names) |-> CHOOSE n \in names : Cardinality({m \in names : m <= n}) = i]

\* After the last operation
InOrder(list) == IF done + 1 = Len(document) THEN Sorted(ToSet(list)) ELSE list

CompileNext ==
    /\ done < Len(document)
    /\ done' = done + 1
    /\ LET op == document[done + 1]
           skip == tools' = InOrder(tools) /\ UNCHANGED index
       IN
        \/ Skipped(op) /\ skip /\ UNCHANGED warnings
        \/ ~Skipped(op) /\ (~Supported(op) \/ Taken(op)) /\ skip /\ warnings' = warnings \cup {done + 1}
        \/ /\ ~Skipped(op) /\ Supported(op) /\ ~Taken(op)
           /\ tools' = InOrder(Append(tools, op.name))
           /\ index' = [n \in DOMAIN index \cup {op.name} |->
                            IF n = op.name THEN [nth |-> done + 1, tool |-> Tool(op)] ELSE index[n]]
           /\ UNCHANGED warnings
    /\ UNCHANGED <<document, call>>

-----------------------------------------------------------------------------
(* execute_tool *)

\* validate_payload
ValidPayload(tool, args) ==
    /\ tool.required \subseteq DOMAIN args
    /\ DOMAIN args \subseteq DOMAIN tool.fields
    /\ \A n \in DOMAIN args : TypeOf(args[n]) = tool.fields[n]

\* render_path fails for a placeholder without an argument.
Renders(tool, args) == tool.path \subseteq DOMAIN args

\* encode escapes what could end a segment and leaves dots alone; set_path then takes
\* a segment of dots for a step, out of the segment before it if there are two.
Dissolves(tool, args) == \E n \in tool.whole : args[n] = Dots

\* Arguments go where their bindings say, and the path takes those of its
\* placeholders; the secret is added to the query or the headers.
Sent(tool, args) ==
    LET At(place) == {p.name : p \in {q \in tool.parameters : q.in = place}}
        Part(ns) == Restrict(args, ns \cap DOMAIN args)
    IN  [path |-> IF Dissolves(tool, args) THEN Null ELSE Restrict(args, tool.path),
         query |-> Part(At("query")), header |-> Part(At("header")),
         body |-> IF tool.hasBody THEN Part(tool.body) ELSE Null, secret |-> Secret]

Execute(name, args) ==
    /\ done = Len(document)
    /\ ValidPayload(index[name].tool, args) /\ Renders(index[name].tool, args)
    /\ call' = [nth |-> index[name].nth, args |-> args, request |-> Sent(index[name].tool, args)]
    /\ UNCHANGED <<document, done, tools, index, warnings>>

CompilerNext ==
    \/ CompileNext
    \/ \E name \in DOMAIN index : \E args \in Arguments : Execute(name, args)

CompilerSpec == CompilerInit /\ [][CompilerNext]_compilerVars

-----------------------------------------------------------------------------
(* What an OpenAPI operation asks of a request *)

\* All members of an allOf hold, and so do the keys beside it.
Members(s) ==
    IF s.kind # "allOf" THEN <<s>>
    ELSE Append(s.parts, [kind |-> "object",
                          fields |-> IF s.fields = Null THEN << >> ELSE s.fields,
                          required |-> IF s.required = Null THEN {} ELSE s.required])

KeysBesideAllOf(s) ==
    s # Null /\ s.kind = "allOf" /\ (s.fields # Null \/ s.required # Null)

\* What it requires is declared, and nothing beside an allOf replaces what is in it.
Straight(s) ==
    s # Null =>
        /\ ~KeysBesideAllOf(s)
        /\ \A i \in DOMAIN Members(s) :
            Members(s)[i].required \subseteq UNION {DOMAIN Members(s)[j].fields : j \in DOMAIN Members(s)}

BodyMeets(s, body) ==
    LET all == Members(s) IN
    \A i \in DOMAIN all :
        /\ all[i].required \subseteq DOMAIN body
        /\ \A n \in DOMAIN all[i].fields \cap DOMAIN body : TypeOf(body[n]) = all[i].fields[n]

\* The operation's own declaration of a parameter counts before the path item's.
Declared(op) ==
    {p \in op.own \cup op.shared :
        p \in op.own \/ \A q \in op.own : q.name # p.name \/ q.in # p.in}

\* A parameter that is given is given once.
Meets(op, request) ==
    /\ request.path # Null
    /\ \A p \in Declared(op) :
        LET part == request[p.in] IN
        /\ p.required /\ (p.in = "header" => p.name \in Exposed) => p.name \in DOMAIN part
        /\ p.name \in DOMAIN part =>
            TypeOf(part[p.name]) = p.type /\ request.secret # [in |-> p.in, name |-> p.name]
    /\ \A place \in {"path", "query", "header"} : \A n \in DOMAIN request[place] :
        \E p \in Declared(op) : p.name = n /\ p.in = place
    /\ IF op.body = Null THEN request.body = Null
       ELSE request.body # Null /\ BodyMeets(op.body, request.body)

-----------------------------------------------------------------------------
\* An operation is hidden, or warned of, or the tool of its name, and the list
\* of tools is the index, sorted in the end (compiler.rs:364-451).
CompilerTypeOK ==
    /\ document \in Apis /\ done \in 0..Len(document)
    /\ tools \in Seq(Nat) /\ ToSet(tools) = DOMAIN index /\ IsInjective(tools)
    /\ done = Len(document) => \A i, j \in DOMAIN tools : i < j => tools[i] < tools[j]
    /\ \A i \in 1..done :
        \/ document[i].hidden
        \/ i \in warnings
        \/ document[i].name \in DOMAIN index /\ index[document[i].name].nth = i

\* An argument that is a whole segment of the path is dots.
Stepped(op, args) == \E n \in op.whole : args[n] = Dots

\* A request that is sent is one the operation allows: every required parameter
\* is there, in its place and with its type, nothing else is, and the body is of
\* its schema (compiler.rs:127-222, 456-634), unless the schema has keys beside an
\* allOf, which replace what its members ask for (compiler.rs:717), or requires what
\* it does not declare, which is sent as the parameter of that name (compiler.rs:547),
\* or dots lead to another path (compiler.rs:147), or the operation declares the
\* secret as a parameter, which is sent twice (compiler.rs:150, 170).
RequestMeets ==
    call # Null =>
        LET op == document[call.nth] IN
        \/ ~Straight(op.body)
        \/ Stepped(op, call.args)
        \/ \E p \in Declared(op) : Secret = [in |-> p.in, name |-> p.name]
        \/ Meets(op, call.request)

Places == {"path", "query", "header", "body"}
Given(request, place) == IF request[place] = Null THEN << >> ELSE request[place]

\* Every argument of a call is in the request as it was given, in one place, and
\* beside the secret nothing else is; but where one is dots in a segment of the path
\* for itself, the path takes it for a step, and its arguments are lost (compiler.rs:146-187).
ArgumentsArrive ==
    call # Null =>
        LET op == document[call.nth] IN
        /\ \A place \in Places : DOMAIN Given(call.request, place) \subseteq DOMAIN call.args
        /\ call.request.secret = Secret
        /\ \A n \in DOMAIN call.args :
            \/ n \in op.path /\ Stepped(op, call.args)
            \/ \E place \in Places :
                /\ n \in DOMAIN Given(call.request, place)
                /\ Given(call.request, place)[n] = call.args[n]
                /\ \A other \in Places \ {place} : n \notin DOMAIN Given(call.request, other)

\* Every tool that is listed can be called with some arguments, with the exceptions
\* of RequestMeets: no arguments are all that is required and only what is declared.
ToolsAreCallable ==
    \A n \in DOMAIN index : Straight(document[index[n].nth].body) =>
        \E args \in Arguments : ValidPayload(index[n].tool, args) /\ Renders(index[n].tool, args)

-----------------------------------------------------------------------------
(* The inductive invariant *)

\* A tool is the operation's that is indexed under its name.
IndexIsCompiled ==
    \A n \in DOMAIN index :
        /\ index[n].nth \in 1..done
        /\ LET op == document[index[n].nth] IN
            op.name = n /\ Supported(op) /\ index[n].tool = Tool(op)

\* A request is the one of its arguments, which are those of a tool.
CallWasValid ==
    call # Null => \E n \in DOMAIN index :
        LET tool == index[n].tool IN
        /\ call.nth = index[n].nth /\ call.args \in Arguments
        /\ ValidPayload(tool, call.args) /\ Renders(tool, call.args)
        /\ call.request = Sent(tool, call.args)

CompilerInductive == CompilerTypeOK /\ IndexIsCompiled /\ CallWasValid
=============================================================================

------------------------------ MODULE SmithCli -------------------------------
(***************************************************************************)
(* The smith CLI (internal/smithcli/app.go) before an API sidecar          *)
(* (ApiCompiler): it makes a command with typed flags of every tool in the *)
(* catalog and sends what a command line gives as the arguments of a call. *)
(* The catalog passes tools and calls on.  A line the CLI refuses changes  *)
(* nothing.                                                                *)
(***************************************************************************)
EXTENDS ApiCompiler

CONSTANTS
    ArgsJson,  \* the flag every command has
    Accepted,  \* from the names of the global flags to the texts with which a line is
               \* parsed and still goes to this catalog as this caller
    Lines      \* the flags of command lines, texts by name, and their --args-json

\* A text is a word, digits, a list in JSON or dots.
Texts == {"word", "digits", "list", "dots"}
Flags == UNION {[D -> Texts] : D \in SUBSET Names}

ASSUME TypesAssumption == Types \subseteq {"string", "integer", "array"} /\ Null \notin Types
ASSUME LinesAssumption == Dots # Null /\ Lines \subseteq [flags : Flags, json : {Null} \cup Arguments]

VARIABLE line  \* the line behind the last call: its tool, its flags and its --args-json

cliVars == <<compilerVars, line>>

CliInit == CompilerInit /\ line = Null

-----------------------------------------------------------------------------
(* BootstrapConfig, BuildRootCmd *)

\* Global flags are looked for in the whole line, whoever they are meant for, and what
\* they are set to is taken over: another catalog or caller gets the call instead, of
\* which nothing is seen here.  Other flags are skipped.
Boots(flags) == \A n \in DOMAIN flags \cap DOMAIN Accepted : flags[n] \in Accepted[n]

\* A second flag of one name is a panic, whichever tool is called.
Builds == \A n \in DOMAIN index : ArgsJson \notin DOMAIN index[n].tool.fields

-----------------------------------------------------------------------------
(* newToolCmd *)

\* Mutant: what is no scalar is taken as it is written.
NoJsonValue(type) == IF type = "integer" THEN "int" ELSE "string"

\* newArgumentValue
ArgumentValue(type) ==
    CASE type = "integer" -> "int" [] type = "array" -> "json" [] OTHER -> "string"

\* Set: what a text is parsed to, Null if it cannot be.  A list or an object may be
\* any JSON.
Set(value, text) ==
    CASE value = "string" -> IF text = "dots" THEN Dots ELSE "string"
      [] value # "string" /\ text = "digits" -> "integer"
      [] value = "json" /\ text = "list" -> "array"
      [] OTHER -> Null

Argument(type, text) == Set(ArgumentValue(type), text)

\* The flags of the line that are the command's own
Bound(tool, flags) == DOMAIN flags \cap DOMAIN tool.fields

\* Mutant: what --args-json says counts.
JsonOverFlags(tool, flags, json) ==
    LET given == IF json = Null THEN << >> ELSE json IN
    [n \in DOMAIN given \cup Bound(tool, flags) |->
        IF n \in DOMAIN given THEN given[n] ELSE Argument(tool.fields[n], flags[n])]

\* --args-json first, the flags over it
Payload(tool, flags, json) ==
    LET given == IF json = Null THEN << >> ELSE json IN
    [n \in DOMAIN given \cup Bound(tool, flags) |->
        IF n \in Bound(tool, flags) THEN Argument(tool.fields[n], flags[n]) ELSE given[n]]

\* missingRequiredProperties
Missing(tool, payload) == tool.required \ DOMAIN payload

\* The CLI starts, knows every flag, parses every value and misses no argument.
Sends(tool, flags, json) ==
    /\ Builds /\ Boots(flags)
    /\ DOMAIN flags \subseteq DOMAIN tool.fields \cup DOMAIN Accepted
    /\ \A n \in Bound(tool, flags) : Argument(tool.fields[n], flags[n]) # Null
    /\ Missing(tool, Payload(tool, flags, json)) = {}

\* call_tool of the sidecar
Serves(tool, args) == ValidPayload(tool, args) /\ Renders(tool, args)

\* CallTool; the sidecar executes the tool, or refuses the call.
Runs(name, flags, json) ==
    LET tool == index[name].tool
        payload == Payload(tool, flags, json)
    IN  /\ done = Len(document) /\ call = Null
        /\ Sends(tool, flags, json)
        /\ line' = [name |-> name, flags |-> flags, json |-> json]
        /\ IF Serves(tool, payload) THEN Execute(name, payload)
           ELSE UNCHANGED compilerVars

CliNext ==
    \/ CompilerNext /\ line' = Null
    \/ \E name \in DOMAIN index : \E l \in Lines : Runs(name, l.flags, l.json)

CliSpec == CliInit /\ [][CliNext]_cliVars

-----------------------------------------------------------------------------
CliTypeOK == CompilerTypeOK /\ (line # Null => line.name \in DOMAIN index)

Arrives(n, value) ==
    \E part \in {"path", "query", "header", "body"} :
        call.request[part] # Null /\ n \in DOMAIN call.request[part] /\ call.request[part][n] = value

\* What the text of a flag is meant to be
Meant(type, text) == IF text = "dots" THEN Dots ELSE type

\* A line that was sent is refused only for a list that was given as something else
\* or for what --args-json says of an argument that no flag gives; of a line that is
\* executed, each flag of the tool's reaches the target service in its place and as
\* the type the document asks for, and what --args-json says of other arguments does
\* too (app.go:383-403, 518-531), but for those of a path in which dots are a step.
FlagsArrive ==
    line # Null =>
        LET fields == index[line.name].tool.fields
            own == Bound(index[line.name].tool, line.flags)
            others == IF line.json = Null THEN {} ELSE DOMAIN line.json \ own
        IN  /\ call = Null =>
                \/ \E n \in own : fields[n] = "array" /\ line.flags[n] # "list"
                \/ \E n \in others : n \notin DOMAIN fields \/ TypeOf(line.json[n]) # fields[n]
            /\ call # Null =>
                LET op == document[call.nth]
                    lost == IF Stepped(op, call.args) THEN op.path ELSE {}
                IN  /\ \A n \in own \ lost : Arrives(n, Meant(fields[n], line.flags[n]))
                    /\ \A n \in others \ lost : Arrives(n, line.json[n])

\* "it creates a command with flags derived from the tool's input schema"
\* (docs/cli.md:5): flags alone are enough to call any tool, unless it requires an
\* argument named like a global flag, or some tool has one named args-json, with
\* which the CLI does not start; with the exceptions of RequestMeets.
FlagsSuffice ==
    done = Len(document) /\ Builds =>
        \A name \in DOMAIN index :
            LET tool == index[name].tool IN
            \/ ~Straight(document[index[name].nth].body)
            \/ tool.required \cap DOMAIN Accepted # {}
            \/ \E flags \in Flags :
                Sends(tool, flags, Null) /\ Serves(tool, Payload(tool, flags, Null))
=============================================================================

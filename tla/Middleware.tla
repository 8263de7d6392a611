----------------------------- MODULE Middleware ------------------------------
(***************************************************************************)
(* service/mcp-sidecar/src/middleware: a configuration filters and         *)
(* transforms the arguments of a call and transforms its result.           *)
(*                                                                         *)
(* Arguments are a function from their names to words.  A JSON result is a *)
(* function from paths, sequences of keys, to leaves; a leaf is a text     *)
(* with the words in it, or a number or null, which no pattern reaches.    *)
(***************************************************************************)
EXTENDS Naturals, SequencesExt

CONSTANTS
    Env,        \* the environment: from the `${VAR}' a configuration may hold to texts
    Variables,  \* these texts
    Regexes,    \* from the patterns that compile to the words they match
    Wraps,      \* from the templates that render to JSON to the key of {{value}}
    NullWord,   \* null among the arguments
    Empty       \* ""

ASSUME WrapAssumption == \A template \in DOMAIN Wraps : Wraps[template] \in STRING

Null == [kind |-> "null", words |-> {}]
Text(words) == [kind |-> "text", words |-> words]

Paths == Seq(STRING)

\* A result has a leaf, and null has no words.
IsResult(result) ==
    /\ DOMAIN result # {}
    /\ \A path \in DOMAIN result :
        /\ path \in Paths
        /\ result[path].kind \in {"text", "number", "null"}
        /\ result[path].kind = "null" => result[path].words = {}

\* TransformDef, FilterDef: their fields are texts; a message is for people.
Transforms ==
    [type : {"inject", "default"}, key : STRING, value : STRING]
        \cup [type : {"rename"}, from : STRING, to : STRING]
        \cup [type : {"remove"}, key : STRING]
        \cup [type : {"extract"}, pointer : STRING]
        \cup [type : {"redact"}, pattern : STRING, replacement : STRING]
        \cup [type : {"template"}, template : STRING]
Filters ==
    [type : {"block"}, key : STRING, pattern : STRING] \cup [type : {"require"}, key : STRING]

\* GlobalMiddleware, which hides nothing, and ToolMiddleware
Parts ==
    [hidden : BOOLEAN, input : Seq(Transforms), output : Seq(Transforms), filters : Seq(Filters)]
Configurations == [global : Parts, tool : Parts]

-----------------------------------------------------------------------------
(* MiddlewareConfig::load *)

\* interpolate_env: an unset variable is the empty text.
Interpolated(text) ==
    IF text \notin Variables THEN text
    ELSE IF text \in DOMAIN Env THEN Env[text] ELSE Empty

\* Every field of a transform or a filter is a text.
InterpolatedStep(step) ==
    [field \in DOMAIN step |->
        IF field = "type" THEN step.type ELSE Interpolated(step[field])]

InterpolatedChain(chain) == [i \in DOMAIN chain |-> InterpolatedStep(chain[i])]

InterpolatedPart(part) ==
    [part EXCEPT !.input = InterpolatedChain(@), !.output = InterpolatedChain(@),
                 !.filters = InterpolatedChain(@)]

\* The file has a global part and parts for tools, of which one matters to a call.
Loaded(written) ==
    [global |-> InterpolatedPart(written.global), tool |-> InterpolatedPart(written.tool)]

-----------------------------------------------------------------------------
(* evaluate_filters *)

Present(args, key) == key \in DOMAIN args /\ args[key] # NullWord

\* An invalid pattern blocks nothing.
Denies(filter, args) ==
    CASE filter.type = "block" ->
            /\ filter.key \in DOMAIN args
            /\ filter.pattern \in DOMAIN Regexes
            /\ args[filter.key] \in Regexes[filter.pattern]
      [] filter.type = "require" -> ~Present(args, filter.key)

\* Mutant: the last filter decides.
LastDenies(filters, args) == filters # << >> /\ Denies(Last(filters), args)

\* The first filter that denies ends the evaluation.
Denied(filters, args) == \E i \in DOMAIN filters : Denies(filters[i], args)

-----------------------------------------------------------------------------
(* apply_input_transforms *)

Put(args, key, value) ==
    [k \in DOMAIN args \cup {key} |-> IF k = key THEN value ELSE args[k]]

Minus(args, key) == [k \in DOMAIN args \ {key} |-> args[k]]

TransformInput(args, step) ==
    CASE step.type = "inject" -> Put(args, step.key, step.value)
      [] step.type = "default" ->
            IF Present(args, step.key) THEN args ELSE Put(args, step.key, step.value)
      [] step.type = "rename" ->
            IF step.from \in DOMAIN args
            THEN Put(Minus(args, step.from), step.to, args[step.from]) ELSE args
      [] step.type = "remove" -> Minus(args, step.key)
      [] OTHER -> args

\* The arguments before the first transform of a chain and after each of them
InputSteps(args, chain) ==
    LET after[i \in 0..Len(chain)] ==
            IF i = 0 THEN args ELSE TransformInput(after[i - 1], chain[i])
    IN  after

TransformedInput(args, chain) == InputSteps(args, chain)[Len(chain)]

-----------------------------------------------------------------------------
(* apply_output_transforms *)

\* result.pointer(pointer), a key of the result; all of it without one, and null where
\* there is none
Extracted(result, key) ==
    LET below == {path \in DOMAIN result : path # << >> /\ Head(path) = key} IN
    IF key = Empty THEN result
    ELSE IF below = {} THEN [path \in {<< >>} |-> Null]
    ELSE [path \in {Tail(p) : p \in below} |-> result[<<key>> \o path]]

\* redact_strings: texts at any depth, but no keys and no numbers
Redacted(result, words, replacement) ==
    [path \in DOMAIN result |->
        IF result[path].kind = "text" /\ result[path].words \cap words # {}
        THEN Text((result[path].words \ words) \cup {replacement})
        ELSE result[path]]

\* What is rendered is parsed again, and is one text if it is no JSON: with the
\* words, the keys and the numbers of the result in it.
Rendered(result, template) ==
    IF template \in DOMAIN Wraps
    THEN [path \in {<<Wraps[template]>> \o p : p \in DOMAIN result} |-> result[Tail(path)]]
    ELSE [path \in {<< >>} |->
            Text(UNION ({ToSet(p) : p \in DOMAIN result}
                        \cup {result[p].words : p \in DOMAIN result}))]

\* << >> stands for the error of an invalid pattern, which ends the chain.
TransformOutput(result, step) ==
    IF result = << >> THEN << >>
    ELSE CASE step.type = "extract" -> Extracted(result, step.pointer)
           [] step.type = "redact" ->
                IF step.pattern \in DOMAIN Regexes
                THEN Redacted(result, Regexes[step.pattern], step.replacement) ELSE << >>
           [] step.type = "template" -> Rendered(result, step.template)
           [] OTHER -> result

OutputSteps(result, chain) ==
    LET after[i \in 0..Len(chain)] ==
            IF i = 0 THEN result ELSE TransformOutput(after[i - 1], chain[i])
    IN  after

TransformedOutput(result, chain) == OutputSteps(result, chain)[Len(chain)]

-----------------------------------------------------------------------------
(* call_tool *)

Chain(config, phase) == config.global[phase] \o config.tool[phase]

Refuses(config, args) == config.tool.hidden \/ Denied(Chain(config, "filters"), args)

Sends(config, args) == TransformedInput(args, Chain(config, "input"))

Answers(config, result) == TransformedOutput(result, Chain(config, "output"))
=============================================================================

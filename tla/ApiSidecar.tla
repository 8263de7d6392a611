------------------------------ MODULE ApiSidecar ------------------------------
(***************************************************************************)
(* The compiled snapshot of service/api-sidecar (http.rs, compiler.rs):    *)
(* POST /reload looks for an OpenAPI document under one path after the     *)
(* other, compiles it and swaps the snapshot in, while calls go on with    *)
(* the snapshot they have taken.  A snapshot is known by the state of the  *)
(* target service its document was fetched in.                             *)
(***************************************************************************)
EXTENDS Naturals, FiniteSetsExt

CONSTANTS
    Main,            \* the start of the process
    Reloads, Calls,  \* requests, each made once
    None,
    Candidates,      \* how many paths are probed
    Kinds,           \* what a path may answer
    Schemas,         \* what documents define and refer to
    Graphs,          \* what may refer to what: from each schema to its $refs
    Used,            \* the schema an operation uses
    MaxChanges       \* bound on the changes of the target service

\* valid:    an OpenAPI 3 document with paths
\* no base:  one whose server's URL cannot be resolved, without target.base_url
\* other:    it parses as JSON or YAML, as an HTML page may, but is no such document
\* garbage:  it does not parse, or the status is no success
\* cut:      the connection ends inside the body
ASSUME KindsAssumption ==
    Kinds \subseteq {"valid", "no base", "other", "garbage", "cut"} /\ "valid" \in Kinds
ASSUME GraphAssumption == Used \in Schemas /\ Graphs \subseteq [Schemas -> SUBSET Schemas]
ASSUME BoundAssumption == Candidates \in Nat \ {0} /\ MaxChanges \in Nat

VARIABLES
    site,      \* what each path answers now
    changes,
    compiled,  \* state.compiled, None without a process
    pc,
    at,        \* the path a load is at
    doc,       \* the document it has found
    steady,    \* the paths that have answered with a valid document since it began
    snap,      \* the snapshot a call has taken
    after,     \* the reloads that had answered when it did
    overlapped \* history: the reloads that ran while another one did

vars == <<site, changes, compiled, pc, at, doc, steady, snap, after, overlapped>>

Paths == 1..Candidates
Loads == Reloads \cup {Main}
Requests == Reloads \cup Calls
NoRefs == [s \in Schemas |-> {}]
Pages == [kind : {"valid"} \cap Kinds, refs : Graphs] \cup [kind : Kinds \ {"valid"}, refs : {NoRefs}]
Documents == [page : Pages, version : 0..MaxChanges]
ASSUME NameAssumption ==
    /\ Main \notin Requests /\ Reloads \cap Calls = {}
    /\ None \notin Documents /\ None \notin 0..MaxChanges
Ended == {"reloaded", "no config", "not found", "cut off", "rejected", "done", "dropped"}
Valid(p) == site[p].kind \in {"valid", "no base"}
Up == pc[Main] = "serving"

TypeOK ==
    /\ site \in [Paths -> Pages] /\ changes \in 0..MaxChanges
    /\ compiled \in Documents \cup {None} /\ (compiled # None <=> Up)
    /\ pc \in [Loads \cup Calls -> {"idle", "probing", "compiling", "calling", "serving"} \cup Ended]
    /\ at \in [Loads -> Paths] /\ doc \in [Loads -> Documents \cup {None}]
    /\ steady \in [Loads -> SUBSET Paths]
    /\ snap \in [Calls -> 0..MaxChanges \cup {None}] /\ after \in [Calls -> SUBSET Reloads]
    /\ overlapped \subseteq Reloads
    /\ \A r \in Loads : pc[r] \in {"compiling", "reloaded", "serving"} => doc[r] # None
    /\ \A r \in Requests : pc[r] \notin Ended \cup {"idle"} => Up

Init ==
    /\ site \in [Paths -> Pages] /\ \E p \in Paths : Valid(p)
    /\ changes = 0
    /\ compiled = None
    /\ pc = [r \in Loads \cup Calls |-> "idle"]
    /\ at = [r \in Loads |-> 1] /\ doc = [r \in Loads |-> None]
    /\ steady = [r \in Loads |-> {}]
    /\ snap = [c \in Calls |-> None] /\ after = [c \in Calls |-> {}]
    /\ overlapped = {}

Goes(r, to) == pc' = [pc EXCEPT ![r] = to]

-----------------------------------------------------------------------------
(* main and reload *)

Begins(r) == steady' = [steady EXCEPT ![r] = {p \in Paths : Valid(p)}]

\* main, at first or of a process that is started again
Starts ==
    /\ pc[Main] \in Ended \cup {"idle"}
    /\ Goes(Main, "probing")
    /\ Begins(Main)
    /\ at' = [at EXCEPT ![Main] = 1]
    /\ UNCHANGED <<site, changes, compiled, doc, snap, after, overlapped>>

\* Config::load
ReloadStarts(r) ==
    /\ Up /\ pc[r] = "idle"
    /\ LET others == {q \in Reloads : pc[q] \notin Ended \cup {"idle"}} IN
        overlapped' = overlapped \cup (IF others = {} THEN {} ELSE others \cup {r})
    /\ \/ Goes(r, "probing") /\ Begins(r)
       \/ Goes(r, "no config") /\ UNCHANGED steady
    /\ UNCHANGED <<site, changes, compiled, at, doc, snap, after>>

\* Mutant: a path that does not answer ends the search.
GivesUp(r) == Goes(r, "not found") /\ UNCHANGED at

\* continue; after the last path "failed to discover OpenAPI document"
NextPath(r) ==
    \/ at[r] < Candidates /\ at' = [at EXCEPT ![r] = @ + 1] /\ UNCHANGED pc
    \/ at[r] = Candidates /\ Goes(r, "not found") /\ UNCHANGED at

\* load_document, DocumentSource::Probe: the first body that parses is taken.
Probe(r) ==
    /\ pc[r] = "probing"
    /\ LET kind == site[at[r]].kind IN
        \/ /\ kind \in {"valid", "other"}
           /\ doc' = [doc EXCEPT ![r] = [page |-> site[at[r]], version |-> changes]]
           /\ Goes(r, "compiling") /\ UNCHANGED at
        \/ kind = "cut" /\ Goes(r, "cut off") /\ UNCHANGED <<at, doc>>
        \/ kind = "garbage" /\ NextPath(r) /\ UNCHANGED doc
    /\ UNCHANGED <<site, changes, compiled, steady, snap, after, overlapped>>

\* validate_openapi_root
ValidRoot(d) == d.page.kind \in {"valid", "no base"}

\* resolve_target_base_url
HasBase(d) == d.page.kind # "no base"

\* What gets to compile_tools
Compilable(d) == ValidRoot(d) /\ HasBase(d)

\* The schemas that following $refs from some leads to
Reached(refs, from) ==
    FoldSet(LAMBDA s, found : found \cup UNION {refs[t] : t \in found}, from, Schemas)

\* resolve_component and compile_schema follow every $ref and call themselves; the
\* stack ends before a circle does.
Overflows(d) ==
    \E s \in Reached(d.page.refs, {Used}) : s \in Reached(d.page.refs, d.page.refs[s])

\* Mutant: the first reload's document stays.
Unswapped(r) == IF compiled = None THEN doc[r] ELSE compiled

Swapped(r) == doc[r]

\* compile_snapshot, and the swap under the write lock, which nobody keeps
\* across an await.
Compile(r) ==
    /\ pc[r] = "compiling" /\ ~(Compilable(doc[r]) /\ Overflows(doc[r]))
    /\ \/ Compilable(doc[r]) /\ compiled' = Swapped(r) /\ Goes(r, IF r = Main THEN "serving" ELSE "reloaded")
       \/ ~Compilable(doc[r]) /\ Goes(r, "rejected") /\ UNCHANGED compiled
    /\ UNCHANGED <<site, changes, at, doc, steady, snap, after, overlapped>>

\* An overflow of the stack is no panic and no error: it takes the process down, and
\* every request with it.
Aborts(r) ==
    /\ pc[r] = "compiling" /\ Compilable(doc[r]) /\ Overflows(doc[r])
    /\ compiled' = None
    /\ pc' = [q \in DOMAIN pc |->
                IF q = Main THEN "idle" ELSE IF pc[q] \in Ended \cup {"idle"} THEN pc[q] ELSE "dropped"]
    /\ UNCHANGED <<site, changes, at, doc, steady, snap, after, overlapped>>

-----------------------------------------------------------------------------
(* call_tool *)

\* state.compiled.read().await.clone()
CallStarts(c) ==
    /\ Up /\ pc[c] = "idle"
    /\ snap' = [snap EXCEPT ![c] = compiled.version]
    /\ after' = [after EXCEPT ![c] = {r \in Reloads : pc[r] = "reloaded"}]
    /\ Goes(c, "calling")
    /\ UNCHANGED <<site, changes, compiled, at, doc, steady, overlapped>>

\* execute_tool: no such tool, bad arguments, an answer, an error or the timeout
CallEnds(c) ==
    /\ pc[c] = "calling"
    /\ Goes(c, "done")
    /\ UNCHANGED <<site, changes, compiled, at, doc, steady, snap, after, overlapped>>

-----------------------------------------------------------------------------
\* The handler of a client that has gone away is dropped.
Drop(r) ==
    /\ pc[r] \notin Ended \cup {"idle"}
    /\ Goes(r, "dropped")
    /\ UNCHANGED <<site, changes, compiled, at, doc, steady, snap, after, overlapped>>

\* The target service is deployed anew, or fails.
SiteChanges(p) ==
    /\ changes < MaxChanges
    /\ \E page \in Pages : site' = [site EXCEPT ![p] = page]
    /\ changes' = changes + 1
    /\ steady' = [r \in Loads |-> IF Valid(p)' THEN steady[r] ELSE steady[r] \ {p}]
    /\ UNCHANGED <<compiled, pc, at, doc, snap, after, overlapped>>

Next ==
    \/ Starts
    \/ \E r \in Reloads : ReloadStarts(r)
    \/ \E r \in Loads : Probe(r) \/ Compile(r) \/ Aborts(r)
    \/ \E c \in Calls : CallStarts(c) \/ CallEnds(c)
    \/ \E r \in Requests : Drop(r)
    \/ \E p \in Paths : SiteChanges(p)

Spec == Init /\ [][Next]_vars

-----------------------------------------------------------------------------
\* "swaps in the new compiled snapshot atomically" (README.md:84): a call that
\* starts when a reload that ran by itself has answered runs with what that reload
\* compiled, or with something newer, even if reloads overlap later.
SeesReload ==
    \A c \in Calls : \A r \in after[c] \ overlapped : snap[c] >= doc[r].version

\* "uses the first valid OpenAPI 3.x document" (README.md:138): a search does not
\* come to its end while one path has a valid document all the time, and the document
\* it takes is of no later path than such a one.  It may be of an earlier one that is
\* no valid document: what parses and is none, or is cut off, ends the search.
ProbeFindsValid ==
    \A r \in Loads :
        /\ pc[r] = "not found" => steady[r] = {}
        /\ doc[r] # None => \A p \in steady[r] : p >= at[r]

\* "If the reload fails, the sidecar keeps serving the last known good snapshot"
\* (README.md:84): once a reload was asked for, the process serves.
KeepsServing == (\E r \in Reloads : pc[r] # "idle") => Up

-----------------------------------------------------------------------------
\* What makes them inductive.  Two reloads in progress know of each other.
InProgress(r) == pc[r] \notin Ended \cup {"idle"}

OverlapIsKnown ==
    \A q, r \in Reloads : q # r /\ InProgress(q) /\ InProgress(r) => r \in overlapped

\* A search is not past a path that was valid all the time.
SearchIsAhead ==
    /\ \A r \in Loads : \A p \in steady[r] : Valid(p) /\ p >= at[r]
    /\ \A r \in Reloads : pc[r] = "idle" => at[r] = 1

\* What a document was fetched from is not newer than the site, and when a reload by
\* itself has ended, nothing older than its document is served or being compiled.
NoneIsOlder ==
    /\ \A r \in Loads : doc[r] # None => doc[r].version <= changes
    /\ \A r \in Reloads \ overlapped : pc[r] = "reloaded" =>
        /\ compiled # None => compiled.version >= doc[r].version
        /\ \A q \in Loads : pc[q] = "compiling" => doc[q].version >= doc[r].version

\* The reloads a call has seen have ended.
SeenHaveEnded ==
    \A c \in Calls :
        /\ \A r \in after[c] : pc[r] = "reloaded"
        /\ after[c] # {} => snap[c] # None

Inductive ==
    /\ TypeOK /\ SeesReload /\ ProbeFindsValid
    /\ OverlapIsKnown /\ SearchIsAhead /\ NoneIsOlder /\ SeenHaveEnded
=============================================================================

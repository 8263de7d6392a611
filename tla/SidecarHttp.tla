----------------------------- MODULE SidecarHttp -----------------------------
(***************************************************************************)
(* The handlers of service/mcp-sidecar/src/http.rs around the middleware   *)
(* configuration: call_tool and list_tools read it under a read lock that  *)
(* call_tool keeps until the MCP server has answered, and reload replaces  *)
(* the MCP instances first (TenantPool) and the configuration afterwards.  *)
(* A configuration is known by the edit of its file it was loaded from;    *)
(* Middleware has what it does to a call.                                  *)
(***************************************************************************)
EXTENDS Naturals, RwQueue, Middleware

CONSTANTS
    Calls, Lists, Reloads,  \* requests, each made once
    None,
    HasTimeout,      \* call_timeout is not 0
    Written,         \* what the middleware file holds, edit by edit
    Bodies, Results, \* of calls, and what the MCP server answers
    Identity         \* what a verified identity token says, None without a secret

ASSUME SwitchAssumption == HasTimeout \in BOOLEAN
ASSUME RequestAssumption == Calls \cap Lists = {} /\ (Calls \cup Lists) \cap Reloads = {}
ASSUME NoneAssumption == None \notin Nat
ASSUME FileAssumption == Written \in Seq(Configurations) /\ Written # << >>
ASSUME ResultAssumption == \A result \in Results : IsResult(result)

VARIABLES
    pc,
    lock,        \* state.middleware
    mw,          \* the configuration in it
    file,        \* the edits of the file at middleware_path
    loaded,      \* the configuration each reload has read
    args,        \* the arguments of each call, with the identity,
    sent,        \* what the MCP server got of them,
    given,       \* what it answered
    answer,      \* and what the client gets of that
    seen,        \* the configuration each call or list was judged by
    after,       \* the reloads that had answered, or were waiting, when it queued
    overlapped   \* history: the reloads that ran while another one did

data == <<args, sent, given, answer>>
judged == <<seen, after>>
reloading == <<loaded, overlapped>>
vars == <<pc, lock, mw, file, data, judged, reloading>>

SmithIdentity == "_smith_identity"
Requests == Calls \cup Lists \cup Reloads
MaxEdits == Len(Written) - 1

Edits == [i \in DOMAIN Written |-> Loaded(Written[i])]

\* MiddlewareConfig::load of the file as it was after so many edits
Config(edit) == Edits[edit + 1]

Ended == {"refused", "answered", "failed", "dropped", "reloaded"}
InProgress(r) == pc[r] \notin Ended \cup {"idle"}

\* Every variable keeps its type, and each kind of request has its own points.
TypeOK ==
    /\ pc \in [Requests -> {"idle", "resolved", "queued", "calling", "respawning",
                            "loading", "writing"} \cup Ended]
    /\ \A c \in Calls : pc[c] \notin {"respawning", "loading", "writing", "reloaded"}
    /\ \A l \in Lists : pc[l] \in {"idle", "queued", "answered", "dropped"}
    /\ \A r \in Reloads : pc[r] \notin {"resolved", "queued", "calling", "refused", "answered"}
    /\ lock \in Seq([who : Requests, kind : {"read", "write"}])
    /\ file \in 0..MaxEdits /\ mw \in 0..file
    /\ loaded \in [Reloads -> 0..file \cup {None}]
    /\ \A of \in {args, sent, given, answer} : DOMAIN of = Calls
    /\ seen \in [Calls \cup Lists -> 0..file \cup {None}]
    /\ after \in [Calls \cup Lists -> SUBSET Reloads]
    /\ overlapped \subseteq Reloads

Init ==
    /\ pc = [r \in Requests |-> "idle"]
    /\ lock = <<>>
    /\ mw = 0 /\ file = 0
    /\ loaded = [r \in Reloads |-> None]
    /\ args = [c \in Calls |-> None] /\ sent = args /\ given = args /\ answer = args
    /\ seen = [r \in Calls \cup Lists |-> None]
    /\ after = [r \in Calls \cup Lists |-> {}]
    /\ overlapped = {}

Goes(r, to) == pc' = [pc EXCEPT ![r] = to]
Leaves(r, to) == Goes(r, to) /\ lock' = Without(lock, r)

-----------------------------------------------------------------------------
(* call_tool *)

\* Mutant: a name the client has used is left to it.
WithMissingIdentity(body) ==
    IF Identity = None \/ SmithIdentity \in DOMAIN body THEN body
    ELSE Put(body, SmithIdentity, Identity)

\* inject_identity_context
WithIdentity(body) == IF Identity = None THEN body ELSE Put(body, SmithIdentity, Identity)

\* The token, the identity and resolve_call_client: ClientPool::call_client.  A
\* body that is no object has no arguments.
Resolve(c) ==
    /\ pc[c] = "idle"
    /\ \/ /\ Goes(c, "resolved")
          /\ \E body \in Bodies : args' = [args EXCEPT ![c] = WithIdentity(body)]
       \/ Goes(c, "refused") /\ UNCHANGED args
    /\ UNCHANGED <<lock, mw, file, sent, given, answer, judged, reloading>>

\* It waits for the read guard from here on.
Queues(r) ==
    /\ Goes(r, "queued")
    /\ lock' = Reads(lock, r)
    /\ after' = [after EXCEPT ![r] = {q \in Reloads : pc[q] \in {"writing", "reloaded"}}]

\* The tool must be listed by the discovery instance, which need not be the one
\* the call has got, and may be another since the last reload.
CheckTool(c) ==
    /\ pc[c] = "resolved"
    /\ \/ Queues(c)
       \/ Goes(c, "refused") /\ UNCHANGED <<lock, after>>
    /\ UNCHANGED <<mw, file, data, seen, reloading>>

\* Mutant: the guard is dropped when the arguments are ready.
Unlocked(c) == Without(lock, c)

\* The read guard lives until the handler returns.
Kept(c) == lock

\* hidden, filters, input transforms
Enter(c) ==
    /\ pc[c] = "queued" /\ Holds(lock, c)
    /\ seen' = [seen EXCEPT ![c] = mw]
    /\ \/ /\ ~Refuses(Config(mw), args[c])
          /\ sent' = [sent EXCEPT ![c] = Sends(Config(mw), args[c])]
          /\ Goes(c, "calling") /\ lock' = Kept(c)
       \/ Refuses(Config(mw), args[c]) /\ Leaves(c, "refused") /\ UNCHANGED sent
    /\ UNCHANGED <<mw, file, args, given, answer, after, reloading>>

\* The instance answers; the output transforms apply, or fail when the tool has
\* done its work.
Answered(c) ==
    /\ pc[c] = "calling"
    /\ \E result \in Results :
        LET out == Answers(Config(mw), result) IN
        /\ given' = [given EXCEPT ![c] = result]
        /\ \/ out # << >> /\ answer' = [answer EXCEPT ![c] = out] /\ Leaves(c, "answered")
           \/ out = << >> /\ Leaves(c, "failed") /\ UNCHANGED answer
    /\ UNCHANGED <<mw, file, args, sent, judged, reloading>>

\* The instance was shut down, or has ended or answers with an error.
Broken(c) ==
    /\ pc[c] = "calling"
    /\ Leaves(c, "failed")
    /\ UNCHANGED <<mw, file, data, judged, reloading>>

\* Mutant: no timeout around the call.
NeverTimesOut == FALSE
TimesOut == HasTimeout

CallTimeout(c) ==
    /\ pc[c] = "calling" /\ TimesOut
    /\ Leaves(c, "failed")
    /\ UNCHANGED <<mw, file, data, judged, reloading>>

-----------------------------------------------------------------------------
(* list_tools *)

ListQueues(l) ==
    /\ pc[l] = "idle"
    /\ Queues(l)
    /\ UNCHANGED <<mw, file, data, seen, reloading>>

\* The tools that are not hidden
ListReads(l) ==
    /\ pc[l] = "queued" /\ Holds(lock, l)
    /\ seen' = [seen EXCEPT ![l] = mw]
    /\ Leaves(l, "answered")
    /\ UNCHANGED <<mw, file, data, after, reloading>>

-----------------------------------------------------------------------------
(* reload *)

ReloadStarts(r) ==
    /\ pc[r] = "idle"
    /\ Goes(r, "respawning")
    /\ LET others == {s \in Reloads : InProgress(s)} IN
        overlapped' = overlapped \cup (IF others = {} THEN {} ELSE others \cup {r})
    /\ UNCHANGED <<lock, mw, file, data, judged, loaded>>

\* ClientPool::reload: a new instance, and the old ones shut down; if it cannot
\* be spawned, the configuration stays as it is too.
ReloadRespawns(r) ==
    /\ pc[r] = "respawning"
    /\ Goes(r, "loading") \/ Goes(r, "failed")
    /\ UNCHANGED <<lock, mw, file, data, judged, reloading>>

\* A file that cannot be read or parsed, as it may be at any time, does not fail
\* the reload.
ReloadLoads(r) ==
    /\ pc[r] = "loading" /\ loaded[r] = None
    /\ \/ loaded' = [loaded EXCEPT ![r] = file] /\ UNCHANGED pc
       \/ Goes(r, "reloaded") /\ UNCHANGED loaded
    /\ UNCHANGED <<lock, mw, file, data, judged, overlapped>>

\* The runtime has several threads: another reload may load and queue in between.
ReloadQueues(r) ==
    /\ pc[r] = "loading" /\ loaded[r] # None
    /\ Goes(r, "writing")
    /\ lock' = Writes(lock, r)
    /\ UNCHANGED <<mw, file, data, judged, reloading>>

\* Mutant: only a first configuration is put in.
InstalledOnce(r) == IF mw = 0 THEN loaded[r] ELSE mw
Installed(r) == loaded[r]

ReloadWrites(r) ==
    /\ pc[r] = "writing" /\ Holds(lock, r)
    /\ mw' = Installed(r)
    /\ Leaves(r, "reloaded")
    /\ UNCHANGED <<file, data, judged, reloading>>

-----------------------------------------------------------------------------
(* Around the handlers *)

\* The handler of a client that has gone away is dropped at its await.
Drop(r) ==
    /\ InProgress(r)
    /\ Leaves(r, "dropped")
    /\ UNCHANGED <<mw, file, data, judged, reloading>>

\* An operator edits the middleware file.
Edit ==
    /\ file < MaxEdits
    /\ file' = file + 1
    /\ UNCHANGED <<pc, lock, mw, data, judged, reloading>>

Finished ==
    /\ \A r \in Requests : pc[r] \in Ended
    /\ UNCHANGED vars

\* What the sidecar does by itself, without the MCP server or a client.
Step(r) ==
    \/ r \in Calls /\ (CheckTool(r) \/ Enter(r) \/ CallTimeout(r))
    \/ r \in Lists /\ ListReads(r)
    \/ r \in Reloads /\ (ReloadRespawns(r) \/ ReloadLoads(r) \/ ReloadQueues(r) \/ ReloadWrites(r))

Next ==
    \/ \E c \in Calls : Resolve(c) \/ Answered(c) \/ Broken(c)
    \/ \E l \in Lists : ListQueues(l)
    \/ \E r \in Reloads : ReloadStarts(r)
    \/ \E r \in Requests : Step(r) \/ Drop(r)
    \/ Edit
    \/ Finished

Spec == Init /\ [][Next]_vars

\* The runtime runs every task that can run, and a respawn ends (TenantPool); no
\* call is expected to be answered by the MCP server.
FairSpec == Spec /\ \A r \in Requests : WF_vars(Step(r))

-----------------------------------------------------------------------------
\* What the caller sends, and who it is, has passed every filter of the
\* configuration the call was judged by before the MCP server sees anything of
\* it, and the tool is not hidden there: whatever reloads run and whatever the
\* transforms make of it (http.rs:201-232).  A block whose pattern does not compile
\* blocks nothing (filter.rs:31), and nothing is promised of what the transforms
\* put in place of what was judged.
OnlyJudgedIsSent ==
    \A c \in Calls : sent[c] # None =>
        LET cfg == Config(seen[c]) IN
        /\ ~cfg.tool.hidden
        /\ \A f \in ToSet(cfg.global.filters) \cup ToSet(cfg.tool.filters) :
            IF f.type = "require" THEN Present(args[c], f.key)
            ELSE f.pattern \in DOMAIN Regexes /\ f.key \in DOMAIN args[c]
                    => args[c][f.key] \notin Regexes[f.pattern]

Touched(chain) == UNION {{step[f] : f \in DOMAIN step \ {"type", "value"}} : step \in ToSet(chain)}

\* The MCP server is told of the verified identity, whatever the client says it
\* is, unless a transform of the configuration is about that very argument
\* (http.rs:109-128, 199).
IdentityIsVerified ==
    \A c \in Calls :
        sent[c] # None /\ Identity # None /\ SmithIdentity \notin Touched(Chain(Config(seen[c]), "input"))
        => SmithIdentity \in DOMAIN sent[c] /\ sent[c][SmithIdentity] = Identity

WordsOf(result, kinds) == UNION {result[p].words : p \in {q \in DOMAIN result : result[q].kind \in kinds}}
KeysOf(result) == UNION {ToSet(p) : p \in DOMAIN result}

\* What a redact of the configuration the call was judged by matches in a text of
\* the result is in no answer, however it is extracted from or wrapped and whatever
\* reloads ran meanwhile, and an answer is withheld when such a pattern does not
\* compile (http.rs:262-275, transform.rs:42-96).  Numbers and keys are not
\* redacted, and what a redact or a template puts in is not the server's.
NothingRedactedIsAnswered ==
    \A c \in Calls : answer[c] # None =>
        LET redacts == {s \in ToSet(Chain(Config(seen[c]), "output")) : s.type = "redact"}
            templates == {s \in ToSet(Chain(Config(seen[c]), "output")) : s.type = "template"}
            put == {s.replacement : s \in redacts}
                    \cup {Wraps[s.template] : s \in {t \in templates : t.template \in DOMAIN Wraps}}
            bare == WordsOf(given[c], {"number"}) \cup KeysOf(given[c])
        IN  \A s \in redacts :
                /\ s.pattern \in DOMAIN Regexes
                /\ WordsOf(answer[c], {"text"}) \cap Regexes[s.pattern] \subseteq put \cup bare

\* A call or list that starts to wait after a reload has answered, or behind its
\* write, never sees the configuration from before it, unless another reload ran
\* beside it.
SeesReload ==
    \A r \in Calls \cup Lists : seen[r] # None =>
        \A q \in after[r] \ overlapped :
            pc[q] # "dropped" /\ loaded[q] # None => seen[r] >= loaded[q]

\* When a reload that ran by itself has answered, a configuration at least as new
\* as the one it has loaded is in force, whatever reloads overlap later.
ReloadTakesEffect ==
    \A r \in Reloads \ overlapped :
        pc[r] = "reloaded" /\ loaded[r] # None => mw >= loaded[r]

\* No call, list or reload waits for ever, even if the MCP server answers no call.
EveryRequestEnds == \A r \in Requests : InProgress(r) ~> pc[r] \in Ended

-----------------------------------------------------------------------------
(* Why the properties hold: the invariant they are proved from *)

\* Who waits for the lock or holds it has one entry in its queue, of its kind, and
\* nobody else has one.
QueueIsKnown ==
    /\ \A i, j \in DOMAIN lock : lock[i].who = lock[j].who => i = j
    /\ \A i \in DOMAIN lock :
        pc[lock[i].who] \in IF lock[i].kind = "read" THEN {"queued", "calling"} ELSE {"writing"}
    /\ \A r \in Requests :
        pc[r] \in {"queued", "calling", "writing"} => \E i \in DOMAIN lock : lock[i].who = r

\* The configuration in force stays the one a call was judged by until it returns.
CallersHold ==
    \A c \in Calls : pc[c] = "calling" => Holds(lock, c) /\ seen[c] = mw

\* What a call has sent and got comes from one configuration that lets it through.
CallsAreJudged ==
    /\ \A r \in Calls \cup Lists : seen[r] # None => pc[r] \notin {"idle", "resolved", "queued"}
    /\ \A c \in Calls :
        /\ Identity # None /\ (pc[c] \in {"resolved", "queued", "calling"} \/ sent[c] # None)
            => SmithIdentity \in DOMAIN args[c] /\ args[c][SmithIdentity] = Identity
        /\ sent[c] # None =>
            /\ seen[c] # None
            /\ ~Refuses(Config(seen[c]), args[c])
            /\ sent[c] = Sends(Config(seen[c]), args[c])
        /\ answer[c] # None =>
            /\ seen[c] # None /\ given[c] \in Results
            /\ pc[c] # "calling" /\ answer[c] # << >>
            /\ answer[c] = Answers(Config(seen[c]), given[c])

\* Whoever is beside another reload is in `overlapped'.
OverlapIsKnown ==
    \A q, r \in Reloads : InProgress(q) /\ InProgress(r) /\ q # r => q \in overlapped

\* What is loaded after a reload has answered is not older than what that one loaded.
ReloadsLoadOnwards ==
    /\ \A r \in Reloads :
        /\ pc[r] \in {"idle", "respawning"} => loaded[r] = None
        /\ pc[r] = "writing" => loaded[r] # None
    /\ \A q \in Reloads \ overlapped, r \in Reloads :
        pc[q] = "reloaded" /\ loaded[q] # None /\ InProgress(r) /\ loaded[r] # None
        => loaded[r] >= loaded[q]

\* The writes a call or list waits behind are ahead of it in the queue and over when
\* it is let in.
WaitsBehind ==
    \A r \in Calls \cup Lists :
        /\ \A q \in after[r] : pc[q] \in {"writing", "reloaded", "dropped"}
        /\ pc[r] = "queued" =>
            \A i, j \in DOMAIN lock : lock[i].who \in after[r] /\ lock[j].who = r => i < j
        /\ seen[r] # None => \A q \in after[r] : pc[q] # "writing"

\* The inductive invariant
Inductive ==
    /\ TypeOK
    /\ QueueIsKnown
    /\ CallersHold
    /\ CallsAreJudged
    /\ OverlapIsKnown
    /\ ReloadsLoadOnwards
    /\ WaitsBehind
    /\ ReloadTakesEffect
    /\ SeesReload
=============================================================================

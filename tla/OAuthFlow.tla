------------------------------ MODULE OAuthFlow ------------------------------
(***************************************************************************)
(* The OAuth flow of the catalog (service/catalog/src/oauth.rs, http.rs):  *)
(* /api/auth/start issues a state token, the browser comes back to         *)
(* /api/auth/callback with it, the code is exchanged, the credentials are  *)
(* written to two files one after the other and the upstream is reloaded   *)
(* so that its MCP server reads them.  The upstreams here share one        *)
(* provider, as google and google-analytics do.                            *)
(***************************************************************************)
EXTENDS Naturals, Sequences

CONSTANTS
    Upstreams,    \* names with the provider, all of them configured
    Reads,        \* the credential file each one's MCP server reads
    Flows,        \* callbacks, each made once
    Tokens,       \* state tokens, each issued once
    None,
    TTL,          \* PENDING_TTL_SECS, in ticks
    MaxFaults     \* bound on the writes that fail or are cut off by a crash

Files == <<"refresh_token", "credentials.json">>
FileNames == {Files[i] : i \in DOMAIN Files}

ASSUME NoneAssumption ==
    /\ None \notin 0..TTL /\ None \notin Flows /\ None \notin Upstreams
    /\ None \notin [token : Tokens, age : 0..TTL]
ASSUME ReadsAssumption == Reads \in [Upstreams -> FileNames]
ASSUME BoundAssumption == TTL \in Nat \ {0} /\ MaxFaults \in Nat

VARIABLES
    age,         \* ticks since a token was issued, None before
    server,      \* whom it was issued for
    pending,     \* oauth.pending
    pc,
    at,          \* the file a callback is at
    used,        \* the token it has taken, and its age then
    spawned,     \* what the instance its reload started has read
    creds,       \* contents of the files, None when missing or truncated
    running,     \* what the MCP server of each upstream has read
    faults,
    check,       \* has_valid_credentials: where it is,
    needsAuth,   \* what the last one found,
    reliable,    \* and whether credentials were there, whole, throughout it
    stored,      \* history: a callback has written both files;
    last,        \* the last one to have reloaded, if it ran by itself;
    overlapped   \* the callbacks that ran while another one did

issue == <<age, server>>
files == <<creds, faults, stored, last>>
checking == <<check, needsAuth, reliable>>
vars == <<issue, pending, pc, at, used, spawned, files, running, checking, overlapped>>

Ended == {"refused", "failed", "done"}
Writing == {"opening", "filling"}
Contents == Flows \cup {None}

TypeOK ==
    /\ age \in [Tokens -> 0..TTL \cup {None}] /\ server \in [Tokens -> Upstreams \cup {None}]
    /\ pending \subseteq {t \in Tokens : age[t] # None}
    /\ pc \in [Flows -> {"idle", "exchanging", "reloading", "installing"} \cup Writing \cup Ended]
    /\ at \in [Flows -> DOMAIN Files]
    /\ used \in [Flows -> {None} \cup [token : Tokens, age : 0..TTL]]
    /\ spawned \in [Flows -> Contents] /\ creds \in [FileNames -> Contents]
    /\ running \in [Upstreams -> Contents] /\ faults \in 0..MaxFaults
    /\ check \in {"idle", "second"} /\ needsAuth \in BOOLEAN /\ reliable \in BOOLEAN
    /\ stored \in BOOLEAN /\ last \in Flows \cup {None} /\ overlapped \subseteq Flows

Init ==
    /\ age = [t \in Tokens |-> None] /\ server = [t \in Tokens |-> None]
    /\ pending = {}
    /\ pc = [f \in Flows |-> "idle"] /\ at = [f \in Flows |-> 1]
    /\ used = [f \in Flows |-> None] /\ spawned = [f \in Flows |-> None]
    /\ creds = [n \in FileNames |-> None] /\ running = [u \in Upstreams |-> None]
    /\ faults = 0 /\ stored = FALSE /\ last = None
    /\ check = "idle" /\ needsAuth = TRUE /\ reliable = FALSE
    /\ overlapped = {}

Goes(f, to) == pc' = [pc EXCEPT ![f] = to]

-----------------------------------------------------------------------------
(* State tokens *)

Tick ==
    /\ \E t \in Tokens : age[t] \in 0..(TTL - 1)
    /\ age' = [t \in Tokens |-> IF age[t] \in 0..(TTL - 1) THEN age[t] + 1 ELSE age[t]]
    /\ UNCHANGED <<server, pending, pc, at, used, spawned, files, running, checking,
                   overlapped>>

\* auth_start, insert_pending
AuthStart(t, u) ==
    /\ age[t] = None
    /\ age' = [age EXCEPT ![t] = 0]
    /\ server' = [server EXCEPT ![t] = u]
    /\ pending' = {p \in pending : age[p] < TTL} \cup {t}
    /\ UNCHANGED <<pc, at, used, spawned, files, running, checking, overlapped>>

\* Mutant: the entry is looked up, not removed.
Left(t) == pending

\* pending.remove
Remaining(t) == pending \ {t}

\* auth_callback, take_pending: an expired entry is removed and refused.
TakePending(f, t) ==
    /\ pc[f] = "idle"
    /\ LET others == {g \in Flows : pc[g] \notin Ended \cup {"idle"}} IN
        overlapped' = overlapped \cup (IF others = {} THEN {} ELSE others \cup {f})
    /\ pending' = Remaining(t)
    /\ \/ /\ t \in pending /\ age[t] < TTL
          /\ used' = [used EXCEPT ![f] = [token |-> t, age |-> age[t]]]
          /\ Goes(f, "exchanging")
       \/ t \in pending /\ age[t] = TTL /\ Goes(f, "refused") /\ UNCHANGED used
       \/ t \notin pending /\ Goes(f, "refused") /\ UNCHANGED used
    /\ UNCHANGED <<issue, at, spawned, files, running, checking>>

\* exchange_code: a refresh token of its own for every code, or an error.
Exchange(f) ==
    /\ pc[f] = "exchanging"
    /\ Goes(f, "opening") \/ Goes(f, "failed")
    /\ UNCHANGED <<issue, pending, at, used, spawned, files, running, checking,
                   overlapped>>

-----------------------------------------------------------------------------
(* write_credentials: tokio::fs::write truncates a file and then fills it. *)

\* No check under way counts as reliable once a file changes.
Disturbs == reliable' = FALSE /\ UNCHANGED <<check, needsAuth>>

Truncate(f) ==
    /\ pc[f] = "opening"
    /\ creds' = [creds EXCEPT ![Files[at[f]]] = None]
    /\ last' = None
    /\ Goes(f, "filling")
    /\ Disturbs
    /\ UNCHANGED <<issue, pending, at, used, spawned, faults, stored, running,
                   overlapped>>

Fill(f) ==
    /\ pc[f] = "filling"
    /\ creds' = [creds EXCEPT ![Files[at[f]]] = f]
    /\ \/ /\ at[f] < Len(Files)
          /\ at' = [at EXCEPT ![f] = @ + 1]
          /\ Goes(f, "opening")
          /\ UNCHANGED stored
       \/ at[f] = Len(Files) /\ Goes(f, "reloading") /\ stored' = TRUE /\ UNCHANGED at
    /\ Disturbs
    /\ UNCHANGED <<issue, pending, used, spawned, faults, last, running, overlapped>>

\* The disk is full, the directory cannot be written: the file is as it is now.
WriteFails(f) ==
    /\ pc[f] \in Writing /\ faults < MaxFaults
    /\ faults' = faults + 1
    /\ Goes(f, "failed")
    /\ UNCHANGED <<issue, pending, at, used, spawned, creds, stored, last, running, checking,
                   overlapped>>

\* The catalog is killed and restarted: the pending tokens are lost.
Crash ==
    /\ (\E f \in Flows : pc[f] \in Writing) => faults < MaxFaults
    /\ faults' = IF \E f \in Flows : pc[f] \in Writing THEN faults + 1 ELSE faults
    /\ pending' = {}
    /\ pc' = [f \in Flows |-> IF pc[f] \in Ended \cup {"idle"} THEN pc[f] ELSE "failed"]
    /\ check' = "idle" /\ needsAuth' = FALSE /\ reliable' = FALSE
    /\ UNCHANGED <<issue, at, used, spawned, creds, stored, last, running, overlapped>>

-----------------------------------------------------------------------------
(* The reload of the upstream: tenancy.rs starts a new MCP server and then  *)
(* puts it in the place of the old one.  It drops a reload whose client has *)
(* given up.                                                                *)

ReloadSpawns(f) ==
    /\ pc[f] = "reloading"
    /\ spawned' = [spawned EXCEPT ![f] = creds[Reads[server[used[f].token]]]]
    /\ Goes(f, "installing")
    /\ UNCHANGED <<issue, pending, at, used, files, running, checking, overlapped>>

\* Mutant: the first upstream of the list is reloaded.
AnyUpstream(f) == CHOOSE u \in Upstreams : TRUE

\* upstreams.iter().find(|u| u.name == pending.server)
Reloaded(f) == server[used[f].token]

ReloadInstalls(f) ==
    /\ pc[f] = "installing"
    /\ running' = [running EXCEPT ![Reloaded(f)] = spawned[f]]
    /\ last' = IF f \in overlapped THEN None ELSE f
    /\ Goes(f, "done")
    /\ UNCHANGED <<issue, pending, at, used, spawned, creds, faults, stored, checking,
                   overlapped>>

\* Logged; the page says "Connected" all the same.
ReloadFails(f) ==
    /\ pc[f] \in {"reloading", "installing"}
    /\ Goes(f, "done")
    /\ UNCHANGED <<issue, pending, at, used, spawned, files, running, checking,
                   overlapped>>

-----------------------------------------------------------------------------
(* has_valid_credentials, in the poller: one file and then the other *)

CheckFirst ==
    /\ check = "idle"
    /\ \/ creds[Files[1]] # None /\ needsAuth' = FALSE /\ UNCHANGED <<check, reliable>>
       \/ /\ creds[Files[1]] = None
          /\ check' = "second"
          /\ reliable' = (stored /\ \A f \in Flows : pc[f] \notin Writing)
          /\ UNCHANGED needsAuth
    /\ UNCHANGED <<issue, pending, pc, at, used, spawned, files, running, overlapped>>

\* Mutant: the first file is all that counts.
FirstOnly == FALSE

\* || the second has content
SecondCounts == creds[Files[2]] # None

CheckSecond ==
    /\ check = "second"
    /\ check' = "idle"
    /\ needsAuth' = ~SecondCounts
    /\ UNCHANGED reliable
    /\ UNCHANGED <<issue, pending, pc, at, used, spawned, files, running, overlapped>>

-----------------------------------------------------------------------------
Callback(f) ==
    \/ \E t \in Tokens : TakePending(f, t)
    \/ Exchange(f) \/ Truncate(f) \/ Fill(f) \/ WriteFails(f)
    \/ ReloadSpawns(f) \/ ReloadInstalls(f) \/ ReloadFails(f)

Next ==
    \/ Tick \/ Crash \/ CheckFirst \/ CheckSecond
    \/ \E t \in Tokens, u \in Upstreams : AuthStart(t, u)
    \/ \E f \in Flows : Callback(f)

Spec == Init /\ [][Next]_vars

-----------------------------------------------------------------------------
\* A state token lets one callback through, within its time, however often it
\* is sent, however the callbacks overlap and whatever a restart forgets
\* (oauth.rs:176-196).
TokensAreOneTime ==
    /\ \A f, g \in Flows :
        f # g /\ used[f] # None /\ used[g] # None => used[f].token # used[g].token
    /\ \A f \in Flows : used[f] # None => used[f].age < TTL /\ used[f].token \notin pending

\* After a callback that ran by itself has reloaded its upstream, and until the
\* files are written again, that upstream runs with what is in its file
\* (http.rs:614-642).
ReloadedHasLatest ==
    last # None => LET u == server[used[last].token] IN running[u] = creds[Reads[u]]

\* As long as callbacks do not overlap, one write that fails or is cut off by a
\* crash does not make a connected server look unconnected: a check that no write
\* disturbs finds one of the two files (oauth.rs:126-136).
StaysConnected ==
    faults <= 1 /\ overlapped = {} /\ check = "idle" /\ reliable => ~needsAuth

-----------------------------------------------------------------------------
\* What makes the three inductive.  A token that was used was issued, for
\* an upstream, and a callback in progress has used one.
InProgress(f) == pc[f] \notin Ended \cup {"idle"}

UsedWasIssued ==
    /\ \A t \in Tokens : age[t] # None => server[t] # None
    /\ \A f \in Flows :
        /\ used[f] # None => age[used[f].token] # None
        /\ InProgress(f) \/ f = last => used[f] # None
        /\ f = last => pc[f] = "done"

\* Two flows in progress know of each other.
OverlapIsKnown ==
    \A f, g \in Flows : f # g /\ InProgress(f) /\ InProgress(g) => f \in overlapped

\* What a reload has read is in the file until it is installed, and then as long as
\* the last one stands.
FilesAreFresh ==
    /\ \A f \in Flows \ overlapped :
        pc[f] = "installing" => spawned[f] = creds[Reads[server[used[f].token]]]
    /\ last # None => \A f \in Flows : pc[f] # "filling"

\* A callback by itself comes to the second file with the first one filled; without
\* a fault nothing is missing but the file it fills, with one fault one file is there.
OneFileIsThere ==
    overlapped = {} =>
        /\ \A f \in Flows : pc[f] \in Writing /\ at[f] = 2 => creds[Files[1]] # None
        /\ \A f \in Flows : pc[f] \in {"idle", "exchanging"} => at[f] = 1
        /\ stored /\ faults = 0 =>
            \A i \in DOMAIN Files : creds[Files[i]] = None =>
                \E f \in Flows : pc[f] = "filling" /\ at[f] = i
        /\ stored /\ faults <= 1 /\ (\A f \in Flows : pc[f] \notin Writing) =>
            \E i \in DOMAIN Files : creds[Files[i]] # None
        /\ check = "second" /\ reliable /\ faults <= 1 => creds[Files[2]] # None

Inductive ==
    /\ TypeOK /\ TokensAreOneTime /\ ReloadedHasLatest /\ StaysConnected
    /\ UsedWasIssued /\ OverlapIsKnown /\ FilesAreFresh /\ OneFileIsThere
=============================================================================

------------------------------ MODULE PgGateway ------------------------------
(***************************************************************************)
(* service/pg-auth-gateway/src/main.rs: a client logs in with an identity  *)
(* token and every query it sends runs in a Postgres session of its own,   *)
(* which a second session, the gatekeeper's, binds to that identity and    *)
(* unbinds afterwards.  Row level security goes by the binding of the      *)
(* backend.  A backend is known by its pid, which Postgres uses again, and *)
(* its start, which it does not.                                           *)
(***************************************************************************)
EXTENDS Naturals, FiniteSets

CONSTANTS
    Conns, Identities, Pids, None,
    Readonly,   \* access_mode
    MaxStarts   \* bound on the backends ever started

ASSUME ModeAssumption == Readonly \in BOOLEAN
ASSUME BoundAssumption == MaxStarts \in Nat
ASSUME NoneAssumption == None \notin Identities /\ None \notin [pid : Pids, start : 0..MaxStarts]

VARIABLES
    who,       \* the verified identity in each connection's metadata
    pc,
    backend,   \* the backend of its query session
    readonly,  \* what default_transaction_read_only is in it
    alive,     \* the backends that are
    starts,    \* how many there have been
    bindings,  \* what bind_rls_session has stored
    ran,       \* the binding and the mode its last query ran with
    lost       \* backends whose binding or unbinding had a fault

vars == <<who, pc, backend, readonly, alive, starts, bindings, ran, lost>>

Backends == [pid : Pids, start : 0..MaxStarts]
Bindings == [of : Backends, to : Identities]

TypeOK ==
    /\ who \in [Conns -> Identities \cup {None}]
    /\ pc \in [Conns -> {"login", "ready", "connected", "gated", "configured", "keyed",
                         "bound", "ran"}]
    /\ backend \in [Conns -> Backends \cup {None}]
    /\ readonly \in [Conns -> BOOLEAN] /\ starts \in 0..MaxStarts
    /\ alive \subseteq Backends /\ lost \subseteq Backends /\ bindings \subseteq Bindings
    /\ \A a, b \in alive : a.pid = b.pid => a = b
    /\ \A a, b \in bindings : a.of = b.of => a = b
    /\ ran \in [Conns -> [as : SUBSET Identities, readonly : BOOLEAN] \cup {None}]
    /\ \A c \in Conns : pc[c] # "login" => who[c] # None
    /\ \A c \in Conns : pc[c] \in {"login", "ready"} <=> backend[c] = None

Init ==
    /\ who = [c \in Conns |-> None] /\ pc = [c \in Conns |-> "login"]
    /\ backend = [c \in Conns |-> None] /\ readonly = [c \in Conns |-> FALSE]
    /\ alive = {} /\ starts = 0 /\ bindings = {} /\ lost = {}
    /\ ran = [c \in Conns |-> None]

Goes(c, to) == pc' = [pc EXCEPT ![c] = to]

\* An error: run_query returns and drops its two sessions.
Leaves(c) == Goes(c, "ready") /\ backend' = [backend EXCEPT ![c] = None]

-----------------------------------------------------------------------------
\* on_startup: the password is a token whose signature and expiry are good.
Login(c) ==
    /\ pc[c] = "login"
    /\ \E i \in Identities : who' = [who EXCEPT ![c] = i]
    /\ Goes(c, "ready")
    /\ UNCHANGED <<backend, readonly, alive, starts, bindings, ran, lost>>

\* run_query: connect_postgres(query_url); the session has the server's default
\* mode.  When it fails the client gets an error and nothing has changed.
Connect(c, p) ==
    /\ pc[c] = "ready" /\ starts < MaxStarts
    /\ \A b \in alive : b.pid # p
    /\ LET b == [pid |-> p, start |-> starts + 1] IN
        /\ backend' = [backend EXCEPT ![c] = b]
        /\ alive' = alive \cup {b}
    /\ starts' = starts + 1
    /\ readonly' = [readonly EXCEPT ![c] = FALSE]
    /\ Goes(c, "connected")
    /\ UNCHANGED <<who, bindings, ran, lost>>

\* connect_postgres(gatekeeper_url)
Gatekeeper(c) ==
    /\ pc[c] = "connected"
    /\ \/ Goes(c, "gated") /\ UNCHANGED backend
       \/ Leaves(c)
    /\ UNCHANGED <<who, readonly, alive, starts, bindings, ran, lost>>

\* configure_query_session
SessionMode == Readonly

Configure(c) ==
    /\ pc[c] = "gated"
    /\ \/ /\ backend[c] \in alive
          /\ readonly' = [readonly EXCEPT ![c] = SessionMode]
          /\ Goes(c, "configured") /\ UNCHANGED backend
       \/ Leaves(c) /\ UNCHANGED readonly
    /\ UNCHANGED <<who, alive, starts, bindings, ran, lost>>

\* current_backend_binding_key()
ReadKey(c) ==
    /\ pc[c] = "configured"
    /\ \/ backend[c] \in alive /\ Goes(c, "keyed") /\ UNCHANGED backend
       \/ Leaves(c)
    /\ UNCHANGED <<who, readonly, alive, starts, bindings, ran, lost>>

\* Mutant: a binding goes by the pid alone.
PidOnly(b) == [b EXCEPT !.start = 0]

\* (backend_pid, backend_start)
Key(b) == b

Of(b) == {k \in bindings : k.of = Key(b)}
Bound(b, i) == (bindings \ Of(b)) \cup {[of |-> Key(b), to |-> i]}

\* bind_rls_session, in the gatekeeper's session: whether the backend still is
\* makes no difference.  An error may hide that it was done.
Bind(c) ==
    /\ pc[c] = "keyed"
    /\ \/ /\ bindings' = Bound(backend[c], who[c])
          /\ Goes(c, "bound") /\ UNCHANGED <<backend, lost>>
       \/ /\ bindings' \in {bindings, Bound(backend[c], who[c])}
          /\ lost' = lost \cup {Key(backend[c])}
          /\ Leaves(c)
    /\ UNCHANGED <<who, readonly, alive, starts, ran>>

\* Mutant: an error of the query is returned at once.
QueryErrorLeaves(c) == Leaves(c)

\* The error is kept until the binding is gone.
QueryFails(c) == Goes(c, "ran") /\ UNCHANGED backend

\* simple_query
Run(c) ==
    /\ pc[c] = "bound"
    /\ \/ /\ backend[c] \in alive
          /\ ran' = [ran EXCEPT ![c] = [as |-> {k.to : k \in Of(backend[c])},
                                        readonly |-> readonly[c]]]
          /\ Goes(c, "ran") /\ UNCHANGED backend
       \/ UNCHANGED ran /\ QueryFails(c)
    /\ UNCHANGED <<who, readonly, alive, starts, bindings, lost>>

\* unbind_rls_session; an error is logged.
Unbind(c) ==
    /\ pc[c] = "ran"
    /\ \/ bindings' = bindings \ Of(backend[c]) /\ UNCHANGED lost
       \/ lost' = lost \cup {Key(backend[c])} /\ UNCHANGED bindings
    /\ Leaves(c)
    /\ UNCHANGED <<who, readonly, alive, starts, ran>>

-----------------------------------------------------------------------------
(* Postgres *)

\* A backend ends: its client is gone, or an administrator ends it.
Exits(b) ==
    /\ alive' = alive \ {b}
    /\ UNCHANGED <<who, pc, backend, readonly, starts, bindings, ran, lost>>

\* bind_ttl_secs have passed, even in the middle of a query.
Expires(k) ==
    /\ bindings' = bindings \ {k}
    /\ UNCHANGED <<who, pc, backend, readonly, alive, starts, ran, lost>>

-----------------------------------------------------------------------------
run_query(c) ==
    \/ \E p \in Pids : Connect(c, p)
    \/ Gatekeeper(c) \/ Configure(c) \/ ReadKey(c) \/ Bind(c) \/ Run(c) \/ Unbind(c)

Next ==
    \/ \E c \in Conns : Login(c) \/ run_query(c)
    \/ \E b \in alive : Exits(b)
    \/ \E k \in bindings : Expires(k)

Spec == Init /\ [][Next]_vars

-----------------------------------------------------------------------------
\* A query runs with the identity its connection logged in with, or with none
\* when its binding has expired, and in the gateway's access mode, whatever
\* other connections bind and unbind and whichever pids are used again
\* (main.rs:302-365).
RunsAsOwner ==
    \A c \in Conns : ran[c] # None => ran[c].as \subseteq {who[c]} /\ ran[c].readonly = Readonly

\* A binding belongs to a query in progress, unless Postgres failed to make or
\* to remove it: queries that fail, and backends that end, leave none behind
\* (main.rs:346-364).
NoneLeftBehind ==
    \A k \in bindings :
        \/ k.of \in lost
        \/ \E c \in Conns : pc[c] \in {"bound", "ran"} /\ k = [of |-> backend[c], to |-> who[c]]

-----------------------------------------------------------------------------
\* What makes both inductive.  A start is never used again:
StartsArePast ==
    /\ \A b \in alive : b.start <= starts
    /\ \A c \in Conns : backend[c] # None => backend[c].start <= starts
    /\ \A k \in bindings : k.of.start <= starts

\* a backend serves one query,
OneQueryEach ==
    \A c, d \in Conns : backend[c] # None /\ backend[c] = backend[d] => c = d

\* it is bound to nobody before Bind, and to nobody but its owner afterwards,
BoundToOwner ==
    \A c \in Conns, k \in bindings :
        backend[c] # None /\ k.of = backend[c] => pc[c] \in {"bound", "ran"} /\ k.to = who[c]

\* in a session of the right mode; and nothing has run before the login.
ModeIsSet ==
    \A c \in Conns :
        /\ pc[c] \in {"configured", "keyed", "bound"} => readonly[c] = Readonly
        /\ pc[c] = "login" => ran[c] = None

Inductive ==
    /\ TypeOK /\ RunsAsOwner /\ NoneLeftBehind
    /\ StartsArePast /\ OneQueryEach /\ BoundToOwner /\ ModeIsSet
=============================================================================

--------------------------- MODULE PgGatewayProofs ---------------------------
(***************************************************************************)
(* That queries run as their owner, for any number of connections,         *)
(* identities, pids and backends.  Each lemma is one step of run_query or  *)
(* of Postgres, and has one step for each conjunct of Inductive.           *)
(***************************************************************************)
EXTENDS PgGateway, TLAPS

\* Login: the connection has no backend and has run nothing.
LEMMA LoginKeeps ==
    ASSUME Inductive, NEW c \in Conns, Login(c)
    PROVE  Inductive'
<1>. USE BoundAssumption, NoneAssumption, ModeAssumption
<1>1. TypeOK'
    BY DEF Inductive, TypeOK, Bindings, Backends, Login, Goes
<1>2. RunsAsOwner'
    BY DEF Inductive, TypeOK, BoundToOwner, ModeIsSet, RunsAsOwner, Bindings, Backends, Login, Goes
<1>3. NoneLeftBehind'
    BY DEF Inductive, TypeOK, BoundToOwner, NoneLeftBehind, Bindings, Backends, Login, Goes
<1>4. StartsArePast'
    BY DEF Inductive, TypeOK, StartsArePast, Bindings, Backends, Login, Goes
<1>5. OneQueryEach'
    BY DEF Inductive, TypeOK, StartsArePast, OneQueryEach, Bindings, Backends, Login, Goes
<1>6. BoundToOwner'
    BY DEF Inductive, TypeOK, NoneLeftBehind, StartsArePast, OneQueryEach, BoundToOwner, Bindings, Backends, Login, Goes
<1>7. ModeIsSet'
    BY DEF Inductive, TypeOK, ModeIsSet, Bindings, Backends, Login, Goes
<1>8. QED BY <1>1, <1>2, <1>3, <1>4, <1>5, <1>6, <1>7 DEF Inductive

\* Connect: the start of the backend is new, so that no query and no binding has it.
LEMMA ConnectKeeps ==
    ASSUME Inductive, NEW c \in Conns, NEW p \in Pids, Connect(c, p)
    PROVE  Inductive'
<1>. USE BoundAssumption, NoneAssumption, ModeAssumption
<1>1. TypeOK'
    BY DEF Inductive, TypeOK, Bindings, Backends, Connect, Goes
<1>2. RunsAsOwner'
    BY DEF Inductive, TypeOK, BoundToOwner, ModeIsSet, RunsAsOwner, Bindings, Backends, Connect, Goes
<1>3. NoneLeftBehind'
    BY DEF Inductive, TypeOK, BoundToOwner, NoneLeftBehind, Bindings, Backends, Connect, Goes
<1>4. StartsArePast'
    BY DEF Inductive, TypeOK, StartsArePast, Bindings, Backends, Connect, Goes
<1>5. OneQueryEach'
    BY DEF Inductive, TypeOK, StartsArePast, OneQueryEach, Bindings, Backends, Connect, Goes
<1>6. BoundToOwner'
    BY DEF Inductive, TypeOK, NoneLeftBehind, StartsArePast, OneQueryEach, BoundToOwner, Bindings, Backends, Connect, Goes
<1>7. ModeIsSet'
    BY DEF Inductive, TypeOK, ModeIsSet, Bindings, Backends, Connect, Goes
<1>8. QED BY <1>1, <1>2, <1>3, <1>4, <1>5, <1>6, <1>7 DEF Inductive

\* Steps before Bind.
LEMMA GatekeeperKeeps ==
    ASSUME Inductive, NEW c \in Conns, Gatekeeper(c)
    PROVE  Inductive'
<1>. USE BoundAssumption, NoneAssumption, ModeAssumption
<1>1. TypeOK'
    BY DEF Inductive, TypeOK, Bindings, Backends, Gatekeeper, Goes, Leaves
<1>2. RunsAsOwner'
    BY DEF Inductive, TypeOK, BoundToOwner, ModeIsSet, RunsAsOwner, Bindings, Backends, Gatekeeper, Goes, Leaves
<1>3. NoneLeftBehind'
    BY DEF Inductive, TypeOK, BoundToOwner, NoneLeftBehind, Bindings, Backends, Gatekeeper, Goes, Leaves
<1>4. StartsArePast'
    BY DEF Inductive, TypeOK, StartsArePast, Bindings, Backends, Gatekeeper, Goes, Leaves
<1>5. OneQueryEach'
    BY DEF Inductive, TypeOK, StartsArePast, OneQueryEach, Bindings, Backends, Gatekeeper, Goes, Leaves
<1>6. BoundToOwner'
    BY DEF Inductive, TypeOK, NoneLeftBehind, StartsArePast, OneQueryEach, BoundToOwner, Bindings, Backends, Gatekeeper, Goes, Leaves
<1>7. ModeIsSet'
    BY DEF Inductive, TypeOK, ModeIsSet, Bindings, Backends, Gatekeeper, Goes, Leaves
<1>8. QED BY <1>1, <1>2, <1>3, <1>4, <1>5, <1>6, <1>7 DEF Inductive

LEMMA ConfigureKeeps ==
    ASSUME Inductive, NEW c \in Conns, Configure(c)
    PROVE  Inductive'
<1>. USE BoundAssumption, NoneAssumption, ModeAssumption
<1>1. TypeOK'
    BY DEF Inductive, TypeOK, Bindings, Backends, Configure, SessionMode, Goes, Leaves
<1>2. RunsAsOwner'
    BY DEF Inductive, TypeOK, BoundToOwner, ModeIsSet, RunsAsOwner, Bindings, Backends, Configure, SessionMode, Goes, Leaves
<1>3. NoneLeftBehind'
    BY DEF Inductive, TypeOK, BoundToOwner, NoneLeftBehind, Bindings, Backends, Configure, SessionMode, Goes, Leaves
<1>4. StartsArePast'
    BY DEF Inductive, TypeOK, StartsArePast, Bindings, Backends, Configure, SessionMode, Goes, Leaves
<1>5. OneQueryEach'
    BY DEF Inductive, TypeOK, StartsArePast, OneQueryEach, Bindings, Backends, Configure, SessionMode, Goes, Leaves
<1>6. BoundToOwner'
    BY DEF Inductive, TypeOK, NoneLeftBehind, StartsArePast, OneQueryEach, BoundToOwner, Bindings, Backends, Configure, SessionMode, Goes, Leaves
<1>7. ModeIsSet'
    BY DEF Inductive, TypeOK, ModeIsSet, Bindings, Backends, Configure, SessionMode, Goes, Leaves
<1>8. QED BY <1>1, <1>2, <1>3, <1>4, <1>5, <1>6, <1>7 DEF Inductive

LEMMA ReadKeyKeeps ==
    ASSUME Inductive, NEW c \in Conns, ReadKey(c)
    PROVE  Inductive'
<1>. USE BoundAssumption, NoneAssumption, ModeAssumption
<1>1. TypeOK'
    BY DEF Inductive, TypeOK, Bindings, Backends, ReadKey, Goes, Leaves
<1>2. RunsAsOwner'
    BY DEF Inductive, TypeOK, BoundToOwner, ModeIsSet, RunsAsOwner, Bindings, Backends, ReadKey, Goes, Leaves
<1>3. NoneLeftBehind'
    BY DEF Inductive, TypeOK, BoundToOwner, NoneLeftBehind, Bindings, Backends, ReadKey, Goes, Leaves
<1>4. StartsArePast'
    BY DEF Inductive, TypeOK, StartsArePast, Bindings, Backends, ReadKey, Goes, Leaves
<1>5. OneQueryEach'
    BY DEF Inductive, TypeOK, StartsArePast, OneQueryEach, Bindings, Backends, ReadKey, Goes, Leaves
<1>6. BoundToOwner'
    BY DEF Inductive, TypeOK, NoneLeftBehind, StartsArePast, OneQueryEach, BoundToOwner, Bindings, Backends, ReadKey, Goes, Leaves
<1>7. ModeIsSet'
    BY DEF Inductive, TypeOK, ModeIsSet, Bindings, Backends, ReadKey, Goes, Leaves
<1>8. QED BY <1>1, <1>2, <1>3, <1>4, <1>5, <1>6, <1>7 DEF Inductive

\* Bind: no other query has the backend.
LEMMA BindKeeps ==
    ASSUME Inductive, NEW c \in Conns, Bind(c)
    PROVE  Inductive'
<1>. USE BoundAssumption, NoneAssumption, ModeAssumption
<1>1. TypeOK'
    BY DEF Inductive, TypeOK, Bindings, Backends, Bind, Bound, Of, Key, Goes, Leaves
<1>2. RunsAsOwner'
    BY DEF Inductive, TypeOK, BoundToOwner, ModeIsSet, RunsAsOwner, Bindings, Backends, Bind, Bound, Of, Key, Goes, Leaves
<1>3. NoneLeftBehind'
    BY DEF Inductive, TypeOK, BoundToOwner, NoneLeftBehind, Bindings, Backends, Bind, Bound, Of, Key, Goes, Leaves
<1>4. StartsArePast'
    BY DEF Inductive, TypeOK, StartsArePast, Bindings, Backends, Bind, Bound, Of, Key, Goes, Leaves
<1>5. OneQueryEach'
    BY DEF Inductive, TypeOK, StartsArePast, OneQueryEach, Bindings, Backends, Bind, Bound, Of, Key, Goes, Leaves
<1>6. BoundToOwner'
    BY DEF Inductive, TypeOK, NoneLeftBehind, StartsArePast, OneQueryEach, BoundToOwner, Bindings, Backends, Bind, Bound, Of, Key, Goes, Leaves
<1>7. ModeIsSet'
    BY DEF Inductive, TypeOK, ModeIsSet, Bindings, Backends, Bind, Bound, Of, Key, Goes, Leaves
<1>8. QED BY <1>1, <1>2, <1>3, <1>4, <1>5, <1>6, <1>7 DEF Inductive

\* Run: what the backend is bound to is its owner.
LEMMA RunKeeps ==
    ASSUME Inductive, NEW c \in Conns, Run(c)
    PROVE  Inductive'
<1>. USE BoundAssumption, NoneAssumption, ModeAssumption
<1>1. TypeOK'
    BY DEF Inductive, TypeOK, Bindings, Backends, Run, QueryFails, Of, Key, Goes, Leaves
<1>2. RunsAsOwner'
    BY DEF Inductive, TypeOK, BoundToOwner, ModeIsSet, RunsAsOwner, Bindings, Backends, Run, QueryFails, Of, Key, Goes, Leaves
<1>3. NoneLeftBehind'
    BY DEF Inductive, TypeOK, BoundToOwner, NoneLeftBehind, Bindings, Backends, Run, QueryFails, Of, Key, Goes, Leaves
<1>4. StartsArePast'
    BY DEF Inductive, TypeOK, StartsArePast, Bindings, Backends, Run, QueryFails, Of, Key, Goes, Leaves
<1>5. OneQueryEach'
    BY DEF Inductive, TypeOK, StartsArePast, OneQueryEach, Bindings, Backends, Run, QueryFails, Of, Key, Goes, Leaves
<1>6. BoundToOwner'
    BY DEF Inductive, TypeOK, NoneLeftBehind, StartsArePast, OneQueryEach, BoundToOwner, Bindings, Backends, Run, QueryFails, Of, Key, Goes, Leaves
<1>7. ModeIsSet'
    BY DEF Inductive, TypeOK, ModeIsSet, Bindings, Backends, Run, QueryFails, Of, Key, Goes, Leaves
<1>8. QED BY <1>1, <1>2, <1>3, <1>4, <1>5, <1>6, <1>7 DEF Inductive

\* Unbind
LEMMA UnbindKeeps ==
    ASSUME Inductive, NEW c \in Conns, Unbind(c)
    PROVE  Inductive'
<1>. USE BoundAssumption, NoneAssumption, ModeAssumption
<1>1. TypeOK'
    BY DEF Inductive, TypeOK, Bindings, Backends, Unbind, Of, Key, Goes, Leaves
<1>2. RunsAsOwner'
    BY DEF Inductive, TypeOK, BoundToOwner, ModeIsSet, RunsAsOwner, Bindings, Backends, Unbind, Of, Key, Goes, Leaves
<1>3. NoneLeftBehind'
    BY DEF Inductive, TypeOK, BoundToOwner, NoneLeftBehind, Bindings, Backends, Unbind, Of, Key, Goes, Leaves
<1>4. StartsArePast'
    BY DEF Inductive, TypeOK, StartsArePast, Bindings, Backends, Unbind, Of, Key, Goes, Leaves
<1>5. OneQueryEach'
    BY DEF Inductive, TypeOK, StartsArePast, OneQueryEach, Bindings, Backends, Unbind, Of, Key, Goes, Leaves
<1>6. BoundToOwner'
    BY DEF Inductive, TypeOK, NoneLeftBehind, StartsArePast, OneQueryEach, BoundToOwner, Bindings, Backends, Unbind, Of, Key, Goes, Leaves
<1>7. ModeIsSet'
    BY DEF Inductive, TypeOK, ModeIsSet, Bindings, Backends, Unbind, Of, Key, Goes, Leaves
<1>8. QED BY <1>1, <1>2, <1>3, <1>4, <1>5, <1>6, <1>7 DEF Inductive

\* Postgres: a backend ends, a binding expires.
LEMMA ExitKeeps ==
    ASSUME Inductive, NEW b \in alive, Exits(b)
    PROVE  Inductive'
<1>. USE BoundAssumption, NoneAssumption, ModeAssumption
<1>1. TypeOK'
    BY DEF Inductive, TypeOK, Bindings, Backends, Exits
<1>2. RunsAsOwner'
    BY DEF Inductive, TypeOK, BoundToOwner, ModeIsSet, RunsAsOwner, Bindings, Backends, Exits
<1>3. NoneLeftBehind'
    BY DEF Inductive, TypeOK, BoundToOwner, NoneLeftBehind, Bindings, Backends, Exits
<1>4. StartsArePast'
    BY DEF Inductive, TypeOK, StartsArePast, Bindings, Backends, Exits
<1>5. OneQueryEach'
    BY DEF Inductive, TypeOK, StartsArePast, OneQueryEach, Bindings, Backends, Exits
<1>6. BoundToOwner'
    BY DEF Inductive, TypeOK, NoneLeftBehind, StartsArePast, OneQueryEach, BoundToOwner, Bindings, Backends, Exits
<1>7. ModeIsSet'
    BY DEF Inductive, TypeOK, ModeIsSet, Bindings, Backends, Exits
<1>8. QED BY <1>1, <1>2, <1>3, <1>4, <1>5, <1>6, <1>7 DEF Inductive

LEMMA ExpireKeeps ==
    ASSUME Inductive, NEW k \in bindings, Expires(k)
    PROVE  Inductive'
<1>. USE BoundAssumption, NoneAssumption, ModeAssumption
<1>1. TypeOK'
    BY DEF Inductive, TypeOK, Bindings, Backends, Expires
<1>2. RunsAsOwner'
    BY DEF Inductive, TypeOK, BoundToOwner, ModeIsSet, RunsAsOwner, Bindings, Backends, Expires
<1>3. NoneLeftBehind'
    BY DEF Inductive, TypeOK, BoundToOwner, NoneLeftBehind, Bindings, Backends, Expires
<1>4. StartsArePast'
    BY DEF Inductive, TypeOK, StartsArePast, Bindings, Backends, Expires
<1>5. OneQueryEach'
    BY DEF Inductive, TypeOK, StartsArePast, OneQueryEach, Bindings, Backends, Expires
<1>6. BoundToOwner'
    BY DEF Inductive, TypeOK, NoneLeftBehind, StartsArePast, OneQueryEach, BoundToOwner, Bindings, Backends, Expires
<1>7. ModeIsSet'
    BY DEF Inductive, TypeOK, ModeIsSet, Bindings, Backends, Expires
<1>8. QED BY <1>1, <1>2, <1>3, <1>4, <1>5, <1>6, <1>7 DEF Inductive

-----------------------------------------------------------------------------
\* Every reachable state is Inductive.
THEOREM InductiveHolds == Spec => []Inductive
<1>1. Init => Inductive
    BY BoundAssumption, NoneAssumption, ModeAssumption
    DEF Init, Inductive, TypeOK, RunsAsOwner, NoneLeftBehind, StartsArePast, OneQueryEach,
        BoundToOwner, ModeIsSet, Backends, Bindings
<1>2. Inductive /\ [Next]_vars => Inductive'
    <2>. SUFFICES ASSUME Inductive, [Next]_vars PROVE Inductive' OBVIOUS
    <2>1. ASSUME NEW c \in Conns, Login(c) \/ run_query(c) PROVE Inductive'
        BY <2>1, LoginKeeps, ConnectKeeps, GatekeeperKeeps, ConfigureKeeps, ReadKeyKeeps,
           BindKeeps, RunKeeps, UnbindKeeps DEF run_query
    <2>2. ASSUME NEW b \in alive, Exits(b) PROVE Inductive'
        BY <2>2, ExitKeeps
    <2>3. ASSUME NEW k \in bindings, Expires(k) PROVE Inductive'
        BY <2>3, ExpireKeeps
    <2>4. CASE UNCHANGED vars
        BY <2>4 DEF vars, Inductive, TypeOK, RunsAsOwner, NoneLeftBehind, StartsArePast,
            OneQueryEach, BoundToOwner, ModeIsSet
    <2>5. QED BY <2>1, <2>2, <2>3, <2>4 DEF Next
<1>3. QED BY <1>1, <1>2, PTL DEF Spec

\* Every variable keeps its type.
THEOREM TypeCorrect == Spec => []TypeOK
BY InductiveHolds, PTL DEF Inductive

\* A query runs with its own identity or none, and in the access mode.
THEOREM QueriesRunAsOwner == Spec => []RunsAsOwner
BY InductiveHolds, PTL DEF Inductive

\* A binding outlives its query only where Postgres failed.
THEOREM BindingsAreRemoved == Spec => []NoneLeftBehind
BY InductiveHolds, PTL DEF Inductive
=============================================================================

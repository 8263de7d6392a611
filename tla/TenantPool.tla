----------------------------- MODULE TenantPool -----------------------------
(***************************************************************************)
(* The pool of MCP server instances kept by the MCP sidecar                *)
(* (service/mcp-sidecar/src/tenancy.rs, ClientPool), driven by the HTTP    *)
(* requests that use it: tool and resource calls, GET /health and          *)
(* POST /reload.                                                           *)
(*                                                                         *)
(* Every request is served by a task of its own.  A task runs unnoticed    *)
(* from one await to the next, so one action covers the code between two   *)
(* awaits; the `tenants' mutex is held across awaits in one place only,    *)
(* while call_client spawns an instance.                                   *)
(*                                                                         *)
(* A request spawns at most one instance, so an instance is named after    *)
(* the request that spawned it; Boot names the discovery instance that     *)
(* main.rs spawns before it serves anything.                               *)
(***************************************************************************)
EXTENDS Integers, FiniteSets

CONSTANTS
    Requests,          \* the HTTP requests, each handled once
    Identities,        \* what verify_identity_token may yield: records or None
    Blank,             \* a claim that is empty, only whitespace, or not there
    None,              \* Option::None, a mutex nobody holds
    Boot,              \* the instance spawned by main.rs
    Modes,             \* the tenant modes the sidecar may be started in
    MaxTenantClients,  \* --max-tenant-clients
    IdleTtl,           \* --tenant-idle-ttl-seconds; 0 is no eviction
    MaxTime,           \* bound on the clock
    Ops,               \* the endpoints the clients use
    Faults             \* which faults the environment may produce

ASSUME ModeAssumption == Modes \subseteq {"shared", "principal", "session"}
ASSUME NumbersAssumption ==
    /\ MaxTenantClients \in Nat
    /\ IdleTtl \in Nat
    /\ MaxTime \in Nat
ASSUME NamesAssumption == None \notin Requests /\ Boot \notin Requests /\ None # Boot
ASSUME EntryAssumption == None \notin [client : Requests \cup {Boot}, lastUsed : Nat]
ASSUME EnvironmentAssumption ==
    /\ Ops \subseteq {"call", "health", "reload"}
    /\ Faults \subseteq {"spawn_failure", "disconnect", "exit"}

Instances == Requests \cup {Boot}

\* ClientPool::new: a limit of zero means one.
Limit == IF MaxTenantClients < 1 THEN 1 ELSE MaxTenantClients

-----------------------------------------------------------------------------
(* tenant_key_for *)

\* MissingIdentity and MissingSession: the identity does not name a tenant.
Unidentified(m, i) == i # None => m = "session" /\ i.session = Blank

\* Mutant: the principal goes first.
ScopeNamePrincipalFirst(m, i) ==
    IF m = "session" THEN i.session
    ELSE IF i.principal # Blank THEN i.principal
    ELSE i.smithUser

\* The name that scopes the key: a Smith user goes before the principal.
ScopeName(m, i) ==
    IF m = "session" THEN i.session
    ELSE IF i.smithUser # Blank THEN i.smithUser
    ELSE i.principal

TenantKey(m, i) == <<m, ScopeName(m, i)>>

Tenants(m) == {i \in Identities : m # "shared" /\ ~Unidentified(m, i)}
Keys == UNION {{TenantKey(m, i) : i \in Tenants(m)} : m \in Modes}

ASSUME PairAssumption == None \notin (Keys \cup {None}) \X Instances

-----------------------------------------------------------------------------
VARIABLES
    mode,       \* TenantMode, which the sidecar never changes
    now,        \* the monotonic clock behind Instant::now()
    tenants,    \* the map behind the mutex: key -> TenantEntry, None if absent
    lock,       \* the request holding the tenants mutex across an await
    discovery,  \* the instance in the discovery slot
    pc,         \* where each request is
    op,         \* what each request asks for
    caller,     \* the identity of each call
    at,         \* the `now' each call captured before it queued for the mutex
    holding,    \* the instance a call has been given
    doomed,     \* the instances each request still has to shut down
    proc,       \* the life of each instance's process
    outdated    \* history: the instances spawned before a reload drained the pool

vars == <<mode, now, tenants, lock, discovery, pc, op, caller, at, holding, doomed,
          proc, outdated>>

Entry == [client : Instances, lastUsed : Nat]

TypeOK ==
    /\ mode \in Modes
    /\ now \in 0..MaxTime
    /\ tenants \in [Keys -> Entry \cup {None}]
    /\ lock \in Requests \cup {None}
    /\ discovery \in Instances
    /\ pc \in [Requests -> {"idle", "lock", "starting", "listing", "closing",
                            "count", "using", "done"}]
    /\ op \in [Requests -> {"none", "call", "health", "reload"}]
    /\ caller \in [Requests -> Identities \cup {None}]
    /\ at \in [Requests -> 0..MaxTime]
    /\ holding \in [Requests -> Instances \cup {None}]
    /\ doomed \in [Requests -> SUBSET Instances]
    /\ proc \in [Instances -> {"unborn", "running", "exited", "shut"}]
    /\ outdated \subseteq Instances

Init ==
    /\ mode \in Modes
    /\ now = 0
    /\ tenants = [k \in Keys |-> None]
    /\ lock = None
    /\ discovery = Boot
    /\ pc = [r \in Requests |-> "idle"]
    /\ op = [r \in Requests |-> "none"]
    /\ caller = [r \in Requests |-> None]
    /\ at = [r \in Requests |-> 0]
    /\ holding = [r \in Requests |-> None]
    /\ doomed = [r \in Requests |-> {}]
    /\ proc = [c \in Instances |-> IF c = Boot THEN "running" ELSE "unborn"]
    /\ outdated = {}

Active(map) == {k \in Keys : map[k] # None}
Pooled(map) == {map[k].client : k \in Active(map)}

-----------------------------------------------------------------------------
(* prune_idle_entries *)

Idle(k, t) ==
    /\ IdleTtl > 0
    /\ tenants[k] # None
    /\ t - tenants[k].lastUsed >= IdleTtl

\* Mutant: the expired entries stay in the map.
PrunedNothing(t) == tenants

Pruned(t) == [k \in Keys |-> IF Idle(k, t) THEN None ELSE tenants[k]]

Expired(t) == {tenants[k].client : k \in {j \in Keys : Idle(j, t)}}

-----------------------------------------------------------------------------
(* Requests arrive *)

\* Shared tenancy: the call is given the discovery instance.
CallShared(r) ==
    /\ pc[r] = "idle" /\ "call" \in Ops /\ mode = "shared"
    /\ op' = [op EXCEPT ![r] = "call"]
    /\ holding' = [holding EXCEPT ![r] = discovery]
    /\ pc' = [pc EXCEPT ![r] = "using"]
    /\ UNCHANGED <<mode, now, tenants, lock, discovery, caller, at, doomed, proc, outdated>>

\* 401: no identity, or no session in it.
CallRefused(r, i) ==
    /\ pc[r] = "idle" /\ "call" \in Ops /\ mode # "shared"
    /\ Unidentified(mode, i)
    /\ op' = [op EXCEPT ![r] = "call"]
    /\ caller' = [caller EXCEPT ![r] = i]
    /\ pc' = [pc EXCEPT ![r] = "done"]
    /\ UNCHANGED <<mode, now, tenants, lock, discovery, at, holding, doomed, proc,
                   outdated>>

\* The clock is read before the call queues for the mutex.
CallArrives(r, i) ==
    /\ pc[r] = "idle" /\ "call" \in Ops /\ mode # "shared"
    /\ ~Unidentified(mode, i)
    /\ op' = [op EXCEPT ![r] = "call"]
    /\ caller' = [caller EXCEPT ![r] = i]
    /\ at' = [at EXCEPT ![r] = now]
    /\ pc' = [pc EXCEPT ![r] = "lock"]
    /\ UNCHANGED <<mode, now, tenants, lock, discovery, holding, doomed, proc, outdated>>

HealthArrives(r) ==
    /\ pc[r] = "idle" /\ "health" \in Ops
    /\ op' = [op EXCEPT ![r] = "health"]
    /\ pc' = [pc EXCEPT ![r] = "lock"]
    /\ UNCHANGED <<mode, now, tenants, lock, discovery, caller, at, holding,
                   doomed, proc, outdated>>

\* A reload spawns its new discovery instance before it touches anything.
ReloadArrives(r) ==
    /\ pc[r] = "idle" /\ "reload" \in Ops
    /\ op' = [op EXCEPT ![r] = "reload"]
    /\ proc' = [proc EXCEPT ![r] = "running"]
    /\ pc' = [pc EXCEPT ![r] = "starting"]
    /\ UNCHANGED <<mode, now, tenants, lock, discovery, caller, at, holding,
                   doomed, outdated>>

-----------------------------------------------------------------------------
(* call_client, once it has the tenants mutex *)

Key(r) == TenantKey(mode, caller[r])

CallAtLock(r) == pc[r] = "lock" /\ op[r] = "call" /\ lock = None

LockHit(r) ==
    /\ CallAtLock(r)
    /\ Pruned(at[r])[Key(r)] # None
    /\ tenants' = [Pruned(at[r]) EXCEPT ![Key(r)] = [client |-> tenants[Key(r)].client, lastUsed |-> at[r]]]
    /\ holding' = [holding EXCEPT ![r] = tenants[Key(r)].client]
    /\ doomed' = [doomed EXCEPT ![r] = Expired(at[r])]
    /\ pc' = [pc EXCEPT ![r] = "closing"]
    /\ UNCHANGED <<mode, now, lock, discovery, op, caller, at, proc, outdated>>

\* Mutant: a limit of n refuses the instance after the next.
HasRoomOffByOne(map) == Cardinality(Active(map)) <= Limit

HasRoom(map) == Cardinality(Active(map)) < Limit

\* CallClientError::Capacity, 503.
LockFull(r) ==
    /\ CallAtLock(r)
    /\ Pruned(at[r])[Key(r)] = None
    /\ ~HasRoom(Pruned(at[r]))
    /\ tenants' = Pruned(at[r])
    /\ doomed' = [doomed EXCEPT ![r] = Expired(at[r])]
    /\ pc' = [pc EXCEPT ![r] = "closing"]
    /\ UNCHANGED <<mode, now, lock, discovery, op, caller, at, holding, proc, outdated>>

\* The instance is spawned with the mutex held.
LockSpawn(r) ==
    /\ CallAtLock(r)
    /\ Pruned(at[r])[Key(r)] = None
    /\ HasRoom(Pruned(at[r]))
    /\ tenants' = Pruned(at[r])
    /\ doomed' = [doomed EXCEPT ![r] = Expired(at[r])]
    /\ lock' = r
    /\ proc' = [proc EXCEPT ![r] = "running"]
    /\ pc' = [pc EXCEPT ![r] = "starting"]
    /\ UNCHANGED <<mode, now, discovery, op, caller, at, holding, outdated>>

-----------------------------------------------------------------------------
(* McpClient::spawn_from_config, for a call and for a reload *)

Released(r) == IF lock = r THEN None ELSE lock

\* initialize answered in time, and the initialized notification was written.
SpawnInitialized(r) ==
    /\ pc[r] = "starting"
    /\ pc' = [pc EXCEPT ![r] = "listing"]
    /\ UNCHANGED <<mode, now, tenants, lock, discovery, op, caller, at, holding,
                   doomed, proc, outdated>>

\* The program did not start, or initialize failed or timed out: `?' leaves the
\* function, so the expired instances are dropped, not shut down.
SpawnFails(r) ==
    /\ pc[r] = "starting" /\ "spawn_failure" \in Faults
    /\ \E left \in {proc[r], "exited"} : proc' = [proc EXCEPT ![r] = left]
    /\ lock' = Released(r)
    /\ doomed' = [doomed EXCEPT ![r] = {}]
    /\ pc' = [pc EXCEPT ![r] = "done"]
    /\ UNCHANGED <<mode, now, tenants, discovery, op, caller, at, holding, outdated>>

\* tools/list answered or failed (it has no timeout): the call's instance enters
\* the pool with the instant the call captured on arrival.
CallSpawned(r) ==
    /\ pc[r] = "listing" /\ op[r] = "call"
    /\ tenants' = [tenants EXCEPT ![Key(r)] = [client |-> r, lastUsed |-> at[r]]]
    /\ holding' = [holding EXCEPT ![r] = r]
    /\ lock' = Released(r)
    /\ pc' = [pc EXCEPT ![r] = "closing"]
    /\ UNCHANGED <<mode, now, discovery, op, caller, at, doomed, proc, outdated>>

\* Mutant: nothing is taken out.
ReplacedNone(r) == {}

\* What mem::replace returns.
Replaced(r) == {discovery}

\* reload swaps the discovery slot, then queues for the tenants mutex.
ReloadSpawned(r) ==
    /\ pc[r] = "listing" /\ op[r] = "reload"
    /\ discovery' = r
    /\ doomed' = [doomed EXCEPT ![r] = Replaced(r)]
    /\ pc' = [pc EXCEPT ![r] = "lock"]
    /\ UNCHANGED <<mode, now, tenants, lock, op, caller, at, holding, proc, outdated>>

\* Mutant: the entries are copied out and stay.
DrainedNothing == tenants

Drained == [k \in Keys |-> None]

ReloadDrains(r) ==
    /\ pc[r] = "lock" /\ op[r] = "reload" /\ lock = None
    /\ tenants' = Drained
    /\ doomed' = [doomed EXCEPT ![r] = @ \cup Pooled(tenants)]
    /\ outdated' = {c \in Instances : proc[c] # "unborn"}
    /\ pc' = [pc EXCEPT ![r] = "closing"]
    /\ UNCHANGED <<mode, now, lock, discovery, op, caller, at, holding, proc>>

-----------------------------------------------------------------------------
(* active_tenant_clients, for GET /health: it reads the clock under the mutex *)

HealthPrunes(r) ==
    /\ pc[r] = "lock" /\ op[r] = "health" /\ lock = None
    /\ tenants' = Pruned(now)
    /\ doomed' = [doomed EXCEPT ![r] = Expired(now)]
    /\ pc' = [pc EXCEPT ![r] = "closing"]
    /\ UNCHANGED <<mode, now, lock, discovery, op, caller, at, holding, proc, outdated>>

HealthCounts(r) ==
    /\ pc[r] = "count" /\ lock = None
    /\ pc' = [pc EXCEPT ![r] = "done"]
    /\ UNCHANGED <<mode, now, tenants, lock, discovery, op, caller, at, holding,
                   doomed, proc, outdated>>

-----------------------------------------------------------------------------
(* Shutting down, serving, and what the environment does *)

IsDiscovery(c) == c = Boot \/ op[c] = "reload"

\* One McpClient::shutdown; a reload begins with the discovery instance it replaced.
Shuts(r, c) ==
    /\ pc[r] = "closing"
    /\ c \in doomed[r]
    /\ \A d \in doomed[r] : IsDiscovery(d) => c = d
    /\ proc' = [proc EXCEPT ![c] = "shut"]
    /\ doomed' = [doomed EXCEPT ![r] = @ \ {c}]
    /\ UNCHANGED <<mode, now, tenants, lock, discovery, pc, op, caller, at,
                   holding, outdated>>

\* Mutant: a call that was refused tries again.
AfterClosingRetries(r) ==
    IF op[r] = "health" THEN "count"
    ELSE IF op[r] = "call" THEN (IF holding[r] # None THEN "using" ELSE "lock")
    ELSE "done"

AfterClosing(r) ==
    IF op[r] = "health" THEN "count"
    ELSE IF op[r] = "call" /\ holding[r] # None THEN "using"
    ELSE "done"

\* Mutant: the handler does not wait for the shutdowns.
AllShutSoon(r) == TRUE

AllShut(r) == doomed[r] = {}

Closed(r) ==
    /\ pc[r] = "closing" /\ AllShut(r)
    /\ pc' = [pc EXCEPT ![r] = AfterClosing(r)]
    /\ UNCHANGED <<mode, now, tenants, lock, discovery, op, caller, at, holding,
                   doomed, proc, outdated>>

\* The call on the instance returned, failed or timed out; the handler ends.
CallEnds(r) ==
    /\ pc[r] = "using"
    /\ pc' = [pc EXCEPT ![r] = "done"]
    /\ holding' = [holding EXCEPT ![r] = None]
    /\ UNCHANGED <<mode, now, tenants, lock, discovery, op, caller, at, doomed,
                   proc, outdated>>

\* The HTTP client goes away: the handler is dropped at the await it is at, and
\* with it the mutex guard and the handles of the instances it had taken out.
Disconnects(r) ==
    /\ "disconnect" \in Faults
    /\ pc[r] \notin {"idle", "done"}
    /\ lock' = Released(r)
    /\ holding' = [holding EXCEPT ![r] = None]
    /\ doomed' = [doomed EXCEPT ![r] = {}]
    /\ pc' = [pc EXCEPT ![r] = "done"]
    /\ UNCHANGED <<mode, now, tenants, discovery, op, caller, at, proc, outdated>>

\* An MCP server process ends by itself; the pool does not notice.
Exits(c) ==
    /\ "exit" \in Faults
    /\ proc[c] = "running"
    /\ proc' = [proc EXCEPT ![c] = "exited"]
    /\ UNCHANGED <<mode, now, tenants, lock, discovery, pc, op, caller, at,
                   holding, doomed, outdated>>

Tick ==
    /\ now < MaxTime
    /\ now' = now + 1
    /\ UNCHANGED <<mode, tenants, lock, discovery, pc, op, caller, at, holding,
                   doomed, proc, outdated>>

\* Every request has been handled and the clock is at its bound.
Finished ==
    /\ now = MaxTime
    /\ \A r \in Requests : pc[r] = "done"
    /\ UNCHANGED vars

Arrives(r) ==
    \/ CallShared(r)
    \/ \E i \in Identities : CallRefused(r, i) \/ CallArrives(r, i)
    \/ HealthArrives(r)
    \/ ReloadArrives(r)

TakesLock(r) ==
    \/ LockHit(r)
    \/ LockFull(r)
    \/ LockSpawn(r)
    \/ ReloadDrains(r)
    \/ HealthPrunes(r)
    \/ HealthCounts(r)

Runs(r) ==
    \/ SpawnInitialized(r)
    \/ SpawnFails(r)
    \/ \E c \in Instances : Shuts(r, c)
    \/ Closed(r)
    \/ CallEnds(r)

ToolsListed(r) == CallSpawned(r) \/ ReloadSpawned(r)

Next ==
    \/ \E r \in Requests : Arrives(r) \/ TakesLock(r) \/ Runs(r) \/ ToolsListed(r)
    \/ \E r \in Requests : Disconnects(r)
    \/ \E c \in Instances : Exits(c)
    \/ Tick
    \/ Finished

Spec == Init /\ [][Next]_vars

(***************************************************************************)
(* Fairness.  The runtime polls every task that can run; tokio's mutex     *)
(* serves its waiters in order of arrival, so a request that the free      *)
(* mutex passes over again and again gets it in the end.  The timeout on   *)
(* initialize bounds the starting phase.  Nothing bounds tools/list, so    *)
(* only ListingSpec takes for granted that an MCP server answers it.       *)
(***************************************************************************)
Scheduling == \A r \in Requests : WF_vars(Runs(r)) /\ SF_vars(TakesLock(r))

FairSpec == Spec /\ Scheduling
ListingSpec == FairSpec /\ \A r \in Requests : WF_vars(ToolsListed(r))
-----------------------------------------------------------------------------
(* Safety *)

\* The pool never holds more instances than --max-tenant-clients allows, however
\* calls, evictions, spawns and reloads interleave (tenancy.rs:130-155).
PoolBounded == Cardinality(Active(tenants)) <= Limit

TenantsOf(i) == IF i.smithUser = Blank THEN {i.principal} ELSE {i.smithUser}

SameTenant(i, j) ==
    /\ mode = "principal" => TenantsOf(i) = TenantsOf(j)
    /\ mode = "session" => i.session = j.session

\* Two calls that have been given the same instance belong to one tenant: the
\* same session, or the same principal or Smith user (tenancy.rs:110-159, 266-289).
Isolation ==
    \A r, s \in Requests :
        holding[r] # None /\ holding[r] = holding[s]
            => SameTenant(caller[r], caller[s])

\* No instance is shut down while the pool or the discovery slot can still hand
\* it out (tenancy.rs:122-128, 167-183).
PooledNotShut ==
    \A c \in Pooled(tenants) \cup {discovery} : proc[c] \in {"running", "exited"}

\* Whoever takes an instance out is alone to shut it down, and it is out for
\* good: it is neither pooled, nor in the discovery slot, nor with another request.
SoleDisposer ==
    \A r \in Requests :
        /\ doomed[r] \cap (Pooled(tenants) \cup {discovery}) = {}
        /\ \A s \in Requests \ {r} : doomed[r] \cap doomed[s] = {}

\* After a reload has drained the pool, no instance that was spawned before is
\* pooled again, not even one whose spawn the reload found under way
\* (tenancy.rs:172-178 against 145-155).
ReloadLeavesNothingOld == Pooled(tenants) \cap outdated = {}

Spawning(c) == c \in Requests /\ pc[c] \in {"starting", "listing"}

\* As long as no spawn fails and no handler is dropped, every live process is
\* known to someone who can still shut it down.
NothingLost ==
    \A c \in Instances :
        proc[c] = "running" =>
            \/ c \in Pooled(tenants) \cup {discovery}
            \/ Spawning(c)
            \/ \E r \in Requests : c \in doomed[r]

-----------------------------------------------------------------------------
(* Why these hold: the inductive invariant *)

Offered(c) == c \in Pooled(tenants) \/ c = discovery

\* The mutex is held across awaits exactly by the call that spawns.
LockInv ==
    \A r \in Requests : lock = r <=> op[r] = "call" /\ Spawning(r)

\* What a request has done by the time it is where it is.
PhaseInv ==
    \A r \in Requests :
        /\ pc[r] = "idle" => op[r] = "none"
        /\ pc[r] = "idle" \/ (pc[r] = "lock" /\ op[r] = "call") => proc[r] = "unborn"
        /\ Spawning(r) => op[r] \in {"call", "reload"} /\ proc[r] \in {"running", "exited"}
        /\ pc[r] = "lock" => op[r] # "none"
        /\ op[r] = "call" /\ pc[r] \notin {"using", "done"} =>
              mode # "shared" /\ caller[r] \in Tenants(mode)

\* An instance nobody was given yet is in nobody's hands.
FreshInv ==
    \A c \in Instances :
        proc[c] = "unborn" \/ Spawning(c) =>
            /\ ~Offered(c)
            /\ c \notin outdated \/ proc[c] # "unborn"
            /\ \A s \in Requests : c \notin doomed[s] /\ holding[s] # c

\* A pooled instance was spawned by a call of the tenant it is pooled for.
SlotInv ==
    \A k \in Keys : tenants[k] # None =>
        /\ tenants[k].client \in Requests
        /\ op[tenants[k].client] = "call"
        /\ caller[tenants[k].client] \in Tenants(mode)
        /\ Key(tenants[k].client) = k

DiscoveryInv == discovery = Boot \/ op[discovery] = "reload"

\* A call holds an instance that was spawned by a call of its own tenant.
HoldInv ==
    \A r \in Requests : holding[r] # None =>
        /\ op[r] = "call" /\ pc[r] \in {"closing", "using"}
        /\ mode # "shared" =>
            /\ holding[r] \in Requests
            /\ caller[holding[r]] \in Tenants(mode)
            /\ op[holding[r]] = "call"
            /\ Key(holding[r]) = Key(r)

\* While a call spawns, there is room for its instance, and its slot is empty.
RoomInv ==
    /\ IsFiniteSet(Active(tenants))
    /\ lock # None =>
        /\ Cardinality(Active(tenants)) < Limit
        /\ tenants[Key(lock)] = None
        /\ lock \notin outdated

\* A request that has taken nothing out yet has nothing to shut down.
DoomedInv ==
    \A r \in Requests :
        pc[r] = "idle" \/ (pc[r] = "lock" /\ op[r] # "reload") \/ (Spawning(r) /\ op[r] = "reload")
            => doomed[r] = {}

Inductive ==
    /\ TypeOK
    /\ LockInv
    /\ PhaseInv
    /\ FreshInv
    /\ SlotInv
    /\ DiscoveryInv
    /\ HoldInv
    /\ RoomInv
    /\ PooledNotShut
    /\ SoleDisposer
    /\ PoolBounded
    /\ ReloadLeavesNothingOld

-----------------------------------------------------------------------------
(* Liveness *)

\* A call that queues for the pool is given an instance or an answer, whatever
\* the requests before it do with the mutex (tenancy.rs:110-159).
CallsResolve ==
    \A r \in Requests : pc[r] = "lock" ~> pc[r] \in {"using", "done"}

\* An instance taken out of the pool or of the discovery slot is shut down, as
\* long as no spawn fails and no handler is dropped (tenancy.rs:157, 180-183).
RemovedAreShut ==
    \A c \in Instances :
        (\E r \in Requests : c \in doomed[r]) ~> proc[c] = "shut"

-----------------------------------------------------------------------------
(* Refinement *)

\* A request that holds an instance holds it for its tenant; the discovery
\* instance is nobody's.
LeaseOf(r) ==
    IF holding[r] = None THEN None
    ELSE <<IF mode = "shared" THEN None ELSE Key(r), holding[r]>>

Contract == INSTANCE PoolContract WITH
    slot   <- [k \in Keys |-> IF tenants[k] = None THEN None ELSE tenants[k].client],
    shown  <- discovery,
    lease  <- [r \in Requests |-> LeaseOf(r)],
    spent  <- {c \in Instances : proc[c] # "unborn" /\ ~Spawning(c)},
    closed <- {c \in Instances : proc[c] = "shut"}

\* The pool with its mutex, clock and handshakes keeps the promises of
\* PoolContract: leases by tenant, new instances only, closed after removal.
ImplementsContract == Contract!CSpec
=============================================================================

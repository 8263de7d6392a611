----------------------------- MODULE AuthzCache ------------------------------
(***************************************************************************)
(* The catalog's cache of OPA decisions for tool discovery                 *)
(* (service/catalog/src/http.rs): concurrent checks look a decision up,    *)
(* ask OPA on a miss and store its answer.  Each use of the lock of the    *)
(* cache is one step, since no await happens under it; between the steps   *)
(* of a check other checks run, time passes and the policy changes.        *)
(***************************************************************************)
EXTENDS Integers, FiniteSets, Functions

CONSTANTS
    Checks,      \* tasks that run authorize_tool_discovery
    Claims,      \* verified identities: channel, principal, user and role
    Tools,       \* qualified tool names
    None,
    Ttl,         \* authz_cache_ttl
    MaxEntries,  \* authz_cache_max_entries, at least 1 (main.rs)
    Delay,       \* bound on the ticks a check waits for a lock or for OPA
    MaxClock,    \* bound on the time
    Garbage      \* OPA may answer something else than a decision

ASSUME BoundAssumption ==
    Ttl \in Nat /\ Delay \in Nat /\ MaxClock \in Nat /\ MaxEntries \in Nat \ {0}
ASSUME GarbageAssumption == Garbage \in BOOLEAN

VARIABLES
    clock,
    policy,     \* what OPA allows
    flipped,    \* when OPA's decision on an input was last the opposite of today's
    cache,      \* discovery_authz_cache
    pc,
    query,      \* the claims and the tool of each check
    now,        \* the Instant each check has taken
    since,      \* when it began to wait
    verdict     \* what OPA said to it

vars == <<clock, policy, flipped, cache, pc, query, now, since, verdict>>

\* The OPA input: a missing smith_user_id is sent as the empty string.
Input(q) ==
    [source |-> q.claims.channel, principal |-> q.claims.principal, role |-> q.claims.role,
     user |-> IF q.claims.user = None THEN "" ELSE q.claims.user, tool |-> q.tool]

\* Mutant: a key without the role.
KeyByPrincipal(q) == [q EXCEPT !.claims.role = ""]

\* discovery_cache_key
Key(q) == q

Queries == [claims : Claims, tool : Tools]
Inputs == {Input(q) : q \in Queries}
Keys == {Key(q) : q \in Queries}

\* DiscoveryAuthzCacheEntry
Entries == [allowed : BOOLEAN, expires : Nat]

\* Every variable keeps its type, no Instant is in the future, and no entry
\* expires later than the ttl from now.
TypeOK ==
    /\ clock \in 0..MaxClock
    /\ policy \subseteq Inputs
    /\ flipped \in [Inputs -> Int]
    /\ DOMAIN cache \subseteq Keys
    /\ \A k \in DOMAIN cache : cache[k] \in Entries /\ cache[k].expires <= clock + Ttl
    /\ pc \in [Checks -> {"idle", "looking", "expired", "asking", "answered", "storing"}]
    /\ query \in [Checks -> Queries \cup {None}]
    /\ now \in [Checks -> 0..clock] /\ since \in [Checks -> 0..clock]
    /\ verdict \in [Checks -> BOOLEAN \cup {None}]

Init ==
    /\ clock = 0
    /\ policy \in SUBSET Inputs
    /\ flipped = [i \in Inputs |-> -1 - Ttl - 2 * Delay]
    /\ cache = << >>
    /\ pc = [r \in Checks |-> "idle"]
    /\ query = [r \in Checks |-> None]
    /\ now = [r \in Checks |-> 0]
    /\ since = [r \in Checks |-> 0]
    /\ verdict = [r \in Checks |-> None]

Waits(r, where) ==
    /\ pc' = [pc EXCEPT ![r] = where]
    /\ since' = [since EXCEPT ![r] = clock]

\* The next check may be made by the same task.
Returns(r) ==
    /\ pc' = [pc EXCEPT ![r] = "idle"]
    /\ query' = [query EXCEPT ![r] = None]
    /\ now' = [now EXCEPT ![r] = 0]
    /\ since' = [since EXCEPT ![r] = 0]
    /\ verdict' = [verdict EXCEPT ![r] = None]

-----------------------------------------------------------------------------
(* authorize_tool_discovery *)

\* lookup_discovery_authz_cache takes the time before it waits for the lock.
Starts(r) ==
    /\ pc[r] = "idle"
    /\ \E q \in Queries : query' = [query EXCEPT ![r] = q]
    /\ now' = [now EXCEPT ![r] = clock]
    /\ Waits(r, "looking")
    /\ UNCHANGED <<clock, policy, flipped, cache, verdict>>

Live(entry, t) == entry.expires > t

\* Under the read lock.
Hits(r) ==
    /\ pc[r] = "looking" /\ Key(query[r]) \in DOMAIN cache
    /\ Live(cache[Key(query[r])], now[r])
    /\ Returns(r)
    /\ UNCHANGED <<clock, policy, flipped, cache>>

Misses(r) ==
    /\ pc[r] = "looking" /\ Key(query[r]) \notin DOMAIN cache
    /\ Waits(r, "asking")
    /\ UNCHANGED <<clock, policy, flipped, cache, query, now, verdict>>

FindsExpired(r) ==
    /\ pc[r] = "looking" /\ Key(query[r]) \in DOMAIN cache
    /\ ~Live(cache[Key(query[r])], now[r])
    /\ Waits(r, "expired")
    /\ UNCHANGED <<clock, policy, flipped, cache, query, now, verdict>>

\* Mutant: what was found expired is removed without a second look.
ExpiredOnce(r) == {Key(query[r])}

\* The entry may have been renewed before the write lock was given.
Expired(r) == {k \in DOMAIN cache \cap {Key(query[r])} : cache[k].expires <= now[r]}

\* Under the write lock.  Whatever is there now, it is a miss.
RemovesExpired(r) ==
    /\ pc[r] = "expired"
    /\ cache' = Restrict(cache, DOMAIN cache \ Expired(r))
    /\ Waits(r, "asking")
    /\ UNCHANGED <<clock, policy, flipped, query, now, verdict>>

\* store_discovery_authz_cache takes the time before it waits for the lock.
Answered(r) ==
    /\ pc[r] = "answered"
    /\ now' = [now EXCEPT ![r] = clock]
    /\ Waits(r, "storing")
    /\ UNCHANGED <<clock, policy, flipped, cache, query, verdict>>

\* An error of the request is not a decision and is not stored.
Unavailable(r) ==
    /\ pc[r] = "asking"
    /\ Returns(r)
    /\ UNCHANGED <<clock, policy, flipped, cache>>

\* The client has gone: the JoinSet of its listing is dropped and its checks with
\* it, each at the await it is at.
Aborted(r) ==
    /\ pc[r] # "idle"
    /\ Returns(r)
    /\ UNCHANGED <<clock, policy, flipped, cache>>

ExpiresAt(t) == t + Ttl

Stored(r) ==
    [k \in DOMAIN cache \cup {Key(query[r])} |->
        IF k = Key(query[r])
        THEN [allowed |-> verdict[r], expires |-> ExpiresAt(now[r])]
        ELSE cache[k]]

\* Mutant: room for one entry more.
CapacityPlusOne == MaxEntries + 1
Capacity == MaxEntries

\* Mutant: the entries that expire last go first.
EvictsBefore(e, f) == e.expires >= f.expires

\* min_by_key over expires_at, ties in any order
Before(e, f) == e.expires <= f.expires

\* prune_discovery_authz_cache: what may be left of c.
Kept(c, t) ==
    LET live == {k \in DOMAIN c : Live(c[k], t)} IN
    {kept \in SUBSET live :
        /\ Cardinality(kept) <= Capacity
        /\ kept # live =>
            /\ Cardinality(kept) = Capacity
            /\ \A k \in kept, gone \in live \ kept : Before(c[gone], c[k])}

Stores(r) ==
    /\ pc[r] = "storing"
    /\ \E kept \in Kept(Stored(r), now[r]) : cache' = Restrict(Stored(r), kept)
    /\ Returns(r)
    /\ UNCHANGED <<clock, policy, flipped>>

-----------------------------------------------------------------------------
(* OPA and time *)

\* OPA evaluates its policy.  authorize_tool_call takes every answer that is not
\* the decision true for a denial, which is stored like one.
Evaluates(r) ==
    /\ pc[r] = "asking"
    /\ \E allowed \in BOOLEAN :
        /\ allowed = (Input(query[r]) \in policy) \/ (Garbage /\ ~allowed)
        /\ verdict' = [verdict EXCEPT ![r] = allowed]
    /\ pc' = [pc EXCEPT ![r] = "answered"]
    /\ UNCHANGED <<clock, policy, flipped, cache, query, now, since>>

PolicyChanges(i) ==
    /\ policy' = IF i \in policy THEN policy \ {i} ELSE policy \cup {i}
    /\ flipped' = [flipped EXCEPT ![i] = clock]
    /\ UNCHANGED <<clock, cache, pc, query, now, since, verdict>>

\* A wait lasts at most Delay ticks: the HTTP client gives up (main.rs), and
\* nobody keeps the lock of the cache.
Tick ==
    /\ clock < MaxClock
    /\ \A r \in Checks : pc[r] # "idle" => clock < since[r] + Delay
    /\ clock' = clock + 1
    /\ UNCHANGED <<policy, flipped, cache, pc, query, now, since, verdict>>

Step(r) ==
    \/ Starts(r) \/ Hits(r) \/ Misses(r) \/ FindsExpired(r) \/ RemovesExpired(r)
    \/ Evaluates(r) \/ Answered(r) \/ Unavailable(r) \/ Aborted(r) \/ Stores(r)

Next ==
    \/ \E r \in Checks : Step(r)
    \/ \E i \in Inputs : PolicyChanges(i)
    \/ Tick

Spec == Init /\ [][Next]_vars

-----------------------------------------------------------------------------
\* The cache never holds more than its limit, whatever races to store.
Bounded == Cardinality(DOMAIN cache) <= MaxEntries

\* OPA decided b on i at the time t or later.
DecidedSince(i, b, t) == (i \in policy) = b \/ flipped[i] >= t

Trusted(allowed) == allowed \/ ~Garbage
Staleness == Ttl + 2 * Delay - 1

\* What a lookup finds is what OPA decided for exactly this user, role, channel
\* and tool less than the ttl and the two waits, for OPA and for the lock, ago,
\* however old and new answers were stored and evicted in between; only a denial
\* may also stand for an answer that was none (http.rs:157-244).
DecisionsRecent ==
    \A r \in Checks : pc[r] = "looking" /\ Key(query[r]) \in DOMAIN cache =>
        LET entry == cache[Key(query[r])] IN
        Live(entry, now[r]) /\ Trusted(entry.allowed) =>
            DecidedSince(Input(query[r]), entry.allowed, clock - Staleness)

-----------------------------------------------------------------------------
(* The inductive invariant: how old a decision may be at each point *)

\* No check waits longer than Delay.
Waiting(r) ==
    pc[r] # "idle" =>
        /\ query[r] \in Queries
        /\ clock <= since[r] + Delay

Looking(r) == pc[r] \in {"looking", "storing"} => now[r] = since[r]

\* OPA's answer to a check is no older than the question, and when it waits to
\* be stored, no older than Delay.
Answer(r) ==
    pc[r] \in {"answered", "storing"} =>
        /\ verdict[r] \in BOOLEAN
        /\ Trusted(verdict[r]) =>
            DecidedSince(Input(query[r]), verdict[r],
                         IF pc[r] = "answered" THEN since[r] ELSE since[r] - Delay)

\* The expiry of an entry says how old its decision may be.
EntryInv ==
    \A k \in DOMAIN cache : Trusted(cache[k].allowed) =>
        DecidedSince(Input(k), cache[k].allowed, cache[k].expires - Ttl - Delay)

\* Every decision on its way into the cache, or in it, is bounded in age by the
\* Instants the code keeps beside it: the strengthening of DecisionsRecent.
Inductive ==
    /\ TypeOK
    /\ \A r \in Checks : Waiting(r) /\ Looking(r) /\ Answer(r)
    /\ EntryInv
    /\ IsFiniteSet(DOMAIN cache) /\ Bounded

-----------------------------------------------------------------------------
\* An entry that has not expired leaves the cache only for a full one, and only
\* if nothing that stays expires before it: no lookup drops a renewed entry.
LiveStay ==
    [][ \A k \in DOMAIN cache \ DOMAIN cache' : cache[k].expires > clock =>
            /\ Cardinality(DOMAIN cache') = MaxEntries
            /\ \A j \in DOMAIN cache' : cache'[j].expires >= cache[k].expires ]_vars
=============================================================================

-------------------------- MODULE AuthzCacheProofs --------------------------
(***************************************************************************)
(* AuthzCache, for any checks, claims and tools, any ttl and any limit:    *)
(* the cache is bounded and what it answers is recent.                     *)
(***************************************************************************)
EXTENDS AuthzCache, TLAPS, FiniteSetTheorems

LEMMA KeysAreQueries == Keys = Queries /\ \A q \in Queries : Key(q) = q /\ Input(q) \in Inputs
BY DEF Keys, Key, Inputs

LEMMA InitInductive == Init => Inductive
<1> SUFFICES ASSUME Init PROVE Inductive
  OBVIOUS
<1>1. DOMAIN cache = {}
  BY DEF Init
<1>2. TypeOK
  BY <1>1, BoundAssumption DEF Init, TypeOK
<1>3. IsFiniteSet(DOMAIN cache) /\ Bounded
  BY <1>1, FS_EmptySet, BoundAssumption DEF Bounded
<1> QED
  BY <1>1, <1>2, <1>3 DEF Init, Inductive, Waiting, Looking, Answer, EntryInv

\* A decision made since t stays one when the policy changes later than t.
LEMMA DecisionStays ==
    ASSUME TypeOK, NEW i \in Inputs, PolicyChanges(i),
           NEW j \in Inputs, NEW b \in BOOLEAN, NEW t \in Int, t <= clock,
           DecidedSince(j, b, t)
    PROVE  DecidedSince(j, b, t)'
<1>1. CASE j = i
  BY <1>1 DEF TypeOK, DecidedSince, PolicyChanges
<1>2. CASE j # i
  BY <1>2 DEF TypeOK, DecidedSince, PolicyChanges
<1> QED BY <1>1, <1>2

\* What is kept is part of what was there, and fits.
LEMMA KeptFits ==
    ASSUME NEW c, NEW t, NEW kept \in Kept(c, t), IsFiniteSet(DOMAIN c)
    PROVE  /\ kept \subseteq DOMAIN c
           /\ IsFiniteSet(kept) /\ Cardinality(kept) <= MaxEntries
<1>1. kept \subseteq DOMAIN c /\ Cardinality(kept) <= MaxEntries
  BY DEF Kept, Capacity
<1> QED BY <1>1, FS_Subset

LEMMA StoredEntries ==
    ASSUME TypeOK, NEW r \in Checks, query[r] \in Queries, verdict[r] \in BOOLEAN
    PROVE  /\ DOMAIN Stored(r) = DOMAIN cache \cup {query[r]}
           /\ Stored(r)[query[r]] = [allowed |-> verdict[r], expires |-> now[r] + Ttl]
           /\ \A k \in DOMAIN cache \ {query[r]} : Stored(r)[k] = cache[k]
           /\ \A k \in DOMAIN Stored(r) :
                k \in Keys /\ Stored(r)[k] \in Entries /\ Stored(r)[k].expires <= clock + Ttl
<1>1. now[r] \in Nat /\ now[r] <= clock /\ clock \in Nat /\ Ttl \in Nat
  BY BoundAssumption DEF TypeOK
<1>2. /\ DOMAIN Stored(r) = DOMAIN cache \cup {query[r]}
      /\ Stored(r)[query[r]] = [allowed |-> verdict[r], expires |-> now[r] + Ttl]
      /\ \A k \in DOMAIN cache \ {query[r]} : Stored(r)[k] = cache[k]
  BY KeysAreQueries DEF Stored, ExpiresAt
<1>3. [allowed |-> verdict[r], expires |-> now[r] + Ttl] \in Entries
  BY <1>1 DEF Entries
<1> QED BY <1>1, <1>2, <1>3, KeysAreQueries DEF TypeOK

LEMMA TypeStep ==
    ASSUME Inductive, [Next]_vars
    PROVE  TypeOK'
<1> USE BoundAssumption DEF Inductive
<1>1. ASSUME NEW r \in Checks, Step(r) PROVE TypeOK'
  <2>1. CASE Starts(r)
    BY <2>1 DEF Starts, Waits, TypeOK
  <2>2. CASE Hits(r)
    BY <2>2 DEF Hits, Returns, TypeOK
  <2>3. CASE Misses(r)
    BY <2>3 DEF Misses, Waits, TypeOK
  <2>4. CASE FindsExpired(r)
    BY <2>4 DEF FindsExpired, Waits, TypeOK
  <2>5. CASE RemovesExpired(r)
    BY <2>5 DEF RemovesExpired, Waits, Restrict, TypeOK
  <2>6. CASE Evaluates(r)
    <3>1. PICK allowed \in BOOLEAN : verdict' = [verdict EXCEPT ![r] = allowed]
      BY <2>6 DEF Evaluates
    <3> QED BY <2>6, <3>1 DEF Evaluates, TypeOK
  <2>7. CASE Answered(r)
    BY <2>7 DEF Answered, Waits, TypeOK
  <2>8. CASE Unavailable(r) \/ Aborted(r)
    BY <2>8 DEF Unavailable, Aborted, Returns, TypeOK
  <2>9. CASE Stores(r)
    <3>1. query[r] \in Queries /\ verdict[r] \in BOOLEAN
      BY <2>9 DEF Stores, Waiting, Answer
    <3>2. PICK kept \in Kept(Stored(r), now[r]) : cache' = Restrict(Stored(r), kept)
      BY <2>9 DEF Stores
    <3>3. kept \subseteq DOMAIN Stored(r)
      BY <3>2 DEF Kept
    <3>4. DOMAIN cache' \subseteq Keys
      BY <3>1, <3>2, <3>3, StoredEntries DEF Restrict
    <3>5. \A k \in DOMAIN cache' : cache'[k] \in Entries /\ cache'[k].expires <= clock + Ttl
      BY <3>1, <3>2, <3>3, StoredEntries DEF Restrict
    <3> QED BY <2>9, <3>4, <3>5 DEF Stores, Returns, TypeOK
  <2> QED BY <1>1, <2>1, <2>2, <2>3, <2>4, <2>5, <2>6, <2>7, <2>8, <2>9 DEF Step
<1>2. ASSUME NEW i \in Inputs, PolicyChanges(i) PROVE TypeOK'
  BY <1>2 DEF PolicyChanges, TypeOK
<1>3. CASE Tick
  <2>1. clock' \in 0..MaxClock /\ clock' = clock + 1 /\ clock \in Nat
    BY <1>3 DEF Tick, TypeOK
  <2>2. \A k \in DOMAIN cache : cache[k] \in Entries /\ cache[k].expires <= clock' + Ttl
    BY <2>1 DEF TypeOK, Entries
  <2>3. now \in [Checks -> 0..clock'] /\ since \in [Checks -> 0..clock']
    BY <2>1 DEF TypeOK
  <2> QED BY <1>3, <2>1, <2>2, <2>3 DEF Tick, TypeOK
<1>4. CASE UNCHANGED vars
  BY <1>4 DEF vars, TypeOK
<1> QED BY <1>1, <1>2, <1>3, <1>4 DEF Next

LEMMA SizeStep ==
    ASSUME Inductive, [Next]_vars
    PROVE  IsFiniteSet(DOMAIN cache)' /\ Bounded'
<1>1. IsFiniteSet(DOMAIN cache) /\ Cardinality(DOMAIN cache) <= MaxEntries
  BY DEF Inductive, Bounded
<1>2. ASSUME NEW r \in Checks, RemovesExpired(r) PROVE IsFiniteSet(DOMAIN cache)' /\ Bounded'
  <2>1. DOMAIN cache' \subseteq DOMAIN cache
    BY <1>2 DEF RemovesExpired, Restrict
  <2> QED BY <1>1, <2>1, FS_Subset, FS_CardinalityType, BoundAssumption DEF Bounded
<1>3. ASSUME NEW r \in Checks, Stores(r) PROVE IsFiniteSet(DOMAIN cache)' /\ Bounded'
  <2>1. query[r] \in Queries /\ verdict[r] \in BOOLEAN
    BY <1>3 DEF Inductive, Stores, Waiting, Answer
  <2>2. IsFiniteSet(DOMAIN Stored(r))
    <3>1. DOMAIN Stored(r) = DOMAIN cache \cup {query[r]}
      BY <2>1, StoredEntries DEF Inductive
    <3> QED BY <1>1, <3>1, FS_AddElement
  <2>3. PICK kept \in Kept(Stored(r), now[r]) : cache' = Restrict(Stored(r), kept)
    BY <1>3 DEF Stores
  <2>4. DOMAIN cache' = kept
    BY <2>3 DEF Restrict
  <2> QED BY <2>2, <2>3, <2>4, KeptFits DEF Bounded
<1>4. CASE UNCHANGED cache
  BY <1>1, <1>4 DEF Bounded
<1> QED
  BY <1>2, <1>3, <1>4
  DEF Next, Step, Starts, Hits, Misses, FindsExpired, Evaluates, Answered, Unavailable, Aborted,
      PolicyChanges, Tick, vars

\* A decision that was recent when something was stored beside it stays so.
LEMMA PolicyKeeps ==
    ASSUME Inductive, NEW i \in Inputs, PolicyChanges(i)
    PROVE  /\ \A r \in Checks : Answer(r)'
           /\ EntryInv'
<1> USE BoundAssumption DEF Inductive
<1>1. ASSUME NEW r \in Checks PROVE Answer(r)'
  <2>1. ASSUME pc[r] \in {"answered", "storing"}, Trusted(verdict[r]) PROVE Answer(r)'
    <3>1. /\ query[r] \in Queries /\ verdict[r] \in BOOLEAN
          /\ since[r] \in Nat /\ since[r] <= clock
      BY <2>1 DEF Waiting, Answer, TypeOK
    <3>2. PICK q \in Queries, b \in BOOLEAN, t \in Int :
            /\ q = query[r] /\ b = verdict[r]
            /\ t = IF pc[r] = "answered" THEN since[r] ELSE since[r] - Delay
      BY <3>1
    <3>3. Input(q) \in Inputs /\ t <= clock /\ DecidedSince(Input(q), b, t)
      BY <2>1, <3>1, <3>2, KeysAreQueries DEF Answer, TypeOK
    <3>4. DecidedSince(Input(q), b, t)'
      BY <3>2, <3>3, DecisionStays
    <3>5. UNCHANGED <<pc, query, since, verdict>>
      BY DEF PolicyChanges
    <3> QED BY <3>1, <3>2, <3>4, <3>5 DEF Answer
  <2>2. CASE ~(pc[r] \in {"answered", "storing"} /\ Trusted(verdict[r]))
    BY <2>2 DEF Answer, PolicyChanges
  <2> QED BY <2>1, <2>2
<1>2. EntryInv'
  <2>1. ASSUME NEW k \in DOMAIN cache, Trusted(cache[k].allowed)
        PROVE  DecidedSince(Input(k), cache[k].allowed, cache[k].expires - Ttl - Delay)'
    <3>1. /\ k \in Queries /\ cache[k] \in Entries /\ cache[k].expires <= clock + Ttl
          /\ clock \in Nat
      BY KeysAreQueries DEF TypeOK
    <3>2. PICK q \in Queries, b \in BOOLEAN, t \in Int :
            q = k /\ b = cache[k].allowed /\ t = cache[k].expires - Ttl - Delay
      BY <3>1 DEF Entries
    <3>3. Input(q) \in Inputs /\ t <= clock /\ DecidedSince(Input(q), b, t)
      BY <2>1, <3>1, <3>2, KeysAreQueries DEF EntryInv, Entries
    <3>4. DecidedSince(Input(q), b, t)'
      BY <3>2, <3>3, DecisionStays
    <3>5. cache' = cache
      BY DEF PolicyChanges
    <3> QED BY <3>2, <3>4, <3>5
  <2> QED BY <2>1 DEF EntryInv, PolicyChanges
<1> QED BY <1>1, <1>2

LEMMA ChecksStep ==
    ASSUME Inductive, [Next]_vars, NEW s \in Checks
    PROVE  Waiting(s)' /\ Looking(s)' /\ Answer(s)'
<1> USE BoundAssumption DEF Inductive
<1>1. /\ clock \in Nat /\ now[s] \in Nat /\ since[s] \in Nat /\ Delay \in Nat
      /\ now[s] <= clock /\ since[s] <= clock
  BY DEF TypeOK
<1>2. ASSUME NEW r \in Checks, r # s, Step(r) PROVE Waiting(s)' /\ Looking(s)' /\ Answer(s)'
  <2>1. /\ pc'[s] = pc[s] /\ query'[s] = query[s] /\ now'[s] = now[s]
        /\ since'[s] = since[s] /\ verdict'[s] = verdict[s]
        /\ UNCHANGED <<clock, policy, flipped>>
    BY <1>2 DEF TypeOK, Step, Starts, Hits, Misses, FindsExpired, RemovesExpired, Evaluates,
             Answered, Unavailable, Aborted, Stores, Waits, Returns
  <2> QED BY <2>1 DEF Waiting, Looking, Answer, DecidedSince
<1>3. ASSUME Step(s) PROVE Waiting(s)' /\ Looking(s)' /\ Answer(s)'
  <2>1. CASE Starts(s)
    BY <1>1, <2>1 DEF Starts, Waits, TypeOK, Waiting, Looking, Answer
  <2>2. CASE Hits(s) \/ Unavailable(s) \/ Aborted(s) \/ Stores(s)
    BY <2>2 DEF Hits, Unavailable, Aborted, Stores, Returns, TypeOK, Waiting, Looking, Answer
  <2>3. CASE Misses(s) \/ FindsExpired(s) \/ RemovesExpired(s)
    BY <1>1, <2>3 DEF Misses, FindsExpired, RemovesExpired, Waits, TypeOK, Waiting, Looking, Answer
  <2>4. CASE Evaluates(s)
    <3>1. PICK allowed \in BOOLEAN :
            /\ allowed = (Input(query[s]) \in policy) \/ (Garbage /\ ~allowed)
            /\ verdict' = [verdict EXCEPT ![s] = allowed]
      BY <2>4 DEF Evaluates
    <3>2. Trusted(allowed) => (Input(query[s]) \in policy) = allowed
      BY <3>1 DEF Trusted
    <3> QED
      BY <2>4, <3>1, <3>2
      DEF Evaluates, TypeOK, Waiting, Looking, Answer, DecidedSince, Trusted
  <2>5. CASE Answered(s)
    <3>1. pc[s] = "answered" /\ pc' = [pc EXCEPT ![s] = "storing"] /\ clock <= since[s] + Delay
      BY <2>5 DEF Answered, Waits, Waiting
    <3>2. now'[s] = clock /\ since'[s] = clock
      BY <2>5 DEF Answered, Waits, TypeOK
    <3>3. Trusted(verdict[s]) => DecidedSince(Input(query[s]), verdict[s], clock - Delay)
      <4>1. flipped \in [Inputs -> Int] /\ Input(query[s]) \in Inputs
        BY <3>1, KeysAreQueries DEF TypeOK, Waiting
      <4> QED BY <1>1, <3>1, <4>1 DEF Answer, DecidedSince
    <3> QED
      BY <1>1, <2>5, <3>1, <3>2, <3>3
      DEF Answered, TypeOK, Waiting, Looking, Answer, DecidedSince
  <2> QED BY <1>3, <2>1, <2>2, <2>3, <2>4, <2>5 DEF Step
<1>4. ASSUME NEW i \in Inputs, PolicyChanges(i) PROVE Waiting(s)' /\ Looking(s)' /\ Answer(s)'
  BY <1>4, PolicyKeeps DEF PolicyChanges, Waiting, Looking
<1>5. CASE Tick
  BY <1>1, <1>5 DEF Tick, Waiting, Looking, Answer, DecidedSince
<1>6. CASE UNCHANGED vars
  BY <1>6 DEF vars, Waiting, Looking, Answer, DecidedSince
<1> QED BY <1>2, <1>3, <1>4, <1>5, <1>6 DEF Next

LEMMA EntriesStep ==
    ASSUME Inductive, [Next]_vars
    PROVE  EntryInv'
<1> USE BoundAssumption DEF Inductive
<1>1. ASSUME NEW r \in Checks, RemovesExpired(r) PROVE EntryInv'
  BY <1>1 DEF RemovesExpired, Restrict, EntryInv, DecidedSince
<1>2. ASSUME NEW r \in Checks, Stores(r) PROVE EntryInv'
  <2>1. query[r] \in Queries /\ verdict[r] \in BOOLEAN /\ now[r] = since[r] /\ pc[r] = "storing"
    BY <1>2 DEF Stores, Waiting, Looking, Answer
  <2>2. now[r] \in Int
    BY DEF TypeOK
  <2>3. PICK kept \in Kept(Stored(r), now[r]) : cache' = Restrict(Stored(r), kept)
    BY <1>2 DEF Stores
  <2>4. kept \subseteq DOMAIN Stored(r)
    BY <2>3 DEF Kept
  <2>5. ASSUME NEW k \in DOMAIN Stored(r), Trusted(Stored(r)[k].allowed)
        PROVE  DecidedSince(Input(k), Stored(r)[k].allowed, Stored(r)[k].expires - Ttl - Delay)
    <3>1. CASE k = query[r]
      <4> DEFINE entry == [allowed |-> verdict[r], expires |-> now[r] + Ttl]
      <4>0. Stored(r)[k] = entry
        BY <2>1, <3>1, StoredEntries
      <4>1. Stored(r)[k].allowed = verdict[r] /\ Stored(r)[k].expires = now[r] + Ttl
        BY <4>0
      <4>2. Stored(r)[k].expires - Ttl - Delay = since[r] - Delay
        BY <2>1, <2>2, <4>1
      <4>3. DecidedSince(Input(query[r]), verdict[r], since[r] - Delay)
        BY <2>1, <2>5, <4>1 DEF Answer
      <4> QED BY <3>1, <4>1, <4>2, <4>3
    <3>2. CASE k # query[r]
      BY <2>1, <2>5, <3>2, StoredEntries DEF EntryInv
    <3> QED BY <3>1, <3>2
  <2>6. UNCHANGED <<policy, flipped>>
    BY <1>2 DEF Stores
  <2> QED BY <2>3, <2>4, <2>5, <2>6 DEF Restrict, EntryInv, DecidedSince
<1>3. ASSUME NEW i \in Inputs, PolicyChanges(i) PROVE EntryInv'
  BY <1>3, PolicyKeeps
<1>4. CASE UNCHANGED <<cache, policy, flipped>>
  BY <1>4 DEF EntryInv, DecidedSince
<1> QED
  BY <1>1, <1>2, <1>3, <1>4
  DEF Next, Step, Starts, Hits, Misses, FindsExpired, Evaluates, Answered, Unavailable, Aborted, Tick, vars

\* The invariant that bounds the cache and the age of every decision
\* (http.rs:157-244).
THEOREM InductiveHolds == Spec => []Inductive
<1>1. Inductive /\ [Next]_vars => Inductive'
  BY TypeStep, SizeStep, ChecksStep, EntriesStep DEF Inductive
<1> QED BY <1>1, InitInductive, PTL DEF Spec

\* The types of the cache and of its checks.
THEOREM TypeCorrect == Spec => []TypeOK
BY InductiveHolds, PTL DEF Inductive

\* prune_discovery_authz_cache keeps the cache within its limit.
THEOREM CacheIsBounded == Spec => []Bounded
BY InductiveHolds, PTL DEF Inductive

LEMMA InductiveIsRecent == Inductive => DecisionsRecent
<1> SUFFICES ASSUME Inductive, NEW r \in Checks,
                    pc[r] = "looking", Key(query[r]) \in DOMAIN cache,
                    Live(cache[Key(query[r])], now[r]), Trusted(cache[Key(query[r])].allowed)
             PROVE  DecidedSince(Input(query[r]), cache[Key(query[r])].allowed, clock - Staleness)
  BY DEF DecisionsRecent
<1> DEFINE k == query[r]
<1>1. k \in Queries /\ Key(query[r]) = k /\ Input(k) \in Inputs
  BY KeysAreQueries DEF Inductive, Waiting
<1>2. /\ now[r] = since[r] /\ clock <= since[r] + Delay
      /\ clock \in Nat /\ now[r] \in Nat /\ Delay \in Nat /\ Ttl \in Nat
  BY BoundAssumption DEF Inductive, TypeOK, Waiting, Looking
<1>3. cache[k].expires \in Nat /\ cache[k].expires > now[r] /\ flipped[Input(k)] \in Int
  BY <1>1 DEF Inductive, TypeOK, Entries, Live
<1>4. DecidedSince(Input(k), cache[k].allowed, cache[k].expires - Ttl - Delay)
  BY <1>1 DEF Inductive, EntryInv
<1> QED BY <1>1, <1>2, <1>3, <1>4 DEF DecidedSince, Staleness

\* No lookup answers with a decision older than the ttl and the two waits, and
\* none with a decision about another user, role, channel or tool.
THEOREM DecisionsAreRecent == Spec => []DecisionsRecent
BY InductiveHolds, InductiveIsRecent, PTL

\* What LiveStay says of one step.
LiveStays ==
    \A k \in DOMAIN cache \ DOMAIN cache' : cache[k].expires > clock =>
        /\ Cardinality(DOMAIN cache') = MaxEntries
        /\ \A j \in DOMAIN cache' : cache'[j].expires >= cache[k].expires

LEMMA LiveStaysStep == Inductive /\ [Next]_vars => LiveStays
<1> SUFFICES ASSUME Inductive, [Next]_vars PROVE LiveStays
  OBVIOUS
<1> USE BoundAssumption DEF Inductive
<1>1. ASSUME NEW r \in Checks, RemovesExpired(r) PROVE LiveStays
  <2>1. \A k \in DOMAIN cache \ DOMAIN cache' : cache[k].expires <= now[r] /\ cache[k].expires \in Nat
    BY <1>1 DEF RemovesExpired, Restrict, Expired, TypeOK, Entries
  <2>2. now[r] <= clock /\ now[r] \in Nat /\ clock \in Nat
    BY DEF TypeOK
  <2> QED BY <2>1, <2>2 DEF LiveStays
<1>2. ASSUME NEW r \in Checks, Stores(r),
             NEW k \in DOMAIN cache \ DOMAIN cache', cache[k].expires > clock
      PROVE  /\ Cardinality(DOMAIN cache') = MaxEntries
             /\ \A j \in DOMAIN cache' : cache'[j].expires >= cache[k].expires
  <2> DEFINE live == {j \in DOMAIN Stored(r) : Live(Stored(r)[j], now[r])}
  <2>1. query[r] \in Queries /\ verdict[r] \in BOOLEAN
    BY <1>2 DEF Stores, Waiting, Answer
  <2>2. /\ now[r] <= clock /\ now[r] \in Nat /\ clock \in Nat
        /\ cache[k].expires \in Nat /\ cache[k].expires <= clock + Ttl
    BY DEF TypeOK, Entries
  <2>3. PICK kept \in Kept(Stored(r), now[r]) : cache' = Restrict(Stored(r), kept)
    BY <1>2 DEF Stores
  <2>4. /\ kept \subseteq live /\ DOMAIN cache' = kept
        /\ \A j \in kept : cache'[j] = Stored(r)[j]
        /\ kept # live =>
            /\ Cardinality(kept) = MaxEntries
            /\ \A j \in kept, gone \in live \ kept :
                 Stored(r)[gone].expires <= Stored(r)[j].expires
    BY <2>3 DEF Kept, Restrict, Capacity, Before
  <2>5. k \in live
    <3>1. CASE k = query[r]
      <4>1. Stored(r)[k] = [allowed |-> verdict[r], expires |-> now[r] + Ttl]
        BY <2>1, <3>1, StoredEntries
      <4>2. Stored(r)[k].expires = now[r] + Ttl
        BY <4>1
      <4>3. Stored(r)[k].expires > now[r]
        BY <1>2, <2>2, <4>2
      <4>4. k \in DOMAIN Stored(r)
        BY <2>1, <3>1, StoredEntries
      <4> QED BY <4>3, <4>4 DEF Live
    <3>2. CASE k # query[r]
      <4>1. k \in DOMAIN Stored(r) /\ Stored(r)[k] = cache[k]
        BY <2>1, <3>2, StoredEntries
      <4> QED BY <1>2, <2>2, <4>1 DEF Live
    <3> QED BY <3>1, <3>2
  <2>6. k # query[r]
    <3> SUFFICES ASSUME k = query[r] PROVE FALSE
      OBVIOUS
    <3>1. live \subseteq DOMAIN cache
      BY <2>1, StoredEntries
    <3>2. IsFiniteSet(live) /\ Cardinality(live) <= MaxEntries
      BY <3>1, FS_Subset, FS_CardinalityType DEF Bounded
    <3>3. kept # live /\ kept \subseteq live
      BY <2>4, <2>5
    <3> QED BY <2>4, <3>2, <3>3, FS_Subset, FS_CardinalityType
  <2>7. Stored(r)[k] = cache[k]
    BY <2>1, <2>6, StoredEntries
  <2>8. k \in live \ kept
    BY <2>4, <2>5
  <2>9. \A j \in kept : cache'[j].expires \in Nat
    <3>1. kept \subseteq DOMAIN Stored(r)
      BY <2>4
    <3> QED BY <2>1, <2>4, <3>1, StoredEntries DEF Entries
  <2> QED BY <2>2, <2>4, <2>7, <2>8, <2>9
<1>3. CASE UNCHANGED cache
  BY <1>3 DEF LiveStays
<1> QED
  BY <1>1, <1>2, <1>3
  DEF Next, Step, Starts, Hits, Misses, FindsExpired, Evaluates, Answered, Unavailable, Aborted,
      PolicyChanges, Tick, vars, LiveStays

\* A lookup drops no entry that was renewed meanwhile, and a full cache evicts
\* what expires first (http.rs:188-211).
THEOREM LiveEntriesStay == Spec => LiveStay
<1>1. Inductive /\ [Next]_vars => [LiveStays]_vars
  BY LiveStaysStep
<1> QED BY <1>1, InductiveHolds, PTL DEF Spec, LiveStay, LiveStays
=============================================================================

-------------------------- MODULE TenantPoolProofs --------------------------
(***************************************************************************)
(* TenantPool, for any set of requests and identities, any limit, any      *)
(* eviction time and any mix of faults: its types, and the safety          *)
(* properties, from the invariant Inductive; and that it implements        *)
(* PoolContract.                                                           *)
(***************************************************************************)
EXTENDS TenantPool, TLAPS, FiniteSetTheorems

USE DEF Instances

LEMMA TenantsHaveKeys == \A m \in Modes : \A i \in Tenants(m) : TenantKey(m, i) \in Keys
BY DEF Keys

\* The key of a call on its way to an instance is the key of a tenant.
LEMMA KeyOfCall ==
    ASSUME TypeOK, PhaseInv, NEW r \in Requests, op[r] = "call", pc[r] \notin {"using", "done"}
    PROVE  Key(r) \in Keys
BY TenantsHaveKeys DEF TypeOK, PhaseInv, Key

LEMMA LimitIsPositive == Limit \in Nat /\ Limit > 0
BY NumbersAssumption DEF Limit

LEMMA InitType == Init => TypeOK
BY NumbersAssumption, NamesAssumption DEF Init, TypeOK

LEMMA TypeStep == TypeOK /\ PhaseInv /\ [Next]_vars => TypeOK'
<1> SUFFICES ASSUME TypeOK, PhaseInv, [Next]_vars PROVE TypeOK'
  OBVIOUS
<1>1. ASSUME NEW r \in Requests, Arrives(r) PROVE TypeOK'
  <2>1. CASE CallShared(r)
    BY <2>1 DEF CallShared, TypeOK
  <2>2. ASSUME NEW i \in Identities, CallRefused(r, i) PROVE TypeOK'
    BY <2>2 DEF CallRefused, TypeOK
  <2>3. ASSUME NEW i \in Identities, CallArrives(r, i) PROVE TypeOK'
    BY <2>3 DEF CallArrives, TypeOK
  <2>4. CASE HealthArrives(r)
    BY <2>4 DEF HealthArrives, TypeOK
  <2>5. CASE ReloadArrives(r)
    BY <2>5 DEF ReloadArrives, TypeOK
  <2> QED BY <1>1, <2>1, <2>2, <2>3, <2>4, <2>5 DEF Arrives
<1>2. ASSUME NEW r \in Requests, TakesLock(r) PROVE TypeOK'
  <2>1. CASE LockHit(r)
    BY <2>1, KeyOfCall DEF LockHit, CallAtLock, TypeOK, Pruned, Expired, Idle, Entry
  <2>2. CASE LockFull(r)
    BY <2>2 DEF LockFull, HasRoom, CallAtLock, TypeOK, Pruned, Expired, Idle, Entry
  <2>3. CASE LockSpawn(r)
    BY <2>3 DEF LockSpawn, HasRoom, CallAtLock, TypeOK, Pruned, Expired, Idle, Entry
  <2>4. CASE ReloadDrains(r)
    BY <2>4 DEF ReloadDrains, Drained, TypeOK, Pooled, Active, Entry
  <2>5. CASE HealthPrunes(r)
    BY <2>5 DEF HealthPrunes, TypeOK, Pruned, Expired, Idle, Entry
  <2>6. CASE HealthCounts(r)
    BY <2>6 DEF HealthCounts, TypeOK
  <2> QED BY <1>2, <2>1, <2>2, <2>3, <2>4, <2>5, <2>6 DEF TakesLock
<1>3. ASSUME NEW r \in Requests, Runs(r) PROVE TypeOK'
  <2>1. CASE SpawnInitialized(r)
    BY <2>1 DEF SpawnInitialized, TypeOK
  <2>2. CASE SpawnFails(r)
    BY <2>2 DEF SpawnFails, TypeOK, Released
  <2>3. ASSUME NEW c \in Instances, Shuts(r, c) PROVE TypeOK'
    BY <2>3 DEF Shuts, TypeOK
  <2>4. CASE Closed(r)
    BY <2>4 DEF Closed, AllShut, AfterClosing, TypeOK
  <2>5. CASE CallEnds(r)
    BY <2>5 DEF CallEnds, TypeOK
  <2> QED BY <1>3, <2>1, <2>2, <2>3, <2>4, <2>5 DEF Runs
<1>4. ASSUME NEW r \in Requests, ToolsListed(r) PROVE TypeOK'
  <2>1. CASE CallSpawned(r)
    BY <2>1, KeyOfCall DEF CallSpawned, TypeOK, Entry, Released
  <2>2. CASE ReloadSpawned(r)
    BY <2>2 DEF ReloadSpawned, Replaced, TypeOK
  <2> QED BY <1>4, <2>1, <2>2 DEF ToolsListed
<1>5. ASSUME NEW r \in Requests, Disconnects(r) PROVE TypeOK'
  BY <1>5 DEF Disconnects, TypeOK, Released
<1>6. ASSUME NEW c \in Instances, Exits(c) PROVE TypeOK'
  BY <1>6 DEF Exits, TypeOK
<1>7. CASE Tick
  BY <1>7, NumbersAssumption DEF Tick, TypeOK
<1>8. CASE UNCHANGED vars
  BY <1>8 DEF vars, TypeOK
<1> QED BY <1>1, <1>2, <1>3, <1>4, <1>5, <1>6, <1>7, <1>8 DEF Next, Finished

\* Fewer slots filled are no more instances than there were.
LEMMA SubPool ==
    ASSUME RoomInv, NEW S, S \subseteq Active(tenants)
    PROVE  /\ IsFiniteSet(S)
           /\ Cardinality(S) \in Nat
           /\ Cardinality(Active(tenants)) \in Nat
           /\ Cardinality(S) <= Cardinality(Active(tenants))
BY FS_Subset, FS_CardinalityType DEF RoomInv

LEMMA InductiveStep == Inductive /\ [Next]_vars => Inductive'
<1> SUFFICES ASSUME Inductive, [Next]_vars PROVE Inductive'
  OBVIOUS
<1> USE DEF Inductive
<1>1. ASSUME NEW r \in Requests, CallShared(r) PROVE Inductive'
  <2>1. TypeOK'
    BY TypeStep
  <2>2. LockInv'
    BY <1>1, NamesAssumption
      DEF CallShared, TypeOK, LockInv, PhaseInv, Spawning
  <2>3. PhaseInv'
    BY <1>1 DEF CallShared, TypeOK, PhaseInv, FreshInv, Spawning
  <2>4. FreshInv'
    BY <1>1, NamesAssumption
      DEF CallShared, TypeOK, Entry, FreshInv, PhaseInv, Spawning, Offered,
         Pooled, Active
  <2>5. SlotInv'
    BY <1>1, NamesAssumption
      DEF CallShared, TypeOK, Entry, SlotInv, PhaseInv, Spawning, Key
  <2>6. DiscoveryInv'
    BY <1>1, NamesAssumption DEF CallShared, TypeOK, DiscoveryInv, PhaseInv
  <2>7. HoldInv'
    BY <1>1, NamesAssumption
      DEF CallShared, TypeOK, HoldInv, SlotInv, PhaseInv, Key
  <2>8. (RoomInv /\ PooledNotShut /\ SoleDisposer /\ PoolBounded /\
         ReloadLeavesNothingOld)'
    BY <1>1 DEF CallShared, RoomInv, Active, Key, PooledNotShut, Pooled,
       SoleDisposer, PoolBounded, ReloadLeavesNothingOld
  <2> QED BY <2>1, <2>2, <2>3, <2>4, <2>5, <2>6, <2>7, <2>8 DEF Inductive
<1>2. ASSUME NEW r \in Requests, NEW i \in Identities, CallRefused(r, i) PROVE Inductive'
  <2>1. TypeOK'
    BY TypeStep
  <2>2. LockInv'
    BY <1>2, NamesAssumption
      DEF CallRefused, TypeOK, LockInv, PhaseInv, Spawning
  <2>3. PhaseInv'
    BY <1>2 DEF CallRefused, TypeOK, PhaseInv, FreshInv, Spawning
  <2>4. FreshInv'
    BY <1>2, NamesAssumption
      DEF CallRefused, TypeOK, Entry, FreshInv, PhaseInv, Spawning, Offered,
         Pooled, Active
  <2>5. SlotInv'
    BY <1>2, NamesAssumption
      DEF CallRefused, TypeOK, Entry, SlotInv, PhaseInv, Spawning, Key
  <2>6. DiscoveryInv'
    BY <1>2, NamesAssumption DEF CallRefused, TypeOK, DiscoveryInv, PhaseInv
  <2>7. HoldInv'
    BY <1>2, NamesAssumption
      DEF CallRefused, TypeOK, HoldInv, SlotInv, PhaseInv, Key
  <2>8. RoomInv'
    BY <1>2
      DEF CallRefused, TypeOK, Entry, RoomInv, PhaseInv, FreshInv, LockInv,
         Spawning, Key, Active
  <2>9. (PooledNotShut /\ SoleDisposer /\ PoolBounded /\ ReloadLeavesNothingOld)'
    BY <1>2 DEF CallRefused, PooledNotShut, Pooled, Active, SoleDisposer,
       PoolBounded, ReloadLeavesNothingOld
  <2> QED BY <2>1, <2>2, <2>3, <2>4, <2>5, <2>6, <2>7, <2>8, <2>9 DEF Inductive
<1>3. ASSUME NEW r \in Requests, NEW i \in Identities, CallArrives(r, i) PROVE Inductive'
  <2>1. TypeOK'
    BY TypeStep
  <2>2. LockInv'
    BY <1>3, NamesAssumption
      DEF CallArrives, TypeOK, LockInv, PhaseInv, Spawning
  <2>3. PhaseInv'
    BY <1>3 DEF CallArrives, TypeOK, PhaseInv, FreshInv, Spawning, Tenants
  <2>4. FreshInv'
    BY <1>3, NamesAssumption
      DEF CallArrives, TypeOK, Entry, FreshInv, PhaseInv, Spawning, Offered,
         Pooled, Active
  <2>5. SlotInv'
    BY <1>3, NamesAssumption
      DEF CallArrives, TypeOK, Entry, SlotInv, PhaseInv, Spawning, Key
  <2>6. DiscoveryInv'
    BY <1>3, NamesAssumption DEF CallArrives, TypeOK, DiscoveryInv, PhaseInv
  <2>7. HoldInv'
    BY <1>3, NamesAssumption
      DEF CallArrives, TypeOK, HoldInv, SlotInv, PhaseInv, Key
  <2>8. RoomInv'
    BY <1>3
      DEF CallArrives, TypeOK, Entry, RoomInv, PhaseInv, FreshInv, LockInv,
         Spawning, Key, Active
  <2>9. (PooledNotShut /\ SoleDisposer /\ PoolBounded /\ ReloadLeavesNothingOld)'
    BY <1>3 DEF CallArrives, PooledNotShut, Pooled, Active, SoleDisposer,
       PoolBounded, ReloadLeavesNothingOld
  <2> QED BY <2>1, <2>2, <2>3, <2>4, <2>5, <2>6, <2>7, <2>8, <2>9 DEF Inductive
<1>4. ASSUME NEW r \in Requests, HealthArrives(r) PROVE Inductive'
  <2>1. TypeOK'
    BY TypeStep
  <2>2. LockInv'
    BY <1>4, NamesAssumption
      DEF HealthArrives, TypeOK, LockInv, PhaseInv, Spawning
  <2>3. PhaseInv'
    BY <1>4 DEF HealthArrives, TypeOK, PhaseInv, FreshInv, Spawning
  <2>4. FreshInv'
    BY <1>4, NamesAssumption
      DEF HealthArrives, TypeOK, Entry, FreshInv, PhaseInv, Spawning, Offered,
         Pooled, Active
  <2>5. SlotInv'
    BY <1>4, NamesAssumption
      DEF HealthArrives, TypeOK, Entry, SlotInv, PhaseInv, Spawning, Key
  <2>6. DiscoveryInv'
    BY <1>4, NamesAssumption DEF HealthArrives, TypeOK, DiscoveryInv, PhaseInv
  <2>7. HoldInv'
    BY <1>4, NamesAssumption
      DEF HealthArrives, TypeOK, HoldInv, SlotInv, PhaseInv, Key
  <2>8. (RoomInv /\ PooledNotShut /\ SoleDisposer /\ PoolBounded /\
         ReloadLeavesNothingOld)'
    BY <1>4 DEF HealthArrives, RoomInv, Active, Key, PooledNotShut, Pooled,
       SoleDisposer, PoolBounded, ReloadLeavesNothingOld
  <2> QED BY <2>1, <2>2, <2>3, <2>4, <2>5, <2>6, <2>7, <2>8 DEF Inductive
<1>5. ASSUME NEW r \in Requests, ReloadArrives(r) PROVE Inductive'
  <2>1. TypeOK'
    BY TypeStep
  <2>2. LockInv'
    BY <1>5, NamesAssumption
      DEF ReloadArrives, TypeOK, LockInv, PhaseInv, Spawning
  <2>3. PhaseInv'
    BY <1>5 DEF ReloadArrives, TypeOK, PhaseInv, FreshInv, Spawning
  <2>4. FreshInv'
    BY <1>5, NamesAssumption
      DEF ReloadArrives, TypeOK, Entry, FreshInv, PhaseInv, Spawning, Offered,
         Pooled, Active
  <2>5. SlotInv'
    BY <1>5, NamesAssumption
      DEF ReloadArrives, TypeOK, Entry, SlotInv, PhaseInv, Spawning, Key
  <2>6. DiscoveryInv'
    BY <1>5, NamesAssumption DEF ReloadArrives, TypeOK, DiscoveryInv, PhaseInv
  <2>7. HoldInv'
    BY <1>5, NamesAssumption
      DEF ReloadArrives, TypeOK, HoldInv, SlotInv, PhaseInv, Key
  <2>8. PooledNotShut'
    BY <1>5
      DEF ReloadArrives, TypeOK, Entry, PooledNotShut, SoleDisposer, PhaseInv,
         Spawning, Pooled, Active
  <2>9. (RoomInv /\ SoleDisposer /\ PoolBounded /\ ReloadLeavesNothingOld)'
    BY <1>5 DEF ReloadArrives, RoomInv, Active, Key, SoleDisposer, Pooled,
       PoolBounded, ReloadLeavesNothingOld
  <2> QED BY <2>1, <2>2, <2>3, <2>4, <2>5, <2>6, <2>7, <2>8, <2>9 DEF Inductive
<1>6. ASSUME NEW r \in Requests, LockHit(r) PROVE Inductive'
  <2>1. TypeOK'
    BY TypeStep
  <2>2. LockInv'
    BY <1>6, NamesAssumption
      DEF LockHit, CallAtLock, Pruned, Expired, Idle, TypeOK, LockInv, PhaseInv,
         Spawning
  <2>3. PhaseInv'
    BY <1>6
      DEF LockHit, CallAtLock, Pruned, Expired, Idle, TypeOK, PhaseInv,
         FreshInv, Spawning
  <2>4. FreshInv'
    BY <1>6, NamesAssumption, KeyOfCall
      DEF LockHit, CallAtLock, Pruned, Expired, Idle, TypeOK, Entry, FreshInv,
         PhaseInv, Spawning, Offered, Pooled, Active
  <2>5. SlotInv'
    BY <1>6, NamesAssumption, KeyOfCall
      DEF LockHit, CallAtLock, Pruned, Expired, Idle, TypeOK, Entry, SlotInv,
         PhaseInv, Spawning, Key
  <2>6. HoldInv'
    BY <1>6, NamesAssumption, KeyOfCall
      DEF LockHit, CallAtLock, Pruned, Expired, Idle, TypeOK, HoldInv, SlotInv,
         PhaseInv, Key
  <2>7. PooledNotShut'
    BY <1>6, KeyOfCall
      DEF LockHit, CallAtLock, Pruned, Expired, Idle, TypeOK, Entry,
         PooledNotShut, SoleDisposer, PhaseInv, Spawning, Pooled, Active
  <2>8. SoleDisposer'
    BY <1>6, NamesAssumption, KeyOfCall
      DEF LockHit, CallAtLock, Pruned, Expired, Idle, TypeOK, Entry,
         SoleDisposer, FreshInv, SlotInv, DiscoveryInv, Spawning, Offered,
         Pooled, Active
  <2>9. ReloadLeavesNothingOld'
    BY <1>6, NamesAssumption, KeyOfCall
      DEF LockHit, CallAtLock, Pruned, Expired, Idle, TypeOK, Entry,
         ReloadLeavesNothingOld, RoomInv, LockInv, Spawning, Pooled, Active
  <2>10. (RoomInv /\ PoolBounded)'
    <3>1. Active(tenants') \subseteq Active(tenants)
      BY <1>6, KeyOfCall DEF LockHit, CallAtLock, Pruned, Expired, Idle,
         Active, TypeOK
    <3> QED BY <1>6, <3>1, SubPool, LimitIsPositive
      DEF LockHit, CallAtLock, Pruned, Expired, Idle, RoomInv, PoolBounded, Key, TypeOK
  <2>11. DiscoveryInv'
    BY <1>6 DEF LockHit, DiscoveryInv
  <2> QED BY <2>1, <2>2, <2>3, <2>4, <2>5, <2>6, <2>7, <2>8, <2>9, <2>10,
     <2>11 DEF Inductive
<1>7. ASSUME NEW r \in Requests, LockFull(r) PROVE Inductive'
  <2>1. TypeOK'
    BY TypeStep
  <2>2. LockInv'
    BY <1>7, NamesAssumption
      DEF LockFull, HasRoom, CallAtLock, Pruned, Expired, Idle, TypeOK, LockInv,
         PhaseInv, Spawning
  <2>3. PhaseInv'
    BY <1>7
      DEF LockFull, HasRoom, CallAtLock, Pruned, Expired, Idle, TypeOK, PhaseInv,
         FreshInv, Spawning
  <2>4. FreshInv'
    BY <1>7, NamesAssumption
      DEF LockFull, HasRoom, CallAtLock, Pruned, Expired, Idle, TypeOK, Entry, FreshInv,
         PhaseInv, Spawning, Offered, Pooled, Active
  <2>5. SlotInv'
    BY <1>7, NamesAssumption
      DEF LockFull, HasRoom, CallAtLock, Pruned, Expired, Idle, TypeOK, Entry, SlotInv,
         PhaseInv, Spawning, Key
  <2>6. PooledNotShut'
    BY <1>7
      DEF LockFull, HasRoom, CallAtLock, Pruned, Expired, Idle, TypeOK, Entry,
         PooledNotShut, SoleDisposer, PhaseInv, Spawning, Pooled, Active
  <2>7. SoleDisposer'
    BY <1>7, NamesAssumption
      DEF LockFull, HasRoom, CallAtLock, Pruned, Expired, Idle, TypeOK, Entry,
         SoleDisposer, FreshInv, SlotInv, DiscoveryInv, Spawning, Offered,
         Pooled, Active
  <2>8. ReloadLeavesNothingOld'
    BY <1>7, NamesAssumption
      DEF LockFull, HasRoom, CallAtLock, Pruned, Expired, Idle, TypeOK, Entry,
         ReloadLeavesNothingOld, RoomInv, LockInv, Spawning, Pooled, Active
  <2>9. (RoomInv /\ PoolBounded)'
    <3>1. Active(tenants') \subseteq Active(tenants)
      BY <1>7, KeyOfCall DEF LockFull, HasRoom, CallAtLock, Pruned, Expired, Idle,
         Active, TypeOK
    <3> QED BY <1>7, <3>1, SubPool, LimitIsPositive
      DEF LockFull, HasRoom, CallAtLock, Pruned, Expired, Idle, RoomInv, PoolBounded, Key, TypeOK
  <2>10. (DiscoveryInv /\ HoldInv)'
    BY <1>7 DEF LockFull, HasRoom, DiscoveryInv, HoldInv, Key
  <2> QED BY <2>1, <2>2, <2>3, <2>4, <2>5, <2>6, <2>7, <2>8, <2>9,
     <2>10 DEF Inductive
<1>8. ASSUME NEW r \in Requests, LockSpawn(r) PROVE Inductive'
  <2>1. TypeOK'
    BY TypeStep
  <2>2. LockInv'
    BY <1>8, NamesAssumption
      DEF LockSpawn, HasRoom, CallAtLock, Pruned, Expired, Idle, TypeOK, LockInv,
         PhaseInv, Spawning
  <2>3. PhaseInv'
    BY <1>8
      DEF LockSpawn, HasRoom, CallAtLock, Pruned, Expired, Idle, TypeOK, PhaseInv,
         FreshInv, Spawning
  <2>4. FreshInv'
    BY <1>8, NamesAssumption
      DEF LockSpawn, HasRoom, CallAtLock, Pruned, Expired, Idle, TypeOK, Entry, FreshInv,
         PhaseInv, Spawning, Offered, Pooled, Active
  <2>5. SlotInv'
    BY <1>8, NamesAssumption
      DEF LockSpawn, HasRoom, CallAtLock, Pruned, Expired, Idle, TypeOK, Entry, SlotInv,
         PhaseInv, Spawning, Key
  <2>6. PooledNotShut'
    BY <1>8
      DEF LockSpawn, HasRoom, CallAtLock, Pruned, Expired, Idle, TypeOK, Entry,
         PooledNotShut, SoleDisposer, PhaseInv, Spawning, Pooled, Active
  <2>7. SoleDisposer'
    BY <1>8, NamesAssumption
      DEF LockSpawn, HasRoom, CallAtLock, Pruned, Expired, Idle, TypeOK, Entry,
         SoleDisposer, FreshInv, SlotInv, DiscoveryInv, Spawning, Offered,
         Pooled, Active
  <2>8. ReloadLeavesNothingOld'
    BY <1>8, NamesAssumption
      DEF LockSpawn, HasRoom, CallAtLock, Pruned, Expired, Idle, TypeOK, Entry,
         ReloadLeavesNothingOld, RoomInv, LockInv, Spawning, Pooled, Active
  <2>9. (RoomInv /\ PoolBounded)'
    <3>1. Active(tenants') \subseteq Active(tenants)
      BY <1>8, KeyOfCall DEF LockSpawn, HasRoom, CallAtLock, Pruned, Expired, Idle,
         Active, TypeOK
    <3>2. tenants'[Key(r)] = None /\ Key(r)' = Key(r)
      BY <1>8, KeyOfCall DEF LockSpawn, HasRoom, CallAtLock, Key
    <3>3. Cardinality(Active(tenants')) < Limit
      BY <1>8 DEF LockSpawn, HasRoom
    <3>4. r \notin outdated
      BY <1>8 DEF LockSpawn, HasRoom, CallAtLock, PhaseInv, FreshInv
    <3> QED BY <1>8, <3>1, <3>2, <3>3, <3>4, SubPool, LimitIsPositive
            DEF LockSpawn, HasRoom, RoomInv, PoolBounded
  <2>10. (DiscoveryInv /\ HoldInv)'
    BY <1>8 DEF LockSpawn, HasRoom, CallAtLock, DiscoveryInv, HoldInv, Key, TypeOK
  <2> QED BY <2>1, <2>2, <2>3, <2>4, <2>5, <2>6, <2>7, <2>8, <2>9,
     <2>10 DEF Inductive
<1>9. ASSUME NEW r \in Requests, ReloadDrains(r) PROVE Inductive'
  <2>1. TypeOK'
    BY TypeStep
  <2>2. LockInv'
    BY <1>9, NamesAssumption
      DEF ReloadDrains, Drained, TypeOK, LockInv, PhaseInv, Spawning
  <2>3. PhaseInv'
    BY <1>9 DEF ReloadDrains, Drained, TypeOK, PhaseInv, FreshInv, Spawning
  <2>4. FreshInv'
    BY <1>9, NamesAssumption
      DEF ReloadDrains, Drained, TypeOK, Entry, FreshInv, PhaseInv, Spawning, Offered,
         Pooled, Active
  <2>5. SlotInv'
    BY <1>9, NamesAssumption
      DEF ReloadDrains, Drained, TypeOK, Entry, SlotInv, PhaseInv, Spawning, Key
  <2>6. PooledNotShut'
    BY <1>9
      DEF ReloadDrains, Drained, TypeOK, Entry, PooledNotShut, SoleDisposer, PhaseInv,
         Spawning, Pooled, Active
  <2>7. SoleDisposer'
    BY <1>9, NamesAssumption
      DEF ReloadDrains, Drained, TypeOK, Entry, SoleDisposer, FreshInv, SlotInv,
         DiscoveryInv, Spawning, Offered, Pooled, Active
  <2>8. ReloadLeavesNothingOld'
    BY <1>9, NamesAssumption
      DEF ReloadDrains, Drained, TypeOK, Entry, ReloadLeavesNothingOld, RoomInv, LockInv,
         Spawning, Pooled, Active
  <2>9. (RoomInv /\ PoolBounded)'
    <3>1. Active(tenants') = {}
      BY <1>9 DEF ReloadDrains, Drained, Active
    <3> QED BY <1>9, <3>1, FS_EmptySet, LimitIsPositive DEF ReloadDrains, Drained, RoomInv, PoolBounded
  <2>10. (DiscoveryInv /\ HoldInv)'
    BY <1>9 DEF ReloadDrains, Drained, DiscoveryInv, HoldInv, Key
  <2> QED BY <2>1, <2>2, <2>3, <2>4, <2>5, <2>6, <2>7, <2>8, <2>9,
     <2>10 DEF Inductive
<1>10. ASSUME NEW r \in Requests, HealthPrunes(r) PROVE Inductive'
  <2>1. TypeOK'
    BY TypeStep
  <2>2. LockInv'
    BY <1>10, NamesAssumption
      DEF HealthPrunes, Pruned, Expired, Idle, TypeOK, LockInv, PhaseInv,
         Spawning
  <2>3. PhaseInv'
    BY <1>10
      DEF HealthPrunes, Pruned, Expired, Idle, TypeOK, PhaseInv, FreshInv,
         Spawning
  <2>4. FreshInv'
    BY <1>10, NamesAssumption
      DEF HealthPrunes, Pruned, Expired, Idle, TypeOK, Entry, FreshInv,
         PhaseInv, Spawning, Offered, Pooled, Active
  <2>5. SlotInv'
    BY <1>10, NamesAssumption
      DEF HealthPrunes, Pruned, Expired, Idle, TypeOK, Entry, SlotInv, PhaseInv,
         Spawning, Key
  <2>6. PooledNotShut'
    BY <1>10
      DEF HealthPrunes, Pruned, Expired, Idle, TypeOK, Entry, PooledNotShut,
         SoleDisposer, PhaseInv, Spawning, Pooled, Active
  <2>7. SoleDisposer'
    BY <1>10, NamesAssumption
      DEF HealthPrunes, Pruned, Expired, Idle, TypeOK, Entry, SoleDisposer,
         FreshInv, SlotInv, DiscoveryInv, Spawning, Offered, Pooled, Active
  <2>8. ReloadLeavesNothingOld'
    BY <1>10, NamesAssumption
      DEF HealthPrunes, Pruned, Expired, Idle, TypeOK, Entry,
         ReloadLeavesNothingOld, RoomInv, LockInv, Spawning, Pooled, Active
  <2>9. (RoomInv /\ PoolBounded)'
    <3>1. Active(tenants') \subseteq Active(tenants)
      BY <1>10, KeyOfCall DEF HealthPrunes, Pruned, Expired, Idle, Active
    <3> QED BY <1>10, <3>1, SubPool, LimitIsPositive
      DEF HealthPrunes, Pruned, Expired, Idle, RoomInv, PoolBounded, Key, TypeOK
  <2>10. (DiscoveryInv /\ HoldInv)'
    BY <1>10 DEF HealthPrunes, DiscoveryInv, HoldInv, Key
  <2> QED BY <2>1, <2>2, <2>3, <2>4, <2>5, <2>6, <2>7, <2>8, <2>9,
     <2>10 DEF Inductive
<1>11. ASSUME NEW r \in Requests, HealthCounts(r) PROVE Inductive'
  <2>1. TypeOK'
    BY TypeStep
  <2>2. LockInv'
    BY <1>11, NamesAssumption
      DEF HealthCounts, TypeOK, LockInv, PhaseInv, Spawning
  <2>3. PhaseInv'
    BY <1>11 DEF HealthCounts, TypeOK, PhaseInv, FreshInv, Spawning
  <2>4. FreshInv'
    BY <1>11, NamesAssumption
      DEF HealthCounts, TypeOK, Entry, FreshInv, PhaseInv, Spawning, Offered,
         Pooled, Active
  <2>5. (SlotInv /\ DiscoveryInv /\ HoldInv /\ RoomInv /\
         PooledNotShut /\ SoleDisposer /\ PoolBounded /\ ReloadLeavesNothingOld)'
    BY <1>11 DEF HealthCounts, SlotInv, Spawning, Key, DiscoveryInv, HoldInv,
       RoomInv, Active, PooledNotShut, Pooled, SoleDisposer, PoolBounded,
       ReloadLeavesNothingOld
  <2> QED BY <2>1, <2>2, <2>3, <2>4, <2>5 DEF Inductive
<1>12. ASSUME NEW r \in Requests, SpawnInitialized(r) PROVE Inductive'
  <2>1. TypeOK'
    BY TypeStep
  <2>2. LockInv'
    BY <1>12, NamesAssumption
      DEF SpawnInitialized, TypeOK, LockInv, PhaseInv, Spawning
  <2>3. PhaseInv'
    BY <1>12 DEF SpawnInitialized, TypeOK, PhaseInv, FreshInv, Spawning
  <2>4. FreshInv'
    BY <1>12, NamesAssumption
      DEF SpawnInitialized, TypeOK, Entry, FreshInv, PhaseInv, Spawning,
         Offered, Pooled, Active
  <2>5. (SlotInv /\ DiscoveryInv /\ HoldInv /\ RoomInv /\
         PooledNotShut /\ SoleDisposer /\ PoolBounded /\ ReloadLeavesNothingOld)'
    BY <1>12 DEF SpawnInitialized, SlotInv, Spawning, Key, DiscoveryInv,
       HoldInv, RoomInv, Active, PooledNotShut, Pooled, SoleDisposer,
       PoolBounded, ReloadLeavesNothingOld
  <2> QED BY <2>1, <2>2, <2>3, <2>4, <2>5 DEF Inductive
<1>13. ASSUME NEW r \in Requests, SpawnFails(r) PROVE Inductive'
  <2>1. TypeOK'
    BY TypeStep
  <2>2. LockInv'
    BY <1>13, NamesAssumption
      DEF SpawnFails, Released, TypeOK, LockInv, PhaseInv, Spawning
  <2>3. PhaseInv'
    BY <1>13 DEF SpawnFails, Released, TypeOK, PhaseInv, FreshInv, Spawning
  <2>4. FreshInv'
    BY <1>13, NamesAssumption
      DEF SpawnFails, Released, TypeOK, Entry, FreshInv, PhaseInv, Spawning,
         Offered, Pooled, Active
  <2>5. RoomInv'
    BY <1>13
      DEF SpawnFails, Released, TypeOK, Entry, RoomInv, PhaseInv, FreshInv,
         LockInv, Spawning, Key, Active
  <2>6. PooledNotShut'
    BY <1>13
      DEF SpawnFails, Released, TypeOK, Entry, PooledNotShut, SoleDisposer,
         PhaseInv, Spawning, Pooled, Active
  <2>7. SoleDisposer'
    BY <1>13, NamesAssumption
      DEF SpawnFails, Released, TypeOK, Entry, SoleDisposer, FreshInv, SlotInv,
         DiscoveryInv, Spawning, Offered, Pooled, Active
  <2>8. (SlotInv /\ DiscoveryInv /\ HoldInv /\ PoolBounded /\
         ReloadLeavesNothingOld)'
    BY <1>13 DEF SpawnFails, SlotInv, Spawning, Key, DiscoveryInv, HoldInv,
       PoolBounded, Active, ReloadLeavesNothingOld, Pooled
  <2> QED BY <2>1, <2>2, <2>3, <2>4, <2>5, <2>6, <2>7, <2>8 DEF Inductive
<1>14. ASSUME NEW r \in Requests, NEW c \in Instances, Shuts(r, c) PROVE Inductive'
  <2>1. TypeOK'
    BY TypeStep
  <2>2. PhaseInv'
    BY <1>14 DEF Shuts, TypeOK, PhaseInv, FreshInv, Spawning
  <2>3. FreshInv'
    BY <1>14, NamesAssumption
      DEF Shuts, TypeOK, Entry, FreshInv, PhaseInv, Spawning, Offered, Pooled,
         Active
  <2>4. PooledNotShut'
    BY <1>14
      DEF Shuts, TypeOK, Entry, PooledNotShut, SoleDisposer, PhaseInv, Spawning,
         Pooled, Active
  <2>5. SoleDisposer'
    BY <1>14, NamesAssumption
      DEF Shuts, TypeOK, Entry, SoleDisposer, FreshInv, SlotInv, DiscoveryInv,
         Spawning, Offered, Pooled, Active
  <2>6. (LockInv /\ SlotInv /\ DiscoveryInv /\ HoldInv /\
         RoomInv /\ PoolBounded /\ ReloadLeavesNothingOld)'
    BY <1>14 DEF Shuts, LockInv, Spawning, SlotInv, Key, DiscoveryInv, HoldInv,
       RoomInv, Active, PoolBounded, ReloadLeavesNothingOld, Pooled
  <2> QED BY <2>1, <2>2, <2>3, <2>4, <2>5, <2>6 DEF Inductive
<1>15. ASSUME NEW r \in Requests, Closed(r) PROVE Inductive'
  <2>1. TypeOK'
    BY TypeStep
  <2>2. LockInv'
    BY <1>15, NamesAssumption
      DEF Closed, AllShut, AfterClosing, TypeOK, LockInv, PhaseInv, Spawning
  <2>3. PhaseInv'
    BY <1>15 DEF Closed, AllShut, AfterClosing, TypeOK, PhaseInv, FreshInv, Spawning
  <2>4. FreshInv'
    BY <1>15, NamesAssumption
      DEF Closed, AllShut, AfterClosing, TypeOK, Entry, FreshInv, PhaseInv, Spawning,
         Offered, Pooled, Active
  <2>5. HoldInv'
    BY <1>15 DEF Closed, AllShut, AfterClosing, TypeOK, HoldInv, Key
  <2>6. (SlotInv /\ DiscoveryInv /\ RoomInv /\
         PooledNotShut /\ SoleDisposer /\ PoolBounded /\ ReloadLeavesNothingOld)'
    BY <1>15 DEF Closed, AllShut, SlotInv, Spawning, Key, DiscoveryInv, RoomInv,
       Active, PooledNotShut, Pooled, SoleDisposer, PoolBounded,
       ReloadLeavesNothingOld
  <2> QED BY <2>1, <2>2, <2>3, <2>4, <2>5, <2>6 DEF Inductive
<1>16. ASSUME NEW r \in Requests, CallEnds(r) PROVE Inductive'
  <2>1. TypeOK'
    BY TypeStep
  <2>2. LockInv'
    BY <1>16, NamesAssumption
      DEF CallEnds, TypeOK, LockInv, PhaseInv, Spawning
  <2>3. PhaseInv'
    BY <1>16 DEF CallEnds, TypeOK, PhaseInv, FreshInv, Spawning
  <2>4. FreshInv'
    BY <1>16, NamesAssumption
      DEF CallEnds, TypeOK, Entry, FreshInv, PhaseInv, Spawning, Offered,
         Pooled, Active
  <2>5. HoldInv'
    BY <1>16, NamesAssumption
      DEF CallEnds, TypeOK, HoldInv, SlotInv, PhaseInv, Key
  <2>6. (SlotInv /\ DiscoveryInv /\ RoomInv /\ PooledNotShut /\
         SoleDisposer /\ PoolBounded /\ ReloadLeavesNothingOld)'
    BY <1>16 DEF CallEnds, SlotInv, Spawning, Key, DiscoveryInv, RoomInv,
       Active, PooledNotShut, Pooled, SoleDisposer, PoolBounded,
       ReloadLeavesNothingOld
  <2> QED BY <2>1, <2>2, <2>3, <2>4, <2>5, <2>6 DEF Inductive
<1>17. ASSUME NEW r \in Requests, CallSpawned(r) PROVE Inductive'
  <2>1. TypeOK'
    BY TypeStep
  <2>2. LockInv'
    BY <1>17, NamesAssumption
      DEF CallSpawned, Released, TypeOK, LockInv, PhaseInv, Spawning
  <2>3. PhaseInv'
    BY <1>17 DEF CallSpawned, Released, TypeOK, PhaseInv, FreshInv, Spawning
  <2>4. FreshInv'
    BY <1>17, NamesAssumption, KeyOfCall
      DEF CallSpawned, Released, TypeOK, Entry, FreshInv, PhaseInv, Spawning,
         Offered, Pooled, Active
  <2>5. SlotInv'
    BY <1>17, NamesAssumption, KeyOfCall
      DEF CallSpawned, Released, TypeOK, Entry, SlotInv, PhaseInv, Spawning, Key
  <2>6. HoldInv'
    BY <1>17, NamesAssumption, KeyOfCall
      DEF CallSpawned, Released, TypeOK, HoldInv, SlotInv, PhaseInv, Key
  <2>7. PooledNotShut'
    BY <1>17, KeyOfCall
      DEF CallSpawned, Released, TypeOK, Entry, PooledNotShut, SoleDisposer,
         PhaseInv, Spawning, Pooled, Active
  <2>8. SoleDisposer'
    BY <1>17, NamesAssumption, KeyOfCall
      DEF CallSpawned, Released, TypeOK, Entry, SoleDisposer, FreshInv, SlotInv,
         DiscoveryInv, Spawning, Offered, Pooled, Active
  <2>9. ReloadLeavesNothingOld'
    BY <1>17, NamesAssumption, KeyOfCall
      DEF CallSpawned, Released, TypeOK, Entry, ReloadLeavesNothingOld, RoomInv,
         LockInv, Spawning, Pooled, Active
  <2>10. (RoomInv /\ PoolBounded)'
    <3>1. lock = r /\ Key(r) \in Keys /\ lock # None
      BY <1>17, KeyOfCall, NamesAssumption DEF CallSpawned, LockInv, Spawning
    <3>2. Active(tenants)' \subseteq Active(tenants) \cup {Key(r)}
      BY <1>17 DEF CallSpawned, Active, TypeOK
    <3>3. Key(r) \notin Active(tenants)
      BY <3>1 DEF RoomInv, Active
    <3> DEFINE grown == Active(tenants) \cup {Key(r)}
    <3>4. IsFiniteSet(grown) /\ Cardinality(grown) = Cardinality(Active(tenants)) + 1
      BY <3>3, FS_AddElement DEF RoomInv
    <3>5. IsFiniteSet(Active(tenants)') /\ Cardinality(Active(tenants)') <= Cardinality(grown)
      <4> HIDE DEF grown
      <4> QED BY <3>2, <3>4, FS_Subset DEF grown
    <3> HIDE DEF grown
    <3> QED BY <1>17, <3>1, <3>4, <3>5, FS_CardinalityType, LimitIsPositive
          DEF CallSpawned, Released, RoomInv, PoolBounded
  <2>11. DiscoveryInv'
    BY <1>17 DEF CallSpawned, DiscoveryInv
  <2> QED BY <2>1, <2>2, <2>3, <2>4, <2>5, <2>6, <2>7, <2>8, <2>9, <2>10,
     <2>11 DEF Inductive
<1>18. ASSUME NEW r \in Requests, ReloadSpawned(r) PROVE Inductive'
  <2>1. TypeOK'
    BY TypeStep
  <2>2. LockInv'
    BY <1>18, NamesAssumption
      DEF ReloadSpawned, Replaced, TypeOK, LockInv, PhaseInv, Spawning
  <2>3. PhaseInv'
    BY <1>18 DEF ReloadSpawned, Replaced, TypeOK, PhaseInv, FreshInv, Spawning
  <2>4. FreshInv'
    BY <1>18, NamesAssumption
      DEF ReloadSpawned, Replaced, TypeOK, Entry, FreshInv, PhaseInv, Spawning, Offered,
         Pooled, Active
  <2>5. DiscoveryInv'
    BY <1>18, NamesAssumption
      DEF ReloadSpawned, Replaced, TypeOK, DiscoveryInv, PhaseInv
  <2>6. PooledNotShut'
    BY <1>18
      DEF ReloadSpawned, Replaced, TypeOK, Entry, PooledNotShut, SoleDisposer, PhaseInv,
         Spawning, Pooled, Active
  <2>7. SoleDisposer'
    BY <1>18, NamesAssumption
      DEF ReloadSpawned, Replaced, TypeOK, Entry, SoleDisposer, FreshInv, SlotInv,
         DiscoveryInv, Spawning, Offered, Pooled, Active
  <2>8. (SlotInv /\ HoldInv /\ RoomInv /\ PoolBounded /\
         ReloadLeavesNothingOld)'
    BY <1>18 DEF ReloadSpawned, Replaced, SlotInv, Spawning, Key, HoldInv, RoomInv,
       Active, PoolBounded, ReloadLeavesNothingOld, Pooled
  <2> QED BY <2>1, <2>2, <2>3, <2>4, <2>5, <2>6, <2>7, <2>8 DEF Inductive
<1>19. ASSUME NEW r \in Requests, Disconnects(r) PROVE Inductive'
  <2>1. TypeOK'
    BY TypeStep
  <2>2. LockInv'
    BY <1>19, NamesAssumption
      DEF Disconnects, Released, TypeOK, LockInv, PhaseInv, Spawning
  <2>3. PhaseInv'
    BY <1>19 DEF Disconnects, Released, TypeOK, PhaseInv, FreshInv, Spawning
  <2>4. FreshInv'
    BY <1>19, NamesAssumption
      DEF Disconnects, Released, TypeOK, Entry, FreshInv, PhaseInv, Spawning,
         Offered, Pooled, Active
  <2>5. HoldInv'
    BY <1>19, NamesAssumption
      DEF Disconnects, Released, TypeOK, HoldInv, SlotInv, PhaseInv, Key
  <2>6. RoomInv'
    BY <1>19
      DEF Disconnects, Released, TypeOK, Entry, RoomInv, PhaseInv, FreshInv,
         LockInv, Spawning, Key, Active
  <2>7. SoleDisposer'
    BY <1>19, NamesAssumption
      DEF Disconnects, Released, TypeOK, Entry, SoleDisposer, FreshInv, SlotInv,
         DiscoveryInv, Spawning, Offered, Pooled, Active
  <2>8. (SlotInv /\ DiscoveryInv /\ PooledNotShut /\ PoolBounded /\
         ReloadLeavesNothingOld)'
    BY <1>19 DEF Disconnects, SlotInv, Spawning, Key, DiscoveryInv,
       PooledNotShut, Pooled, Active, PoolBounded, ReloadLeavesNothingOld
  <2> QED BY <2>1, <2>2, <2>3, <2>4, <2>5, <2>6, <2>7, <2>8 DEF Inductive
<1>20. ASSUME NEW c \in Instances, Exits(c) PROVE Inductive'
  <2>1. TypeOK'
    BY TypeStep
  <2>2. PhaseInv'
    BY <1>20 DEF Exits, TypeOK, PhaseInv, FreshInv, Spawning
  <2>3. FreshInv'
    BY <1>20, NamesAssumption
      DEF Exits, TypeOK, Entry, FreshInv, PhaseInv, Spawning, Offered, Pooled,
         Active
  <2>4. PooledNotShut'
    BY <1>20
      DEF Exits, TypeOK, Entry, PooledNotShut, SoleDisposer, PhaseInv, Spawning,
         Pooled, Active
  <2>5. (LockInv /\ SlotInv /\ DiscoveryInv /\ HoldInv /\
         RoomInv /\ SoleDisposer /\ PoolBounded /\ ReloadLeavesNothingOld)'
    BY <1>20 DEF Exits, LockInv, Spawning, SlotInv, Key, DiscoveryInv, HoldInv,
       RoomInv, Active, SoleDisposer, Pooled, PoolBounded,
       ReloadLeavesNothingOld
  <2> QED BY <2>1, <2>2, <2>3, <2>4, <2>5 DEF Inductive
<1>21. CASE Tick
  <2>1. TypeOK'
    BY TypeStep
  <2>2. (LockInv /\ PhaseInv /\ FreshInv /\ SlotInv /\
         DiscoveryInv /\ HoldInv /\ RoomInv /\ PooledNotShut /\
         SoleDisposer /\ PoolBounded /\ ReloadLeavesNothingOld)'
    BY <1>21 DEF Tick, LockInv, Spawning, PhaseInv, FreshInv, Offered, Pooled,
       Active, SlotInv, Key, DiscoveryInv, HoldInv, RoomInv, PooledNotShut,
       SoleDisposer, PoolBounded, ReloadLeavesNothingOld
  <2> QED BY <2>1, <2>2 DEF Inductive
<1>22. CASE UNCHANGED vars
  <2>1. TypeOK'
    BY TypeStep
  <2>2. (LockInv /\ PhaseInv /\ FreshInv /\ SlotInv /\
         DiscoveryInv /\ HoldInv /\ RoomInv /\ PooledNotShut /\
         SoleDisposer /\ PoolBounded /\ ReloadLeavesNothingOld)'
    BY <1>22 DEF vars, LockInv, Spawning, PhaseInv, FreshInv, Offered, Pooled,
       Active, SlotInv, Key, DiscoveryInv, HoldInv, RoomInv, PooledNotShut,
       SoleDisposer, PoolBounded, ReloadLeavesNothingOld
  <2> QED BY <2>1, <2>2 DEF Inductive
<1> QED BY <1>1, <1>2, <1>3, <1>4, <1>5, <1>6, <1>7, <1>8, <1>9, <1>10, <1>11,
           <1>12, <1>13, <1>14, <1>15, <1>16, <1>17, <1>18, <1>19, <1>20, <1>21, <1>22
        DEF Next, Arrives, TakesLock, Runs, ToolsListed, Finished

LEMMA InductiveInit == Init => Inductive
<1> SUFFICES ASSUME Init PROVE Inductive
  OBVIOUS
<1>1. TypeOK
  BY InitType
<1>2. Active(tenants) = {} /\ Pooled(tenants) = {}
  BY DEF Init, Active, Pooled
<1>3. RoomInv /\ PoolBounded
  BY <1>2, FS_EmptySet, LimitIsPositive DEF Init, RoomInv, PoolBounded
<1>4. LockInv /\ PhaseInv /\ DiscoveryInv
  BY NamesAssumption DEF Init, LockInv, PhaseInv, DiscoveryInv, Spawning
<1>5. FreshInv
  BY <1>2, NamesAssumption DEF Init, FreshInv, Offered, Spawning
<1>6. SlotInv /\ HoldInv
  BY DEF Init, SlotInv, HoldInv
<1>7. PooledNotShut /\ SoleDisposer /\ ReloadLeavesNothingOld
  BY <1>2 DEF Init, PooledNotShut, SoleDisposer, ReloadLeavesNothingOld
<1> QED BY <1>1, <1>3, <1>4, <1>5, <1>6, <1>7 DEF Inductive

\* The invariant that carries everything else.
THEOREM InductiveHolds == Spec => []Inductive
<1>1. Init => Inductive
  BY InductiveInit
<1>2. Inductive /\ [Next]_vars => Inductive'
  BY InductiveStep
<1> QED BY <1>1, <1>2, PTL DEF Spec

\* Every variable keeps its type, whatever the requests and faults.
THEOREM TypeCorrect == Spec => []TypeOK
<1>1. Inductive => TypeOK
  BY DEF Inductive
<1> QED BY <1>1, InductiveHolds, PTL

\* The pool stays within --max-tenant-clients for any number of requests.
THEOREM PoolIsBounded == Spec => []PoolBounded
<1>1. Inductive => PoolBounded
  BY DEF Inductive
<1> QED BY <1>1, InductiveHolds, PTL

\* An instance that the pool or the discovery slot can hand out was not shut down.
THEOREM PooledIsNotShut == Spec => []PooledNotShut
<1>1. Inductive => PooledNotShut
  BY DEF Inductive
<1> QED BY <1>1, InductiveHolds, PTL

\* An instance taken out is shut down by one request, and never offered again.
THEOREM OneDisposer == Spec => []SoleDisposer
<1>1. Inductive => SoleDisposer
  BY DEF Inductive
<1> QED BY <1>1, InductiveHolds, PTL

\* No instance from before a reload's drain is pooled after it.
THEOREM ReloadClearsThePool == Spec => []ReloadLeavesNothingOld
<1>1. Inductive => ReloadLeavesNothingOld
  BY DEF Inductive
<1> QED BY <1>1, InductiveHolds, PTL

\* Identities with one key belong to one tenant.
LEMMA SameKeySameTenant ==
    ASSUME TypeOK, NEW i, NEW j, TenantKey(mode, i) = TenantKey(mode, j)
    PROVE  SameTenant(i, j)
<1>1. ScopeName(mode, i) = ScopeName(mode, j)
  BY DEF TenantKey
<1> QED BY <1>1, ModeAssumption DEF TypeOK, ScopeName, SameTenant, TenantsOf

\* Two calls never hold one instance unless they belong to one tenant.
THEOREM TenantsAreIsolated == Spec => []Isolation
<1>1. Inductive => Isolation
  <2> SUFFICES ASSUME Inductive, NEW r \in Requests, NEW s \in Requests,
                      holding[r] # None, holding[r] = holding[s]
               PROVE  SameTenant(caller[r], caller[s])
    BY DEF Isolation
  <2>1. CASE mode = "shared"
    BY <2>1 DEF SameTenant
  <2>2. CASE mode # "shared"
    BY <2>2, SameKeySameTenant DEF Inductive, HoldInv, Key
  <2> QED BY <2>1, <2>2
<1> QED BY <1>1, InductiveHolds, PTL

-----------------------------------------------------------------------------
(* Without failed spawns and dropped handlers, no instance is lost. *)

\* What is taken out of the pool is to be shut down.
LEMMA PruningKeeps ==
    ASSUME NEW t, NEW c \in Pooled(tenants)
    PROVE  c \in Pooled(Pruned(t)) \cup Expired(t)
<1>1. PICK k \in Keys : tenants[k] # None /\ c = tenants[k].client
  BY DEF Pooled, Active
<1>2. CASE Idle(k, t)
  BY <1>1, <1>2 DEF Expired
<1>3. CASE ~Idle(k, t)
  BY <1>1, <1>3 DEF Pruned, Pooled, Active
<1> QED BY <1>2, <1>3

LEMMA DoomedStep == Inductive /\ DoomedInv /\ [Next]_vars => DoomedInv'
<1> SUFFICES ASSUME Inductive, DoomedInv, [Next]_vars PROVE DoomedInv'
  OBVIOUS
<1> TypeOK /\ PhaseInv
  BY DEF Inductive
<1>1. ASSUME NEW r \in Requests, Arrives(r) PROVE DoomedInv'
  BY <1>1 DEF Arrives, CallShared, CallRefused, CallArrives, HealthArrives, ReloadArrives,
              DoomedInv, PhaseInv, TypeOK, Spawning
<1>2. ASSUME NEW r \in Requests, LockHit(r) \/ LockFull(r) \/ LockSpawn(r) PROVE DoomedInv'
  BY <1>2 DEF LockHit, LockFull, LockSpawn, CallAtLock, DoomedInv, TypeOK, Spawning
<1>3. ASSUME NEW r \in Requests, ReloadDrains(r) \/ HealthPrunes(r) \/ HealthCounts(r) PROVE DoomedInv'
  BY <1>3 DEF ReloadDrains, HealthPrunes, HealthCounts, DoomedInv, TypeOK, Spawning
<1>4. ASSUME NEW r \in Requests, SpawnInitialized(r) \/ SpawnFails(r) \/ ToolsListed(r) PROVE DoomedInv'
  BY <1>4 DEF SpawnInitialized, SpawnFails, ToolsListed, CallSpawned, ReloadSpawned,
              DoomedInv, TypeOK, Spawning
<1>5. ASSUME NEW r \in Requests, NEW c \in Instances, Shuts(r, c) PROVE DoomedInv'
  BY <1>5 DEF Shuts, DoomedInv, TypeOK, Spawning
<1>6. ASSUME NEW r \in Requests, Closed(r) \/ CallEnds(r) \/ Disconnects(r) PROVE DoomedInv'
  BY <1>6 DEF Closed, AfterClosing, CallEnds, Disconnects, DoomedInv, TypeOK, Spawning
<1>7. ASSUME NEW c \in Instances, Exits(c) PROVE DoomedInv'
  BY <1>7 DEF Exits, DoomedInv, Spawning
<1>8. CASE Tick \/ UNCHANGED vars
  BY <1>8 DEF Tick, vars, DoomedInv, Spawning
<1> QED BY <1>1, <1>2, <1>3, <1>4, <1>5, <1>6, <1>7, <1>8
        DEF Next, TakesLock, Runs, Finished

\* Who can still shut an instance down, or hand it out
Known(c) ==
    \/ c \in Pooled(tenants) \cup {discovery}
    \/ Spawning(c)
    \/ \E r \in Requests : c \in doomed[r]

\* Who prunes has nothing in hand, and takes what is expired.
LEMMA PrunerKnows ==
    ASSUME TypeOK, NEW r \in Requests, NEW t, tenants' = Pruned(t), doomed[r] = {},
           doomed' = [doomed EXCEPT ![r] = Expired(t)], discovery' = discovery,
           NEW c \in Instances, Known(c), Spawning(c) => Spawning(c)'
    PROVE  Known(c)'
<1>1. doomed'[r] = Expired(t) /\ \A s \in Requests : doomed[s] \subseteq doomed'[s]
  BY DEF TypeOK
<1>2. CASE c \in Pooled(tenants)
  <2>1. c \in Pooled(tenants') \/ c \in doomed'[r]
    BY <1>1, <1>2, PruningKeeps
  <2> QED BY <2>1 DEF Known
<1>3. CASE c = discovery \/ Spawning(c)
  BY <1>3 DEF Known
<1>4. CASE \E s \in Requests : c \in doomed[s]
  BY <1>1, <1>4 DEF Known
<1> QED BY <1>2, <1>3, <1>4 DEF Known

LEMMA StepLosesNothing ==
    ASSUME Faults \cap {"spawn_failure", "disconnect"} = {},
           Inductive, DoomedInv, NothingLost, [Next]_vars
    PROVE  NothingLost'
<1> TypeOK /\ PhaseInv /\ RoomInv /\ LockInv
  BY DEF Inductive
<1> \A c \in Instances : proc[c] = "running" => Known(c)
  BY DEF NothingLost, Known
<1> SUFFICES \A c \in Instances : proc'[c] = "running" => Known(c)'
  BY DEF NothingLost, Known
<1>1. ASSUME NEW r \in Requests, Arrives(r), NEW c \in Instances, proc'[c] = "running" PROVE Known(c)'
  <2>1. UNCHANGED <<tenants, discovery, doomed>> /\ pc[r] = "idle"
    BY <1>1 DEF Arrives, CallShared, CallRefused, CallArrives, HealthArrives, ReloadArrives
  <2>2. CASE c = r /\ ReloadArrives(r)
    BY <2>2 DEF ReloadArrives, Known, Spawning, TypeOK
  <2>3. CASE ~(c = r /\ ReloadArrives(r))
    <3>1. proc[c] = "running"
      BY <1>1, <2>3 DEF Arrives, CallShared, CallRefused, CallArrives, HealthArrives, ReloadArrives, TypeOK
    <3>2. Spawning(c) => Spawning(c)'
      BY <1>1 DEF Arrives, CallShared, CallRefused, CallArrives, HealthArrives, ReloadArrives, TypeOK, Spawning
    <3> QED BY <2>1, <3>1, <3>2 DEF Known
  <2> QED BY <2>2, <2>3
<1>2. ASSUME NEW r \in Requests, LockHit(r), NEW c \in Instances, proc'[c] = "running" PROVE Known(c)'
  <2>1. doomed[r] = {} /\ discovery' = discovery /\ proc[c] = "running"
        /\ doomed' = [doomed EXCEPT ![r] = Expired(at[r])]
    BY <1>2 DEF LockHit, CallAtLock, DoomedInv
  <2>2. Spawning(c) => Spawning(c)'
    BY <1>2 DEF LockHit, CallAtLock, TypeOK, Spawning
  <2>3. Pooled(Pruned(at[r])) \subseteq Pooled(tenants')
    <3>1. Pruned(at[r])[Key(r)] # None
      BY <1>2 DEF LockHit
    <3>2. ASSUME NEW k \in Keys, Pruned(at[r])[k] # None
          PROVE  tenants'[k] # None /\ tenants'[k].client = Pruned(at[r])[k].client
      BY <1>2, <3>2, EntryAssumption, NamesAssumption DEF LockHit, Pruned, TypeOK, Entry
    <3> QED BY <3>2 DEF Pooled, Active
  <2>4. doomed'[r] = Expired(at[r]) /\ \A s \in Requests : doomed[s] \subseteq doomed'[s]
    BY <2>1 DEF TypeOK
  <2>5. CASE c \in Pooled(tenants)
    <3>1. c \in Pooled(tenants') \/ c \in doomed'[r]
      BY <2>3, <2>4, <2>5, PruningKeeps
    <3> QED BY <3>1 DEF Known
  <2>6. CASE c = discovery \/ Spawning(c)
    BY <2>1, <2>2, <2>6 DEF Known
  <2>7. CASE \E s \in Requests : c \in doomed[s]
    BY <2>4, <2>7 DEF Known
  <2> QED BY <2>1, <2>5, <2>6, <2>7 DEF Known
<1>3. ASSUME NEW r \in Requests, LockFull(r), NEW c \in Instances, proc'[c] = "running" PROVE Known(c)'
  <2>1. /\ doomed[r] = {} /\ discovery' = discovery /\ proc[c] = "running" /\ tenants' = Pruned(at[r])
        /\ doomed' = [doomed EXCEPT ![r] = Expired(at[r])]
    BY <1>3 DEF LockFull, CallAtLock, DoomedInv
  <2>2. Spawning(c) => Spawning(c)'
    BY <1>3 DEF LockFull, CallAtLock, TypeOK, Spawning
  <2> QED BY <2>1, <2>2, PrunerKnows
<1>4. ASSUME NEW r \in Requests, LockSpawn(r), NEW c \in Instances, proc'[c] = "running" PROVE Known(c)'
  <2>1. /\ doomed[r] = {} /\ discovery' = discovery /\ tenants' = Pruned(at[r])
        /\ doomed' = [doomed EXCEPT ![r] = Expired(at[r])]
    BY <1>4 DEF LockSpawn, CallAtLock, DoomedInv
  <2>2. Spawning(c) => Spawning(c)'
    BY <1>4 DEF LockSpawn, CallAtLock, TypeOK, Spawning
  <2>3. CASE c = r
    BY <1>4, <2>3 DEF LockSpawn, Known, Spawning, TypeOK
  <2>4. CASE c # r
    <3>1. proc[c] = "running"
      BY <1>4, <2>4 DEF LockSpawn, TypeOK
    <3> QED BY <2>1, <2>2, <3>1, PrunerKnows
  <2> QED BY <2>3, <2>4
<1>5. ASSUME NEW r \in Requests, HealthPrunes(r), NEW c \in Instances, proc'[c] = "running" PROVE Known(c)'
  <2>1. /\ doomed[r] = {} /\ discovery' = discovery /\ proc[c] = "running" /\ tenants' = Pruned(now)
        /\ doomed' = [doomed EXCEPT ![r] = Expired(now)]
    BY <1>5 DEF HealthPrunes, DoomedInv
  <2>2. Spawning(c) => Spawning(c)'
    BY <1>5 DEF HealthPrunes, TypeOK, Spawning
  <2> QED BY <2>1, <2>2, PrunerKnows
<1>6. ASSUME NEW r \in Requests, ReloadDrains(r), NEW c \in Instances, proc'[c] = "running" PROVE Known(c)'
  <2>1. discovery' = discovery /\ proc[c] = "running" /\ (Spawning(c) => Spawning(c)')
    BY <1>6 DEF ReloadDrains, TypeOK, Spawning
  <2>2. Pooled(tenants) \subseteq doomed'[r] /\ \A s \in Requests : doomed[s] \subseteq doomed'[s]
    BY <1>6 DEF ReloadDrains, TypeOK
  <2> QED BY <2>1, <2>2 DEF Known
<1>7. ASSUME NEW r \in Requests, HealthCounts(r) \/ SpawnInitialized(r) \/ Closed(r) \/ CallEnds(r),
             NEW c \in Instances, proc'[c] = "running"
      PROVE  Known(c)'
  <2>1. UNCHANGED <<tenants, discovery, doomed, proc>> /\ (Spawning(c) => Spawning(c)')
    BY <1>7 DEF HealthCounts, SpawnInitialized, Closed, CallEnds, TypeOK, Spawning
  <2> QED BY <1>7, <2>1 DEF Known
<1>8. ASSUME NEW r \in Requests, SpawnFails(r) \/ Disconnects(r) PROVE FALSE
  BY <1>8 DEF SpawnFails, Disconnects
<1>9. ASSUME NEW r \in Requests, NEW d \in Instances, Shuts(r, d), NEW c \in Instances, proc'[c] = "running"
      PROVE  Known(c)'
  <2>1. UNCHANGED <<tenants, discovery, pc>> /\ proc[c] = "running" /\ c # d
    BY <1>9 DEF Shuts, TypeOK
  <2>2. \A s \in Requests : c \in doomed[s] => c \in doomed'[s]
    BY <1>9, <2>1 DEF Shuts, TypeOK
  <2> QED BY <2>1, <2>2 DEF Known, Spawning
<1>10. ASSUME NEW r \in Requests, CallSpawned(r), NEW c \in Instances, proc'[c] = "running" PROVE Known(c)'
  <2>1. UNCHANGED <<discovery, doomed, proc>> /\ \A s \in Requests : s # r => pc'[s] = pc[s]
    BY <1>10 DEF CallSpawned, TypeOK
  <2>2. Key(r) \in Keys /\ tenants[Key(r)] = None
    <3>1. lock = r /\ lock # None
      BY <1>10, NamesAssumption DEF CallSpawned, LockInv, Spawning
    <3>2. Key(r) \in Keys
      BY <1>10, TenantsHaveKeys DEF CallSpawned, PhaseInv, Key, TypeOK
    <3> QED BY <3>1, <3>2 DEF RoomInv
  <2>3. tenants' = [tenants EXCEPT ![Key(r)] = [client |-> r, lastUsed |-> at[r]]]
        /\ [client |-> r, lastUsed |-> at[r]] # None
    BY <1>10, EntryAssumption DEF CallSpawned, TypeOK, Entry
  <2>4. r \in Pooled(tenants') /\ Pooled(tenants) \subseteq Pooled(tenants')
    BY <2>2, <2>3 DEF Pooled, Active, TypeOK
  <2>5. CASE c = r
    BY <2>4, <2>5 DEF Known
  <2>6. CASE c # r
    BY <1>10, <2>1, <2>4, <2>6 DEF Known, Spawning
  <2> QED BY <2>5, <2>6
<1>11. ASSUME NEW r \in Requests, ReloadSpawned(r), NEW c \in Instances, proc'[c] = "running" PROVE Known(c)'
  <2>1. UNCHANGED <<tenants, proc>> /\ discovery' = r /\ \A s \in Requests : s # r => pc'[s] = pc[s]
    BY <1>11 DEF ReloadSpawned, TypeOK
  <2>2. doomed[r] = {} /\ doomed' = [doomed EXCEPT ![r] = {discovery}]
    BY <1>11 DEF ReloadSpawned, Replaced, DoomedInv, Spawning
  <2>3. discovery \in doomed'[r] /\ \A s \in Requests : doomed[s] \subseteq doomed'[s]
    BY <2>2 DEF TypeOK
  <2>4. CASE c = r
    BY <2>1, <2>4 DEF Known
  <2>5. CASE c # r
    BY <1>11, <2>1, <2>3, <2>5 DEF Known, Spawning
  <2> QED BY <2>4, <2>5
<1>12. ASSUME NEW d \in Instances, Exits(d), NEW c \in Instances, proc'[c] = "running" PROVE Known(c)'
  <2>1. UNCHANGED <<tenants, discovery, doomed, pc>> /\ proc[c] = "running"
    BY <1>12 DEF Exits, TypeOK
  <2> QED BY <2>1 DEF Known, Spawning
<1>13. ASSUME Tick \/ UNCHANGED vars, NEW c \in Instances, proc'[c] = "running" PROVE Known(c)'
  <2>1. UNCHANGED <<tenants, discovery, doomed, pc, proc>>
    BY <1>13 DEF Tick, vars
  <2> QED BY <1>13, <2>1 DEF Known, Spawning
<1> QED BY <1>1, <1>2, <1>3, <1>4, <1>5, <1>6, <1>7, <1>8, <1>9, <1>10, <1>11, <1>12, <1>13
        DEF Next, TakesLock, Runs, ToolsListed, Finished

\* As long as no spawn fails and no handler is dropped, every live process is pooled,
\* shown, being spawned or in the hands of who will shut it down (tenancy.rs:110-183).
THEOREM NothingIsLost ==
    ASSUME Faults \cap {"spawn_failure", "disconnect"} = {}
    PROVE  Spec => []NothingLost
<1>1. Init => DoomedInv /\ NothingLost
  BY NamesAssumption DEF Init, DoomedInv, NothingLost
<1>2. Inductive /\ DoomedInv /\ NothingLost /\ [Next]_vars => DoomedInv' /\ NothingLost'
  BY DoomedStep, StepLosesNothing
<1> QED BY <1>1, <1>2, InductiveHolds, PTL DEF Spec

-----------------------------------------------------------------------------
(* The pool implements the contract: each step of the pool is one step of it, or none. *)

\* The contract's variables, as the mapping reads them from the pool's.
SlotView == [k \in Keys |-> IF tenants[k] = None THEN None ELSE tenants[k].client]
LeaseView == [r \in Requests |-> LeaseOf(r)]
SpentView == {c \in Instances : proc[c] # "unborn" /\ ~Spawning(c)}
ClosedView == {c \in Instances : proc[c] = "shut"}
views == <<SlotView, discovery, LeaseView, SpentView, ClosedView>>

\* The contract counts as FiniteSets does.
LEMMA SameCardinality == \A S : Contract!Cardinality(S) = Cardinality(S)
BY DEF Contract!Cardinality, Cardinality

LEMMA FilledIsActive ==
    ASSUME TypeOK PROVE Contract!Filled = Active(tenants)
BY NamesAssumption, EntryAssumption DEF Contract!Filled, Active, TypeOK, Entry

LEMMA OfferedIsPooled ==
    ASSUME TypeOK PROVE Contract!Offered = Pooled(tenants) \cup {discovery}
BY FilledIsActive DEF Contract!Offered, Pooled, Active, TypeOK

LEMMA InitRefines == Init => Contract!CInit
<1> SUFFICES ASSUME Init PROVE Contract!CInit
  OBVIOUS
<1>1. SlotView = [k \in Keys |-> None] /\ LeaseView = [r \in Requests |-> None]
  BY DEF Init, SlotView, LeaseView, LeaseOf
<1>2. SpentView = {Boot} /\ ClosedView = {}
  BY NamesAssumption DEF Init, SpentView, ClosedView, Spawning
<1> QED BY <1>1, <1>2 DEF Init, Contract!CInit, SlotView, LeaseView, SpentView, ClosedView

LEMMA SlotFrame == ASSUME tenants' = tenants PROVE SlotView' = SlotView
BY DEF SlotView

LEMMA LeaseFrame ==
    ASSUME mode' = mode, holding' = holding, \A r \in Requests : holding[r] # None => caller'[r] = caller[r]
    PROVE  LeaseView' = LeaseView
BY DEF LeaseView, LeaseOf, Key

\* A lease is a pair, never None.
LEMMA LeaseIsNotNone ==
    ASSUME Inductive, NEW r \in Requests, holding[r] # None
    PROVE  LeaseOf(r) # None
<1>1. holding[r] \in Instances
  BY DEF Inductive, TypeOK
<1>2. mode # "shared" => Key(r) \in Keys
  BY TenantsHaveKeys DEF Inductive, TypeOK, HoldInv, Key
<1> QED BY <1>1, <1>2, PairAssumption DEF LeaseOf

LEMMA ProcessFrame ==
    ASSUME proc' = proc, \A c \in Requests : Spawning(c)' <=> Spawning(c)
    PROVE  SpentView' = SpentView /\ ClosedView' = ClosedView
BY DEF SpentView, ClosedView, Spawning

\* Nothing of the pool's that the contract sees has changed.
LEMMA Stutters ==
    ASSUME SlotView' = SlotView, discovery' = discovery, LeaseView' = LeaseView,
           SpentView' = SpentView, ClosedView' = ClosedView
    PROVE  UNCHANGED Contract!cvars
BY DEF Contract!cvars, SlotView, LeaseView, SpentView, ClosedView

\* Slots are emptied, and nothing else happens that the contract sees.
LEMMA Evicts ==
    ASSUME NEW gone \in SUBSET Keys,
           SlotView' = [k \in Keys |-> IF k \in gone THEN None ELSE SlotView[k]],
           discovery' = discovery, LeaseView' = LeaseView,
           SpentView' = SpentView, ClosedView' = ClosedView
    PROVE  Contract!CNext
<1>1. Contract!Evict(gone)
  BY DEF Contract!Evict, Contract!Without, SlotView, LeaseView, SpentView, ClosedView
<1> QED BY <1>1 DEF Contract!CNext

LEMMA PruningView ==
    ASSUME NEW t, tenants' = Pruned(t)
    PROVE  SlotView' = [k \in Keys |-> IF k \in {j \in Keys : Idle(j, t)} THEN None ELSE SlotView[k]]
BY DEF SlotView, Pruned

\* What a request waiting for the mutex, or spawning, has not got yet.
LEMMA HoldsNothing ==
    ASSUME Inductive, NEW r \in Requests, pc[r] \notin {"closing", "using"}
    PROVE  holding[r] = None
BY DEF Inductive, HoldInv

\* A spawn that ends without an instance on offer.
LEMMA Discards ==
    ASSUME NEW r \in Requests, r \notin SpentView, SpentView' = SpentView \cup {r},
           SlotView' = SlotView, discovery' = discovery, LeaseView' = LeaseView,
           ClosedView' = ClosedView
    PROVE  Contract!CNext
<1>1. Contract!Discard(r)
  BY DEF Contract!Discard, Contract!Unspent, SlotView, LeaseView, SpentView, ClosedView
<1> QED BY <1>1 DEF Contract!CNext

LEMMA StepRefines ==
    Inductive /\ [Next]_vars => Contract!CNext \/ UNCHANGED Contract!cvars
<1> SUFFICES ASSUME Inductive, [Next]_vars
             PROVE  Contract!CNext \/ UNCHANGED Contract!cvars
  OBVIOUS
<1> TypeOK
  BY DEF Inductive
<1>1. ASSUME NEW r \in Requests, CallShared(r) PROVE Contract!CNext
  <2>1. SlotView' = SlotView /\ SpentView' = SpentView /\ ClosedView' = ClosedView
    BY <1>1, SlotFrame, ProcessFrame DEF CallShared, Spawning, TypeOK
  <2>2. LeaseView[r] = None
    BY <1>1, HoldsNothing DEF CallShared, LeaseView, LeaseOf
  <2>3. LeaseView' = [LeaseView EXCEPT ![r] = <<None, discovery>>]
    BY <1>1, NamesAssumption DEF CallShared, LeaseView, LeaseOf, Key, TypeOK
  <2>4. Contract!LeaseShown(r)
    BY <1>1, <2>1, <2>2, <2>3
      DEF CallShared, Contract!LeaseShown, SlotView, LeaseView, SpentView, ClosedView
  <2> QED BY <2>4 DEF Contract!CNext
<1>2. ASSUME NEW r \in Requests, NEW i \in Identities, CallRefused(r, i) \/ CallArrives(r, i)
      PROVE  UNCHANGED Contract!cvars
  <2>1. holding[r] = None
    BY <1>2, HoldsNothing DEF CallRefused, CallArrives
  <2>2. LeaseView' = LeaseView
    BY <1>2, <2>1, LeaseFrame DEF CallRefused, CallArrives, TypeOK
  <2>3. SlotView' = SlotView /\ SpentView' = SpentView /\ ClosedView' = ClosedView
    BY <1>2, SlotFrame, ProcessFrame DEF CallRefused, CallArrives, Spawning, TypeOK
  <2> QED BY <1>2, <2>2, <2>3, Stutters DEF CallRefused, CallArrives
<1>3. ASSUME NEW r \in Requests, HealthArrives(r) PROVE UNCHANGED Contract!cvars
  <2>1. SlotView' = SlotView /\ SpentView' = SpentView /\ ClosedView' = ClosedView
    BY <1>3, SlotFrame, ProcessFrame DEF HealthArrives, Spawning, TypeOK
  <2> QED BY <1>3, <2>1, LeaseFrame, Stutters DEF HealthArrives
<1>4. ASSUME NEW r \in Requests, ReloadArrives(r) PROVE UNCHANGED Contract!cvars
  <2>1. proc[r] = "unborn"
    BY <1>4 DEF ReloadArrives, Inductive, PhaseInv
  <2>2. SpentView' = SpentView /\ ClosedView' = ClosedView
    BY <1>4, <2>1 DEF ReloadArrives, SpentView, ClosedView, Spawning, TypeOK
  <2> QED BY <1>4, <2>2, SlotFrame, LeaseFrame, Stutters DEF ReloadArrives
<1>5. ASSUME NEW r \in Requests, LockHit(r) PROVE Contract!CNext
  <2>1. Key(r) \in Keys
    BY <1>5, KeyOfCall DEF LockHit, CallAtLock, Inductive
  <2>2. PICK k \in Keys : k = Key(r)
    BY <2>1
  <2>3. PICK gone \in SUBSET Keys : gone = {j \in Keys : Idle(j, at[r])}
    OBVIOUS
  <2>4. SlotView[k] = tenants[k].client /\ SlotView[k] # None /\ k \notin gone
    BY <1>5, <2>2, <2>3, NamesAssumption DEF LockHit, Pruned, SlotView, TypeOK, Entry
  <2>5. SlotView' = [j \in Keys |-> IF j \in gone THEN None ELSE SlotView[j]]
    BY <1>5, <2>2, <2>3, <2>4, EntryAssumption DEF LockHit, Pruned, SlotView, TypeOK, Entry
  <2>6. LeaseView[r] = None
    BY <1>5, HoldsNothing DEF LockHit, CallAtLock, LeaseView, LeaseOf
  <2>7. mode # "shared"
    BY <1>5 DEF LockHit, CallAtLock, Inductive, PhaseInv
  <2>8. LeaseView' = [LeaseView EXCEPT ![r] = <<k, SlotView[k]>>]
    BY <1>5, <2>2, <2>4, <2>7, NamesAssumption DEF LockHit, LeaseView, LeaseOf, Key, TypeOK
  <2>9. SpentView' = SpentView /\ ClosedView' = ClosedView
    BY <1>5, ProcessFrame DEF LockHit, CallAtLock, Spawning, TypeOK
  <2>10. Contract!Lease(r, k, gone)
    BY <1>5, <2>4, <2>5, <2>6, <2>8, <2>9
      DEF LockHit, Contract!Lease, Contract!Without, SlotView, LeaseView, SpentView, ClosedView
  <2> QED BY <2>10 DEF Contract!CNext
<1>6. ASSUME NEW r \in Requests, LockFull(r) \/ HealthPrunes(r) PROVE Contract!CNext
  <2>1. PICK t : tenants' = Pruned(t)
    BY <1>6 DEF LockFull, HealthPrunes
  <2> DEFINE gone == {j \in Keys : Idle(j, t)}
  <2>2. SlotView' = [k \in Keys |-> IF k \in gone THEN None ELSE SlotView[k]]
    BY <2>1, PruningView
  <2>3. SpentView' = SpentView /\ ClosedView' = ClosedView
    BY <1>6, ProcessFrame DEF LockFull, HealthPrunes, CallAtLock, Spawning, TypeOK
  <2>4. LeaseView' = LeaseView /\ discovery' = discovery
    BY <1>6, LeaseFrame DEF LockFull, HealthPrunes
  <2>5. gone \in SUBSET Keys
    OBVIOUS
  <2> HIDE DEF gone
  <2> QED BY <2>2, <2>3, <2>4, <2>5, Evicts
<1>7. ASSUME NEW r \in Requests, LockSpawn(r) PROVE Contract!CNext
  <2> DEFINE gone == {j \in Keys : Idle(j, at[r])}
  <2>1. SlotView' = [k \in Keys |-> IF k \in gone THEN None ELSE SlotView[k]]
    BY <1>7, PruningView DEF LockSpawn
  <2>2. proc[r] = "unborn"
    BY <1>7 DEF LockSpawn, CallAtLock, Inductive, PhaseInv
  <2>3. SpentView' = SpentView /\ ClosedView' = ClosedView
    BY <1>7, <2>2 DEF LockSpawn, CallAtLock, SpentView, ClosedView, Spawning, TypeOK
  <2>4. LeaseView' = LeaseView /\ discovery' = discovery
    BY <1>7, LeaseFrame DEF LockSpawn
  <2>5. gone \in SUBSET Keys
    OBVIOUS
  <2> HIDE DEF gone
  <2> QED BY <2>1, <2>3, <2>4, <2>5, Evicts
<1>8. ASSUME NEW r \in Requests, ReloadDrains(r) PROVE Contract!CNext
  <2>1. SlotView' = [k \in Keys |-> IF k \in Keys THEN None ELSE SlotView[k]]
    BY <1>8 DEF ReloadDrains, Drained, SlotView
  <2>2. SpentView' = SpentView /\ ClosedView' = ClosedView
    BY <1>8, ProcessFrame DEF ReloadDrains, Spawning, TypeOK
  <2>3. LeaseView' = LeaseView /\ discovery' = discovery
    BY <1>8, LeaseFrame DEF ReloadDrains
  <2>4. Keys \in SUBSET Keys
    OBVIOUS
  <2> QED BY <2>1, <2>2, <2>3, <2>4, Evicts
<1>9. ASSUME NEW r \in Requests, HealthCounts(r) \/ SpawnInitialized(r) \/ Closed(r)
      PROVE  UNCHANGED Contract!cvars
  <2>1. SlotView' = SlotView /\ SpentView' = SpentView /\ ClosedView' = ClosedView
    BY <1>9, SlotFrame, ProcessFrame
      DEF HealthCounts, SpawnInitialized, Closed, AfterClosing, Spawning, TypeOK
  <2>2. LeaseView' = LeaseView
    BY <1>9, LeaseFrame DEF HealthCounts, SpawnInitialized, Closed
  <2> QED BY <1>9, <2>1, <2>2, Stutters DEF HealthCounts, SpawnInitialized, Closed
<1>10. ASSUME NEW r \in Requests, SpawnFails(r) PROVE Contract!CNext
  <2>1. proc[r] \in {"running", "exited"} /\ Spawning(r)
    BY <1>10 DEF SpawnFails, Inductive, PhaseInv, Spawning
  <2>2. r \notin SpentView /\ SpentView' = SpentView \cup {r} /\ ClosedView' = ClosedView
    BY <1>10, <2>1 DEF SpawnFails, SpentView, ClosedView, Spawning, TypeOK
  <2>3. LeaseView' = LeaseView /\ SlotView' = SlotView /\ discovery' = discovery
    BY <1>10, LeaseFrame, SlotFrame DEF SpawnFails
  <2> QED BY <2>2, <2>3, Discards
<1>11. ASSUME NEW r \in Requests, NEW c \in Instances, Shuts(r, c) PROVE Contract!CNext
  <2>1. c \in SpentView \ Contract!Offered
    BY <1>11, OfferedIsPooled DEF Shuts, Inductive, SoleDisposer, FreshInv, SpentView
  <2>2. ClosedView' = ClosedView \cup {c}
    BY <1>11 DEF Shuts, ClosedView, TypeOK
  <2>3. SpentView' = SpentView
    BY <1>11, <2>1 DEF Shuts, SpentView, Spawning, TypeOK
  <2>4. LeaseView' = LeaseView /\ SlotView' = SlotView /\ discovery' = discovery
    BY <1>11, LeaseFrame, SlotFrame DEF Shuts
  <2>5. Contract!Close(c)
    BY <2>1, <2>2, <2>3, <2>4
      DEF Contract!Close, Contract!Removed, SlotView, LeaseView, SpentView, ClosedView
  <2> QED BY <2>5 DEF Contract!CNext
<1>12. ASSUME NEW r \in Requests, CallEnds(r)
       PROVE  Contract!CNext \/ UNCHANGED Contract!cvars
  <2>1. SlotView' = SlotView /\ SpentView' = SpentView /\ ClosedView' = ClosedView
        /\ discovery' = discovery
    BY <1>12, SlotFrame, ProcessFrame DEF CallEnds, Spawning, TypeOK
  <2>2. CASE holding[r] = None
    <3>1. holding' = holding
      BY <1>12, <2>2 DEF CallEnds, TypeOK
    <3> QED BY <1>12, <2>1, <3>1, LeaseFrame, Stutters DEF CallEnds
  <2>3. CASE holding[r] # None
    <3>1. LeaseView[r] # None /\ LeaseView' = [LeaseView EXCEPT ![r] = None]
      BY <1>12, <2>3, LeaseIsNotNone DEF CallEnds, LeaseView, LeaseOf, Key, TypeOK
    <3>2. Contract!Return(r)
      BY <2>1, <3>1 DEF Contract!Return, SlotView, LeaseView, SpentView, ClosedView
    <3> QED BY <3>2 DEF Contract!CNext
  <2> QED BY <2>2, <2>3
<1>13. ASSUME NEW r \in Requests, CallSpawned(r) PROVE Contract!CNext
  <2>1. lock = r /\ lock # None /\ Key(r) \in Keys /\ mode # "shared"
    BY <1>13, KeyOfCall, NamesAssumption
      DEF CallSpawned, Inductive, LockInv, PhaseInv, Spawning
  <2>2. PICK k \in Keys : k = Key(r)
    BY <2>1
  <2>3. SlotView[k] = None /\ Cardinality(Contract!Filled) < Limit
    BY <2>1, <2>2, FilledIsActive DEF Inductive, RoomInv, SlotView
  <2>4. SlotView' = [SlotView EXCEPT ![k] = r]
    <3>1. [client |-> r, lastUsed |-> at[r]] # None
      BY EntryAssumption, NumbersAssumption DEF TypeOK
    <3>2. tenants' = [tenants EXCEPT ![k] = [client |-> r, lastUsed |-> at[r]]]
      BY <1>13, <2>2 DEF CallSpawned
    <3> QED BY <3>1, <3>2 DEF SlotView, TypeOK
  <2>5. LeaseView[r] = None
    BY <1>13, HoldsNothing DEF CallSpawned, LeaseView, LeaseOf
  <2>6. LeaseView' = [LeaseView EXCEPT ![r] = <<k, r>>]
    BY <1>13, <2>1, <2>2, NamesAssumption DEF CallSpawned, LeaseView, LeaseOf, Key, TypeOK
  <2>7. proc[r] # "unborn" /\ Spawning(r)
    BY <1>13 DEF CallSpawned, Inductive, PhaseInv, Spawning
  <2>8. r \notin SpentView /\ SpentView' = SpentView \cup {r} /\ ClosedView' = ClosedView
    BY <1>13, <2>7 DEF CallSpawned, SpentView, ClosedView, Spawning, TypeOK
  <2>9. discovery' = discovery
    BY <1>13 DEF CallSpawned
  <2>10. Contract!Admit(r, k, r)
    BY <2>3, <2>4, <2>5, <2>6, <2>8, <2>9, SameCardinality
      DEF Contract!Admit, Contract!Unspent, SlotView, LeaseView, SpentView, ClosedView
  <2> QED BY <2>10 DEF Contract!CNext
<1>14. ASSUME NEW r \in Requests, ReloadSpawned(r) PROVE Contract!CNext
  <2>1. proc[r] # "unborn" /\ Spawning(r)
    BY <1>14 DEF ReloadSpawned, Inductive, PhaseInv, Spawning
  <2>2. r \notin SpentView /\ SpentView' = SpentView \cup {r} /\ ClosedView' = ClosedView
    BY <1>14, <2>1 DEF ReloadSpawned, SpentView, ClosedView, Spawning, TypeOK
  <2>3. LeaseView' = LeaseView /\ SlotView' = SlotView
    BY <1>14, LeaseFrame, SlotFrame DEF ReloadSpawned
  <2>4. Contract!Replace(r)
    BY <1>14, <2>2, <2>3
      DEF ReloadSpawned, Contract!Replace, Contract!Unspent, SlotView, LeaseView, SpentView, ClosedView
  <2> QED BY <2>4 DEF Contract!CNext
<1>15. ASSUME NEW r \in Requests, Disconnects(r)
       PROVE  Contract!CNext \/ UNCHANGED Contract!cvars
  <2>1. SlotView' = SlotView /\ ClosedView' = ClosedView /\ discovery' = discovery
    BY <1>15, SlotFrame DEF Disconnects, ClosedView
  <2>2. CASE Spawning(r)
    <3>1. holding[r] = None
      BY <2>2, HoldsNothing DEF Spawning
    <3>2. LeaseView' = LeaseView
      BY <1>15, <3>1, LeaseFrame DEF Disconnects, TypeOK
    <3>3. proc[r] # "unborn"
      BY <2>2 DEF Inductive, PhaseInv
    <3>4. r \notin SpentView /\ SpentView' = SpentView \cup {r}
      BY <1>15, <2>2, <3>3 DEF Disconnects, SpentView, Spawning, TypeOK
    <3> QED BY <2>1, <3>2, <3>4, Discards
  <2>3. CASE ~Spawning(r) /\ holding[r] = None
    <3>1. SpentView' = SpentView
      BY <1>15, <2>3 DEF Disconnects, SpentView, Spawning, TypeOK
    <3>2. LeaseView' = LeaseView
      BY <1>15, <2>3, LeaseFrame DEF Disconnects, TypeOK
    <3> QED BY <2>1, <3>1, <3>2, Stutters
  <2>4. CASE ~Spawning(r) /\ holding[r] # None
    <3>1. SpentView' = SpentView
      BY <1>15, <2>4 DEF Disconnects, SpentView, Spawning, TypeOK
    <3>2. LeaseView[r] # None /\ LeaseView' = [LeaseView EXCEPT ![r] = None]
      BY <1>15, <2>4, LeaseIsNotNone DEF Disconnects, LeaseView, LeaseOf, Key, TypeOK
    <3>3. Contract!Return(r)
      BY <2>1, <3>1, <3>2 DEF Contract!Return, SlotView, LeaseView, SpentView, ClosedView
    <3> QED BY <3>3 DEF Contract!CNext
  <2> QED BY <2>2, <2>3, <2>4
<1>16. ASSUME NEW c \in Instances, Exits(c) PROVE UNCHANGED Contract!cvars
  <2>1. SpentView' = SpentView /\ ClosedView' = ClosedView
    BY <1>16 DEF Exits, SpentView, ClosedView, Spawning, TypeOK
  <2> QED BY <1>16, <2>1, SlotFrame, LeaseFrame, Stutters DEF Exits
<1>17. CASE Tick \/ UNCHANGED vars
  <2>1. SlotView' = SlotView /\ SpentView' = SpentView /\ ClosedView' = ClosedView
    BY <1>17, SlotFrame, ProcessFrame DEF Tick, vars, Spawning
  <2>2. LeaseView' = LeaseView
    BY <1>17, LeaseFrame DEF Tick, vars
  <2> QED BY <1>17, <2>1, <2>2, Stutters DEF Tick, vars
<1> QED BY <1>1, <1>2, <1>3, <1>4, <1>5, <1>6, <1>7, <1>8, <1>9, <1>10, <1>11,
           <1>12, <1>13, <1>14, <1>15, <1>16, <1>17
        DEF Next, Arrives, TakesLock, Runs, ToolsListed, Finished

\* The pool keeps what PoolContract promises.
THEOREM PoolImplementsContract == Spec => ImplementsContract
<1>1. Init => Contract!CInit
  BY InitRefines
<1>2. Inductive /\ [Next]_vars => [Contract!CNext]_(Contract!cvars)
  BY StepRefines
<1> QED BY <1>1, <1>2, InductiveHolds, PTL DEF Spec, ImplementsContract, Contract!CSpec
=============================================================================

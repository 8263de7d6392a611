---------------------------- MODULE PoolContract ----------------------------
(***************************************************************************)
(* What ClientPool promises to the handlers that call it, without its      *)
(* mutex, clock, handshakes and shutdown lists: a slot for every tenant,   *)
(* filled with an instance that was never offered before, leased to the    *)
(* calls of that tenant only, and closed only after it has left its slot.  *)
(* TenantPool implements it.                                               *)
(***************************************************************************)
EXTENDS Naturals, FiniteSets

CONSTANTS
    Requests,
    Instances,
    Keys,     \* the tenants
    None,
    Boot,     \* the first discovery instance
    Limit     \* how many slots may be filled

VARIABLES
    slot,     \* tenant -> instance or None
    shown,    \* the discovery instance, which shared tenancy leases
    lease,    \* request -> <<tenant, instance>> or None
    spent,    \* instances that can not be offered as new any more
    closed    \* instances that were shut down

cvars == <<slot, shown, lease, spent, closed>>

Filled == {k \in Keys : slot[k] # None}
Offered == {slot[k] : k \in Filled} \cup {shown}

CInit ==
    /\ slot = [k \in Keys |-> None]
    /\ shown = Boot
    /\ lease = [r \in Requests |-> None]
    /\ spent = {Boot}
    /\ closed = {}

Without(gone) == [k \in Keys |-> IF k \in gone THEN None ELSE slot[k]]

\* Any slots may be cleared, for age or by a reload.
Evict(gone) ==
    /\ slot' = Without(gone)
    /\ UNCHANGED <<shown, lease, spent, closed>>

\* A call is leased what its tenant's slot holds; others may age out meanwhile.
Lease(r, k, gone) ==
    /\ lease[r] = None
    /\ slot[k] # None /\ k \notin gone
    /\ slot' = Without(gone)
    /\ lease' = [lease EXCEPT ![r] = <<k, slot[k]>>]
    /\ UNCHANGED <<shown, spent, closed>>

Unspent(c) == c \notin spent
Removed(c) == c \in spent \ Offered

\* The slot was empty: a new instance fills it.
Admit(r, k, c) ==
    /\ lease[r] = None
    /\ slot[k] = None /\ Cardinality(Filled) < Limit
    /\ Unspent(c)
    /\ slot' = [slot EXCEPT ![k] = c]
    /\ lease' = [lease EXCEPT ![r] = <<k, c>>]
    /\ spent' = spent \cup {c}
    /\ UNCHANGED <<shown, closed>>

LeaseShown(r) ==
    /\ lease[r] = None
    /\ lease' = [lease EXCEPT ![r] = <<None, shown>>]
    /\ UNCHANGED <<slot, shown, spent, closed>>

Replace(c) ==
    /\ Unspent(c)
    /\ shown' = c
    /\ spent' = spent \cup {c}
    /\ UNCHANGED <<slot, lease, closed>>

\* A spawn that comes to nothing.
Discard(c) ==
    /\ Unspent(c)
    /\ spent' = spent \cup {c}
    /\ UNCHANGED <<slot, shown, lease, closed>>

Return(r) ==
    /\ lease[r] # None
    /\ lease' = [lease EXCEPT ![r] = None]
    /\ UNCHANGED <<slot, shown, spent, closed>>

Close(c) ==
    /\ Removed(c)
    /\ closed' = closed \cup {c}
    /\ UNCHANGED <<slot, shown, lease, spent>>

CNext ==
    \/ \E gone \in SUBSET Keys : Evict(gone)
    \/ \E r \in Requests, k \in Keys, gone \in SUBSET Keys : Lease(r, k, gone)
    \/ \E r \in Requests, k \in Keys, c \in Instances : Admit(r, k, c)
    \/ \E r \in Requests : LeaseShown(r) \/ Return(r)
    \/ \E c \in Instances : Replace(c) \/ Discard(c) \/ Close(c)

CSpec == CInit /\ [][CNext]_cvars

=============================================================================

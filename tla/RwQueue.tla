------------------------------- MODULE RwQueue -------------------------------
(***************************************************************************)
(* tokio::sync::RwLock: those who hold it and those who wait for it, in    *)
(* one queue.  It is fair: a reader holds it when nobody ahead of it       *)
(* writes, a writer when nobody is ahead of it, so that a waiting writer   *)
(* keeps later readers out.                                                *)
(***************************************************************************)
EXTENDS Naturals, SequencesExt

QueueEntry(who, kind) == [who |-> who, kind |-> kind]

Reads(lock, who) == Append(lock, QueueEntry(who, "read"))
Writes(lock, who) == Append(lock, QueueEntry(who, "write"))

Holds(lock, who) ==
    \E i \in DOMAIN lock :
        /\ lock[i].who = who
        /\ \A j \in 1..(i - 1) : lock[i].kind = "read" /\ lock[j].kind = "read"

\* The guard is dropped, or whoever awaits it; nobody is in the queue twice.
Without(lock, who) ==
    IF \A i \in DOMAIN lock : lock[i].who # who THEN lock
    ELSE RemoveAt(lock, CHOOSE i \in DOMAIN lock : lock[i].who = who)

Queued(lock, kind) == {e.who : e \in {f \in ToSet(lock) : f.kind = kind}}
=============================================================================

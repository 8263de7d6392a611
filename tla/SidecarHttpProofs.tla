-------------------------- MODULE SidecarHttpProofs --------------------------
(***************************************************************************)
(* The sidecar's handlers, for any number of calls, lists and reloads, any *)
(* configurations and any results: a call is judged, sent and answered by  *)
(* one configuration, its identity is the verified one, what a redact      *)
(* matches is in no answer, and reloads are seen by those behind them.     *)
(***************************************************************************)
EXTENDS SidecarHttp, SequenceTheorems, WellFoundedInduction, TLAPS

-----------------------------------------------------------------------------
(* The queue of a lock *)

Entries == [who : Requests, kind : {"read", "write"}]

\* What is behind the entry that is removed moves up by one.
LEMMA Removed ==
    ASSUME NEW S, NEW s \in Seq(S), NEW k \in 1..Len(s)
    PROVE  /\ RemoveAt(s, k) \in Seq(S) /\ Len(RemoveAt(s, k)) = Len(s) - 1
           /\ \A i \in 1..(Len(s) - 1) :
                RemoveAt(s, k)[i] = IF i < k THEN s[i] ELSE s[i + 1]
<1>1. Len(s) \in Nat /\ \A i \in 1..Len(s) : s[i] \in S
    BY ElementOfSeq, LenProperties
<1>. DEFINE ahead == SubSeq(s, 1, k - 1)
            behind == SubSeq(s, k + 1, Len(s))
<1>2. ahead \in Seq(S) /\ Len(ahead) = k - 1 /\ \A i \in 1..(k - 1) : ahead[i] = s[i]
    <2>1. \A i \in 1..(k - 1) : s[i] \in S
        BY <1>1
    <2>2. /\ ahead \in Seq(S)
          /\ Len(ahead) = IF 1 <= k - 1 THEN (k - 1) - 1 + 1 ELSE 0
          /\ \A i \in 1..((k - 1) - 1 + 1) : ahead[i] = s[1 + i - 1]
        BY <1>1, <2>1, SubSeqProperties
    <2>3. QED BY <1>1, <2>2
<1>3. /\ behind \in Seq(S) /\ Len(behind) = Len(s) - k
      /\ \A i \in 1..(Len(s) - k) : behind[i] = s[k + i]
    <2>1. \A i \in (k + 1)..Len(s) : s[i] \in S
        BY <1>1
    <2>2. /\ behind \in Seq(S)
          /\ Len(behind) = IF k + 1 <= Len(s) THEN Len(s) - (k + 1) + 1 ELSE 0
          /\ \A i \in 1..(Len(s) - (k + 1) + 1) : behind[i] = s[(k + 1) + i - 1]
        BY <1>1, <2>1, SubSeqProperties
    <2>3. QED BY <1>1, <2>2
<1>4. /\ ahead \o behind \in Seq(S)
      /\ Len(ahead \o behind) = Len(ahead) + Len(behind)
      /\ \A i \in 1..(Len(ahead) + Len(behind)) :
            (ahead \o behind)[i] = IF i <= Len(ahead) THEN ahead[i] ELSE behind[i - Len(ahead)]
    BY <1>2, <1>3, ConcatProperties
<1>5. RemoveAt(s, k) = ahead \o behind
    BY DEF RemoveAt
<1>. HIDE DEF ahead, behind
<1>6. Len(ahead) + Len(behind) = Len(s) - 1
    BY <1>1, <1>2, <1>3
<1>7. ASSUME NEW i \in 1..(Len(s) - 1)
      PROVE  (ahead \o behind)[i] = IF i < k THEN s[i] ELSE s[i + 1]
    <2>1. (ahead \o behind)[i] = IF i <= Len(ahead) THEN ahead[i] ELSE behind[i - Len(ahead)]
        BY <1>4, <1>6
    <2>2. CASE i < k
        BY <1>1, <1>2, <2>1, <2>2
    <2>3. CASE ~(i < k)
        <3>1. i - (k - 1) \in 1..(Len(s) - k) /\ ~(i <= k - 1)
            BY <1>1, <2>3
        <3>2. behind[i - (k - 1)] = s[k + (i - (k - 1))] /\ k + (i - (k - 1)) = i + 1
            BY <1>1, <1>3, <3>1
        <3>3. QED BY <1>2, <2>1, <2>3, <3>1, <3>2
    <2>4. QED BY <2>2, <2>3
<1>8. QED BY <1>4, <1>5, <1>6, <1>7

\* Who leaves has no entry left; the others keep theirs and their order.
LEMMA Left ==
    ASSUME NEW S, NEW s \in Seq([who : S, kind : {"read", "write"}]), NEW r,
           \A i, j \in DOMAIN s : s[i].who = s[j].who => i = j,
           NEW t, t = Without(s, r)
    PROVE  /\ t \in Seq([who : S, kind : {"read", "write"}])
           /\ \A i \in DOMAIN t : t[i].who # r /\ \E k \in DOMAIN s : s[k] = t[i]
           /\ \A k \in DOMAIN s : s[k].who # r => \E i \in DOMAIN t : t[i] = s[k]
           /\ \A i, j \in DOMAIN t :
                i < j => \E k, l \in DOMAIN s : k < l /\ s[k] = t[i] /\ s[l] = t[j]
           /\ \A w : w # r /\ Holds(s, w) => Holds(t, w)
<1>1. DOMAIN s = 1..Len(s) /\ Len(s) \in Nat
    BY LenProperties
<1>2. CASE \A i \in DOMAIN s : s[i].who # r
    BY <1>1, <1>2 DEF Without
<1>3. CASE ~ \A i \in DOMAIN s : s[i].who # r
    <2>1. PICK k \in DOMAIN s : s[k].who = r /\ t = RemoveAt(s, k)
        BY <1>3 DEF Without
    <2>2. /\ t \in Seq([who : S, kind : {"read", "write"}]) /\ Len(t) = Len(s) - 1
          /\ \A i \in 1..(Len(s) - 1) : t[i] = IF i < k THEN s[i] ELSE s[i + 1]
        <3>1. k \in 1..Len(s)
            BY <1>1
        <3>2. /\ RemoveAt(s, k) \in Seq([who : S, kind : {"read", "write"}])
              /\ Len(RemoveAt(s, k)) = Len(s) - 1
              /\ \A i \in 1..(Len(s) - 1) : RemoveAt(s, k)[i] = IF i < k THEN s[i] ELSE s[i + 1]
            BY <3>1, Removed
        <3>3. QED BY <2>1, <3>2
    <2>3. DOMAIN t = 1..(Len(s) - 1)
        BY <2>2, LenProperties
    <2>. DEFINE old == [i \in DOMAIN t |-> IF i < k THEN i ELSE i + 1]
    <2>4. \A i \in DOMAIN t : old[i] \in DOMAIN s /\ old[i] # k /\ t[i] = s[old[i]]
        BY <1>1, <2>2, <2>3
    <2>5. \A i, j \in DOMAIN t : i < j <=> old[i] < old[j]
        BY <1>1, <2>1, <2>3
    <2>6. \A l \in DOMAIN s : l # k => \E i \in DOMAIN t : old[i] = l
        <3>1. SUFFICES ASSUME NEW l \in DOMAIN s, l # k PROVE \E i \in DOMAIN t : old[i] = l
            OBVIOUS
        <3>2. CASE l < k
            BY <1>1, <2>1, <2>3, <3>2
        <3>3. CASE l > k
            <4>1. l - 1 \in DOMAIN t /\ old[l - 1] = l
                BY <1>1, <2>1, <2>3, <3>3
            <4>2. QED BY <4>1
        <3>4. QED BY <1>1, <2>1, <3>1, <3>2, <3>3
    <2>. HIDE DEF old
    <2>7. \A i \in DOMAIN t : t[i].who # r /\ \E l \in DOMAIN s : s[l] = t[i]
        BY <2>1, <2>4
    <2>8. \A l \in DOMAIN s : s[l].who # r => \E i \in DOMAIN t : t[i] = s[l]
        BY <2>1, <2>4, <2>6
    <2>9. \A i, j \in DOMAIN t :
            i < j => \E l, m \in DOMAIN s : l < m /\ s[l] = t[i] /\ s[m] = t[j]
        BY <2>4, <2>5
    <2>10. ASSUME NEW w, w # r, Holds(s, w) PROVE Holds(t, w)
        <3>1. PICK l \in DOMAIN s :
                s[l].who = w /\ \A m \in 1..(l - 1) : s[l].kind = "read" /\ s[m].kind = "read"
            BY <2>10 DEF Holds
        <3>2. PICK i \in DOMAIN t : old[i] = l
            BY <2>1, <2>6, <2>10, <3>1
        <3>3. ASSUME NEW j \in 1..(i - 1) PROVE t[i].kind = "read" /\ t[j].kind = "read"
            <4>1. j \in DOMAIN t /\ j < i
                BY <1>1, <2>3
            <4>2. old[j] \in 1..(l - 1)
                BY <1>1, <2>4, <2>5, <3>2, <4>1
            <4>3. QED BY <2>4, <3>1, <3>2, <4>1, <4>2
        <3>4. QED BY <2>4, <3>1, <3>2, <3>3 DEF Holds
    <2>11. QED BY <2>2, <2>7, <2>8, <2>9, <2>10
<1>4. QED BY <1>2, <1>3

\* Who joins is at the end and keeps nobody from what they hold.
LEMMA Joined ==
    ASSUME NEW s, DOMAIN s = 1..Len(s), Len(s) \in Nat, NEW t,
           \A i \in DOMAIN s : i \in DOMAIN t /\ t[i] = s[i]
    PROVE  \A w : Holds(s, w) => Holds(t, w)
<1>1. SUFFICES ASSUME NEW w, Holds(s, w) PROVE Holds(t, w)
    OBVIOUS
<1>2. PICK l \in DOMAIN s :
        s[l].who = w /\ \A m \in 1..(l - 1) : s[l].kind = "read" /\ s[m].kind = "read"
    BY <1>1 DEF Holds
<1>3. l \in DOMAIN t /\ t[l] = s[l] /\ \A m \in 1..(l - 1) : t[m] = s[m]
    OBVIOUS
<1>4. QED BY <1>2, <1>3 DEF Holds

LEMMA QueuedRequests ==
    ASSUME NEW s \in Seq(Entries)
    PROVE  \A i \in DOMAIN s : s[i].who \in Requests
<1>1. \A i \in DOMAIN s : s[i] \in Entries
    BY LenProperties, ElementOfSeq
<1>2. QED BY <1>1 DEF Entries

\* The same of the sidecar's own lock: a request that ends leaves its queue.
LEMMA LeavingQueue ==
    ASSUME TypeOK, QueueIsKnown, NEW r \in Requests, NEW to \in Ended, Leaves(r, to)
    PROVE  /\ lock' \in Seq(Entries) /\ QueueIsKnown'
           /\ \A i, j \in DOMAIN lock' :
                i < j => \E k, m \in DOMAIN lock : k < m /\ lock[k] = lock'[i] /\ lock[m] = lock'[j]
           /\ \A w : w # r /\ Holds(lock, w) => Holds(lock', w)
<1>1. pc \in [Requests -> {"idle", "resolved", "queued", "calling", "respawning",
                           "loading", "writing"} \cup Ended] /\ pc' = [pc EXCEPT ![r] = to]
    BY DEF TypeOK, Leaves, Goes
<1>2. lock \in Seq(Entries) /\ \A i \in DOMAIN lock : lock[i].who \in Requests
    <2>1. lock \in Seq(Entries)
        BY DEF TypeOK, Entries
    <2>2. QED BY <2>1, QueuedRequests
<1>3. to \notin {"queued", "calling", "writing"}
    BY DEF Ended
<1>4. /\ lock' \in Seq(Entries)
      /\ \A i \in DOMAIN lock' : lock'[i].who # r /\ \E k \in DOMAIN lock : lock[k] = lock'[i]
      /\ \A k \in DOMAIN lock : lock[k].who # r => \E i \in DOMAIN lock' : lock'[i] = lock[k]
      /\ \A i, j \in DOMAIN lock' :
           i < j => \E k, m \in DOMAIN lock : k < m /\ lock[k] = lock'[i] /\ lock[m] = lock'[j]
      /\ \A w : w # r /\ Holds(lock, w) => Holds(lock', w)
    <2>1. \A i, j \in DOMAIN lock : lock[i].who = lock[j].who => i = j
        BY DEF QueueIsKnown
    <2>2. lock' = Without(lock, r)
        BY DEF Leaves
    <2>3. QED BY <1>2, <2>1, <2>2, Left DEF Entries
<1>5. \A i, j \in DOMAIN lock' : lock'[i].who = lock'[j].who => i = j
    <2>1. \A i, j \in DOMAIN lock' : i < j => lock'[i].who # lock'[j].who
        BY <1>2, <1>4 DEF QueueIsKnown
    <2>2. DOMAIN lock' \subseteq Int
        BY <1>4
    <2>3. QED BY <2>1, <2>2
<1>6. \A i \in DOMAIN lock' :
        pc'[lock'[i].who] \in IF lock'[i].kind = "read" THEN {"queued", "calling"} ELSE {"writing"}
    BY <1>1, <1>2, <1>4 DEF QueueIsKnown
<1>7. \A w \in Requests :
        pc'[w] \in {"queued", "calling", "writing"} => \E i \in DOMAIN lock' : lock'[i].who = w
    BY <1>1, <1>3, <1>4 DEF QueueIsKnown
<1>8. QED BY <1>4, <1>5, <1>6, <1>7 DEF QueueIsKnown

\* A request that starts to wait joins it.
LEMMA JoiningQueue ==
    ASSUME TypeOK, QueueIsKnown, NEW r \in Requests, NEW how \in {"read", "write"},
           pc[r] \notin {"queued", "calling", "writing"},
           NEW to, to = IF how = "read" THEN "queued" ELSE "writing", Goes(r, to),
           lock' = Append(lock, QueueEntry(r, how))
    PROVE  /\ lock' \in Seq(Entries) /\ QueueIsKnown'
           /\ DOMAIN lock = 1..Len(lock) /\ Len(lock) \in Nat /\ DOMAIN lock' = 1..(Len(lock) + 1)
           /\ \A i \in DOMAIN lock : lock'[i] = lock[i] /\ lock[i].who # r
           /\ lock'[Len(lock) + 1].who = r
           /\ \A w : Holds(lock, w) => Holds(lock', w)
<1>1. pc \in [Requests -> {"idle", "resolved", "queued", "calling", "respawning",
                           "loading", "writing"} \cup Ended]
      /\ pc' = [pc EXCEPT ![r] = IF how = "read" THEN "queued" ELSE "writing"]
    BY DEF TypeOK, Goes
<1>2. lock \in Seq(Entries) /\ \A i \in DOMAIN lock : lock[i].who \in Requests
    <2>1. lock \in Seq(Entries)
        BY DEF TypeOK, Entries
    <2>2. QED BY <2>1, QueuedRequests
<1>3. /\ lock' \in Seq(Entries)
      /\ DOMAIN lock = 1..Len(lock) /\ Len(lock) \in Nat /\ DOMAIN lock' = 1..(Len(lock) + 1)
      /\ \A i \in 1..Len(lock) : lock'[i] = lock[i]
      /\ lock'[Len(lock) + 1].who = r /\ lock'[Len(lock) + 1].kind = how
      /\ \A w : Holds(lock, w) => Holds(lock', w)
    <2>1. lock \in Seq([who : Requests, kind : {"read", "write"}])
        BY DEF TypeOK
    <2>2. PICK e \in [who : Requests, kind : {"read", "write"}] :
            lock' = Append(lock, e) /\ e.who = r /\ e.kind = how
        BY DEF QueueEntry
    <2>3. /\ lock' \in Seq([who : Requests, kind : {"read", "write"}])
          /\ DOMAIN lock = 1..Len(lock) /\ Len(lock) \in Nat /\ DOMAIN lock' = 1..(Len(lock) + 1)
          /\ \A i \in 1..Len(lock) : lock'[i] = lock[i]
          /\ lock'[Len(lock) + 1] = e
        BY <2>1, <2>2
    <2>4. \A i \in DOMAIN lock : i \in DOMAIN lock' /\ lock'[i] = lock[i]
        BY <2>3
    <2>5. \A w : Holds(lock, w) => Holds(lock', w)
        BY <2>3, <2>4, Joined
    <2>6. QED BY <2>2, <2>3, <2>5 DEF Entries
<1>4. \A i \in DOMAIN lock : lock[i].who # r
    BY <1>1, <1>2 DEF QueueIsKnown
<1>5. \A i \in DOMAIN lock' : i \in DOMAIN lock \/ i = Len(lock) + 1
    BY <1>3
<1>6. \A i, j \in DOMAIN lock' : lock'[i].who = lock'[j].who => i = j
    BY <1>3, <1>4, <1>5 DEF QueueIsKnown
<1>7. \A i \in DOMAIN lock' :
        pc'[lock'[i].who] \in IF lock'[i].kind = "read" THEN {"queued", "calling"} ELSE {"writing"}
    <2>1. ASSUME NEW i \in DOMAIN lock
          PROVE  pc'[lock'[i].who] \in IF lock'[i].kind = "read" THEN {"queued", "calling"} ELSE {"writing"}
        BY <1>1, <1>2, <1>3, <1>4 DEF QueueIsKnown
    <2>2. pc'[r] \in IF how = "read" THEN {"queued", "calling"} ELSE {"writing"}
        BY <1>1
    <2>3. QED BY <1>3, <1>5, <2>1, <2>2
<1>8. \A w \in Requests :
        pc'[w] \in {"queued", "calling", "writing"} => \E i \in DOMAIN lock' : lock'[i].who = w
    <2>1. \A i \in DOMAIN lock : i \in DOMAIN lock' /\ lock'[i] = lock[i]
        BY <1>3
    <2>2. Len(lock) + 1 \in DOMAIN lock'
        BY <1>3
    <2>3. QED BY <1>1, <1>3, <2>1, <2>2 DEF QueueIsKnown
<1>9. QED BY <1>3, <1>4, <1>6, <1>7, <1>8 DEF QueueIsKnown

\* Who moves between points that do not need the lock leaves the queue as it is.
LEMMA KeepingQueue ==
    ASSUME TypeOK, QueueIsKnown, NEW r \in Requests, NEW to, Goes(r, to), lock' = lock,
           \/ pc[r] \notin {"queued", "calling", "writing"}
              /\ to \notin {"queued", "calling", "writing"}
           \/ pc[r] = "queued" /\ to = "calling"
    PROVE  QueueIsKnown'
<1>1. pc \in [Requests -> {"idle", "resolved", "queued", "calling", "respawning",
                           "loading", "writing"} \cup Ended] /\ pc' = [pc EXCEPT ![r] = to]
    BY DEF TypeOK, Goes
<1>2. \A i \in DOMAIN lock : lock[i].who \in Requests
    <2>1. lock \in Seq(Entries)
        BY DEF TypeOK, Entries
    <2>2. QED BY <2>1, QueuedRequests
<1>3. QED BY <1>1, <1>2 DEF QueueIsKnown

-----------------------------------------------------------------------------
(* The middleware *)

\* A file that is there has been written.
LEMMA EditsExist == MaxEdits \in Nat /\ Len(Written) = MaxEdits + 1
<1>1. Len(Written) \in Nat /\ Len(Written) # 0
    BY FileAssumption, LenProperties, EmptySeq
<1>2. QED BY <1>1 DEF MaxEdits

\* Induction over the natural numbers, for a set: where it ends, it ends first.
LEMMA Smallest ==
    ASSUME NEW S \in SUBSET Nat, S # {}
    PROVE  \E k \in S : k = 0 \/ k - 1 \notin S
<1>1. PICK k \in S : \A l \in S : ~(<<l, k>> \in OpToRel(<, Nat))
    BY NatLessThanWellFounded, WFMin, Zenon
<1>2. \A l \in S : ~(l < k)
    BY <1>1 DEF OpToRel
<1>3. k = 0 \/ k - 1 \notin S
    BY <1>2
<1>4. QED BY <1>3

\* Each transform of a chain gets what the one before it has left.
LEMMA InputStepsFollow ==
    ASSUME NEW chain, Len(chain) \in Nat, NEW first
    PROVE  /\ InputSteps(first, chain)[0] = first
           /\ \A i \in 1..Len(chain) :
                InputSteps(first, chain)[i] = TransformInput(InputSteps(first, chain)[i - 1], chain[i])
<1>. DEFINE Follows(f, n) ==
        f = [i \in 0..n |-> IF i = 0 THEN first ELSE TransformInput(f[i - 1], chain[i])]
<1>1. \A n \in Nat : \E f : Follows(f, n)
    <2>. DEFINE Gaps == {n \in Nat : ~ \E f : Follows(f, n)}
    <2>1. SUFFICES ASSUME Gaps # {} PROVE FALSE
        OBVIOUS
    <2>2. PICK n \in Gaps : n = 0 \/ n - 1 \notin Gaps
        BY <2>1, Smallest
    <2>3. CASE n = 0
        <3>1. Follows([i \in 0..0 |-> first], 0)
            OBVIOUS
        <3>2. QED BY <2>2, <2>3, <3>1
    <2>4. CASE n # 0
        <3>1. n - 1 \in Nat /\ n \in Nat
            BY <2>2, <2>4
        <3>2. PICK f : Follows(f, n - 1)
            BY <2>2, <2>4, <3>1
        <3>. DEFINE g == [i \in 0..n |-> IF i = n THEN TransformInput(f[n - 1], chain[n]) ELSE f[i]]
        <3>3. \A i \in 0..(n - 1) : f[i] = IF i = 0 THEN first ELSE TransformInput(f[i - 1], chain[i])
            BY <3>2
        <3>4. ASSUME NEW i \in 0..n
              PROVE  g[i] = IF i = 0 THEN first ELSE TransformInput(g[i - 1], chain[i])
            <4>1. CASE i = n
                <5>1. i # 0 /\ i - 1 \in 0..n /\ i - 1 # n
                    BY <2>4, <3>1, <4>1
                <5>2. g[i - 1] = f[i - 1]
                    BY <5>1
                <5>3. QED BY <4>1, <5>1, <5>2
            <4>2. CASE i # n
                <5>1. i \in 0..(n - 1) /\ g[i] = f[i]
                    BY <3>1, <4>2
                <5>2. i # 0 => i - 1 \in 0..n /\ i - 1 # n /\ g[i - 1] = f[i - 1]
                    BY <3>1, <4>2
                <5>3. QED BY <3>3, <5>1, <5>2
            <4>3. QED BY <4>1, <4>2
        <3>5. g = [i \in 0..n |-> g[i]]
            OBVIOUS
        <3>. HIDE DEF g
        <3>6. Follows(g, n)
            BY <3>4, <3>5
        <3>7. QED BY <2>2, <3>6
    <2>5. QED BY <2>3, <2>4
<1>2. InputSteps(first, chain) = CHOOSE f : Follows(f, Len(chain))
    BY DEF InputSteps
<1>3. Follows(InputSteps(first, chain), Len(chain))
    <2>. HIDE DEF Follows
    <2>1. QED BY <1>1, <1>2
<1>. DEFINE steps == InputSteps(first, chain)
<1>4. steps = [i \in 0..Len(chain) |-> IF i = 0 THEN first ELSE TransformInput(steps[i - 1], chain[i])]
    BY <1>3
<1>. HIDE DEF steps, Follows
<1>5. steps[0] = first
    BY <1>4
<1>6. \A i \in 1..Len(chain) : steps[i] = TransformInput(steps[i - 1], chain[i])
    BY <1>4
<1>7. QED BY <1>5, <1>6 DEF steps

\* So does each output transform.
LEMMA OutputStepsFollow ==
    ASSUME NEW chain, Len(chain) \in Nat, NEW first
    PROVE  /\ OutputSteps(first, chain)[0] = first
           /\ \A i \in 1..Len(chain) :
                OutputSteps(first, chain)[i] = TransformOutput(OutputSteps(first, chain)[i - 1], chain[i])
<1>. DEFINE Follows(f, n) ==
        f = [i \in 0..n |-> IF i = 0 THEN first ELSE TransformOutput(f[i - 1], chain[i])]
<1>1. \A n \in Nat : \E f : Follows(f, n)
    <2>. DEFINE Gaps == {n \in Nat : ~ \E f : Follows(f, n)}
    <2>1. SUFFICES ASSUME Gaps # {} PROVE FALSE
        OBVIOUS
    <2>2. PICK n \in Gaps : n = 0 \/ n - 1 \notin Gaps
        BY <2>1, Smallest
    <2>3. CASE n = 0
        <3>1. Follows([i \in 0..0 |-> first], 0)
            OBVIOUS
        <3>2. QED BY <2>2, <2>3, <3>1
    <2>4. CASE n # 0
        <3>1. n - 1 \in Nat /\ n \in Nat
            BY <2>2, <2>4
        <3>2. PICK f : Follows(f, n - 1)
            BY <2>2, <2>4, <3>1
        <3>. DEFINE g == [i \in 0..n |-> IF i = n THEN TransformOutput(f[n - 1], chain[n]) ELSE f[i]]
        <3>3. \A i \in 0..(n - 1) : f[i] = IF i = 0 THEN first ELSE TransformOutput(f[i - 1], chain[i])
            BY <3>2
        <3>4. ASSUME NEW i \in 0..n
              PROVE  g[i] = IF i = 0 THEN first ELSE TransformOutput(g[i - 1], chain[i])
            <4>1. CASE i = n
                <5>1. i # 0 /\ i - 1 \in 0..n /\ i - 1 # n
                    BY <2>4, <3>1, <4>1
                <5>2. g[i - 1] = f[i - 1]
                    BY <5>1
                <5>3. QED BY <4>1, <5>1, <5>2
            <4>2. CASE i # n
                <5>1. i \in 0..(n - 1) /\ g[i] = f[i]
                    BY <3>1, <4>2
                <5>2. i # 0 => i - 1 \in 0..n /\ i - 1 # n /\ g[i - 1] = f[i - 1]
                    BY <3>1, <4>2
                <5>3. QED BY <3>3, <5>1, <5>2
            <4>3. QED BY <4>1, <4>2
        <3>5. g = [i \in 0..n |-> g[i]]
            OBVIOUS
        <3>. HIDE DEF g
        <3>6. Follows(g, n)
            BY <3>4, <3>5
        <3>7. QED BY <2>2, <3>6
    <2>5. QED BY <2>3, <2>4
<1>2. OutputSteps(first, chain) = CHOOSE f : Follows(f, Len(chain))
    BY DEF OutputSteps
<1>3. Follows(OutputSteps(first, chain), Len(chain))
    <2>. HIDE DEF Follows
    <2>1. QED BY <1>1, <1>2
<1>. DEFINE steps == OutputSteps(first, chain)
<1>4. steps = [i \in 0..Len(chain) |-> IF i = 0 THEN first ELSE TransformOutput(steps[i - 1], chain[i])]
    BY <1>3
<1>. HIDE DEF steps, Follows
<1>5. steps[0] = first
    BY <1>4
<1>6. \A i \in 1..Len(chain) : steps[i] = TransformOutput(steps[i - 1], chain[i])
    BY <1>4
<1>7. QED BY <1>5, <1>6 DEF steps

Steps(of) == {InterpolatedStep(x) : x \in of}

\* The chains of a configuration that was loaded are those of its file, interpolated.
LEMMA ChainsAreLoaded ==
    ASSUME NEW edit \in 0..MaxEdits
    PROVE  /\ Chain(Config(edit), "input") \in Seq(Steps(Transforms))
           /\ Chain(Config(edit), "output") \in Seq(Steps(Transforms))
           /\ Config(edit).global.filters \in Seq(Steps(Filters))
           /\ Config(edit).tool.filters \in Seq(Steps(Filters))
<1>1. PICK written \in Configurations : Config(edit) = Loaded(written)
    <2>1. edit + 1 \in 1..Len(Written)
        BY EditsExist
    <2>2. edit + 1 \in DOMAIN Written /\ Written[edit + 1] \in Configurations
        BY <2>1, FileAssumption, LenProperties, ElementOfSeq
    <2>3. QED BY <2>2 DEF Config, Edits
<1>2. ASSUME NEW S, NEW chain \in Seq(S)
      PROVE  InterpolatedChain(chain) \in Seq(Steps(S))
    <2>1. DOMAIN chain = 1..Len(chain) /\ Len(chain) \in Nat /\ \A i \in 1..Len(chain) : chain[i] \in S
        BY LenProperties, ElementOfSeq
    <2>2. InterpolatedChain(chain) \in [1..Len(chain) -> Steps(S)]
        BY <2>1 DEF InterpolatedChain, Steps
    <2>3. QED BY <2>1, <2>2
<1>3. ASSUME NEW part \in Parts
      PROVE  /\ InterpolatedPart(part).input \in Seq(Steps(Transforms))
             /\ InterpolatedPart(part).output \in Seq(Steps(Transforms))
             /\ InterpolatedPart(part).filters \in Seq(Steps(Filters))
    <2>1. /\ InterpolatedPart(part).input = InterpolatedChain(part.input)
          /\ InterpolatedPart(part).output = InterpolatedChain(part.output)
          /\ InterpolatedPart(part).filters = InterpolatedChain(part.filters)
        BY DEF InterpolatedPart, Parts
    <2>2. /\ part.input \in Seq(Transforms) /\ part.output \in Seq(Transforms)
          /\ part.filters \in Seq(Filters)
        BY DEF Parts
    <2>3. QED BY <1>2, <2>1, <2>2
<1>4. /\ written.global \in Parts /\ written.tool \in Parts
      /\ Config(edit).global = InterpolatedPart(written.global)
      /\ Config(edit).tool = InterpolatedPart(written.tool)
    BY <1>1 DEF Configurations, Loaded
<1>5. Chain(Config(edit), "input") = Config(edit).global.input \o Config(edit).tool.input
    BY DEF Chain
<1>6. Chain(Config(edit), "output") = Config(edit).global.output \o Config(edit).tool.output
    BY DEF Chain
<1>7. /\ Config(edit).global.input \in Seq(Steps(Transforms))
      /\ Config(edit).tool.input \in Seq(Steps(Transforms))
      /\ Config(edit).global.output \in Seq(Steps(Transforms))
      /\ Config(edit).tool.output \in Seq(Steps(Transforms))
    BY <1>3, <1>4
<1>8. /\ Config(edit).global.filters \in Seq(Steps(Filters))
      /\ Config(edit).tool.filters \in Seq(Steps(Filters))
    BY <1>3, <1>4
<1>9. \A s, t \in Seq(Steps(Transforms)) : s \o t \in Seq(Steps(Transforms))
    BY ConcatProperties
<1>10. QED BY <1>5, <1>6, <1>7, <1>8, <1>9

\* An interpolated step keeps its type and its fields.
LEMMA StepsHaveFields ==
    ASSUME NEW step
    PROVE  /\ step \in Steps(Transforms) =>
                /\ step.type \in {"inject", "default"} => {"key", "value"} \subseteq DOMAIN step
                /\ step.type = "rename" => {"from", "to"} \subseteq DOMAIN step
                /\ step.type = "remove" => "key" \in DOMAIN step
           /\ step \in Steps(Filters) =>
                /\ step.type \in {"block", "require"}
<1>1. ASSUME NEW x, "type" \in DOMAIN x, step = InterpolatedStep(x)
      PROVE  DOMAIN step = DOMAIN x /\ step.type = x.type
    BY <1>1 DEF InterpolatedStep
<1>2. ASSUME NEW x \in Transforms
      PROVE  /\ "type" \in DOMAIN x
             /\ x.type \in {"inject", "default"} => {"key", "value"} \subseteq DOMAIN x
             /\ x.type = "rename" => {"from", "to"} \subseteq DOMAIN x
             /\ x.type = "remove" => "key" \in DOMAIN x
    BY DEF Transforms
<1>3. ASSUME NEW x \in Filters PROVE "type" \in DOMAIN x /\ x.type \in {"block", "require"}
    BY DEF Filters
<1>4. QED BY <1>1, <1>2, <1>3 DEF Steps

\* A transform that is not about the identity keeps it.
LEMMA IdentityIsKept ==
    ASSUME NEW step \in Steps(Transforms), NEW now,
           \A f \in DOMAIN step \ {"type", "value"} : step[f] # SmithIdentity,
           SmithIdentity \in DOMAIN now, now[SmithIdentity] = Identity,
           NEW next, next = TransformInput(now, step)
    PROVE  SmithIdentity \in DOMAIN next /\ next[SmithIdentity] = Identity
<1>1. /\ step.type \in {"inject", "default"} => step.key # SmithIdentity
      /\ step.type = "rename" => step.from # SmithIdentity /\ step.to # SmithIdentity
      /\ step.type = "remove" => step.key # SmithIdentity
    BY StepsHaveFields
<1>2. CASE step.type = "inject"
    BY <1>1, <1>2 DEF TransformInput, Put
<1>3. CASE step.type = "default"
    BY <1>1, <1>3 DEF TransformInput, Put
<1>4. CASE step.type = "rename"
    BY <1>1, <1>4 DEF TransformInput, Put, Minus
<1>5. CASE step.type = "remove"
    BY <1>1, <1>5 DEF TransformInput, Minus
<1>6. CASE step.type \notin {"inject", "default", "rename", "remove"}
    BY <1>6 DEF TransformInput
<1>7. QED BY <1>2, <1>3, <1>4, <1>5, <1>6

\* So does a chain of them.
LEMMA IdentityIsKeptByChain ==
    ASSUME NEW chain \in Seq(Steps(Transforms)), NEW first,
           SmithIdentity \notin Touched(chain),
           SmithIdentity \in DOMAIN first, first[SmithIdentity] = Identity
    PROVE  /\ SmithIdentity \in DOMAIN TransformedInput(first, chain)
           /\ TransformedInput(first, chain)[SmithIdentity] = Identity
<1>. DEFINE steps == InputSteps(first, chain)
            Verified(i) == SmithIdentity \in DOMAIN steps[i] /\ steps[i][SmithIdentity] = Identity
            Lost == {i \in 0..Len(chain) : ~Verified(i)}
<1>1. DOMAIN chain = 1..Len(chain) /\ Len(chain) \in Nat
      /\ \A i \in 1..Len(chain) : chain[i] \in Steps(Transforms)
    BY LenProperties, ElementOfSeq
<1>2. steps[0] = first /\ \A i \in 1..Len(chain) : steps[i] = TransformInput(steps[i - 1], chain[i])
    BY <1>1, InputStepsFollow
<1>3. Lost = {}
    <2>1. SUFFICES ASSUME Lost # {} PROVE FALSE
        OBVIOUS
    <2>2. PICK k \in Lost : k = 0 \/ k - 1 \notin Lost
        <3>1. Lost \in SUBSET Nat
            BY <1>1
        <3>2. QED BY <2>1, <3>1, Smallest
    <2>3. k # 0
        BY <1>2, <2>2
    <2>4. k \in 1..Len(chain) /\ k - 1 \in 0..Len(chain)
        BY <1>1, <2>2, <2>3
    <2>5. Verified(k - 1)
        BY <2>2, <2>3, <2>4
    <2>6. \A f \in DOMAIN chain[k] \ {"type", "value"} : chain[k][f] # SmithIdentity
        BY <1>1, <2>4 DEF Touched, ToSet
    <2>7. steps[k] = TransformInput(steps[k - 1], chain[k]) /\ chain[k] \in Steps(Transforms)
        BY <1>1, <1>2, <2>4
    <2>. HIDE DEF steps
    <2>8. Verified(k)
        BY <2>5, <2>6, <2>7, IdentityIsKept
    <2>9. QED BY <2>2, <2>8
<1>4. Len(chain) \in 0..Len(chain)
    BY <1>1
<1>5. QED BY <1>3, <1>4 DEF TransformedInput

\* What is left of a result: paths and leaves whose keys and numbers are in `bare',
\* and, once `words' are redacted, whose texts have no other words of them.
Clean(result, words, bare, redacted) ==
    /\ IsResult(result)
    /\ \A path \in DOMAIN result :
        /\ ToSet(path) \subseteq bare
        /\ result[path].kind = "number" => result[path].words \subseteq bare
        /\ redacted /\ result[path].kind = "text" => result[path].words \cap words \subseteq bare

\* A path is its head and its tail.
LEMMA PathParts ==
    ASSUME NEW S, NEW path \in Seq(S)
    PROVE  /\ \A i \in DOMAIN path : path[i] \in ToSet(path)
           /\ path # << >> =>
                /\ Tail(path) \in Seq(S) /\ ToSet(Tail(path)) \subseteq ToSet(path)
                /\ <<Head(path)>> \o Tail(path) = path
           /\ \A key \in S :
                /\ <<key>> \o path \in Seq(S) /\ Tail(<<key>> \o path) = path
                /\ ToSet(<<key>> \o path) = {key} \cup ToSet(path)
<1>1. DOMAIN path = 1..Len(path) /\ Len(path) \in Nat
    BY LenProperties
<1>2. \A i \in DOMAIN path : path[i] \in ToSet(path)
    BY DEF ToSet
<1>3. ASSUME path # << >>
      PROVE  /\ Tail(path) \in Seq(S) /\ ToSet(Tail(path)) \subseteq ToSet(path)
             /\ <<Head(path)>> \o Tail(path) = path
    <2>1. /\ Head(path) \in S /\ Tail(path) \in Seq(S) /\ Len(Tail(path)) = Len(path) - 1
          /\ \A i \in 1..Len(Tail(path)) : Tail(path)[i] = path[i + 1]
        BY <1>3, HeadTailProperties
    <2>2. DOMAIN Tail(path) = 1..Len(Tail(path)) /\ Len(path) # 0
        BY <1>1, <1>3, <2>1, LenProperties
    <2>3. \A i \in 1..Len(Tail(path)) : i + 1 \in DOMAIN path
        BY <1>1, <2>1
    <2>4. ToSet(Tail(path)) \subseteq ToSet(path)
        BY <2>1, <2>2, <2>3 DEF ToSet
    <2>5. <<Head(path)>> \o Tail(path) = path
        BY <1>3, <2>1
    <2>6. QED BY <2>1, <2>4, <2>5
<1>4. ASSUME NEW key \in S
      PROVE  /\ <<key>> \o path \in Seq(S) /\ Tail(<<key>> \o path) = path
             /\ ToSet(<<key>> \o path) = {key} \cup ToSet(path)
    <2>. DEFINE longer == <<key>> \o path
    <2>1. <<key>> \in Seq(S)
        OBVIOUS
    <2>2. longer \in Seq(S) /\ Len(longer) = Len(path) + 1
        <3>1. longer \in Seq(S) /\ Len(longer) = Len(<<key>>) + Len(path)
            BY <2>1, ConcatProperties
        <3>2. Len(<<key>>) = 1
            OBVIOUS
        <3>3. QED BY <1>1, <3>1, <3>2
    <2>3. longer[1] = key /\ \A i \in 1..Len(path) : longer[i + 1] = path[i]
        BY <1>1
    <2>. HIDE DEF longer
    <2>4. DOMAIN longer = 1..(Len(path) + 1) /\ longer # << >>
        BY <1>1, <2>2, LenProperties, EmptySeq
    <2>5. Tail(longer) = path
        <3>1. Tail(longer) \in Seq(S) /\ Len(Tail(longer)) = Len(path)
              /\ \A i \in 1..Len(Tail(longer)) : Tail(longer)[i] = longer[i + 1]
            BY <1>1, <2>2, <2>4, HeadTailProperties
        <3>2. QED BY <2>3, <3>1, SeqEqual
    <2>6. \A i \in DOMAIN longer : longer[i] = key \/ longer[i] \in ToSet(path)
        <3>1. ASSUME NEW i \in DOMAIN longer, i # 1 PROVE longer[i] \in ToSet(path)
            <4>1. i - 1 \in 1..Len(path) /\ i = (i - 1) + 1
                BY <1>1, <2>4, <3>1
            <4>2. longer[i] = path[i - 1]
                BY <2>3, <4>1
            <4>3. QED BY <1>1, <1>2, <4>1, <4>2
        <3>2. QED BY <2>3, <3>1
    <2>7. key \in ToSet(longer) /\ \A i \in DOMAIN path : path[i] \in ToSet(longer)
        <3>1. 1 \in DOMAIN longer /\ \A i \in 1..Len(path) : i + 1 \in DOMAIN longer
            BY <1>1, <2>4
        <3>2. \A i \in DOMAIN longer : longer[i] \in ToSet(longer)
            BY DEF ToSet
        <3>3. QED BY <1>1, <2>3, <3>1, <3>2
    <2>8. ToSet(longer) = {key} \cup ToSet(path)
        BY <2>6, <2>7 DEF ToSet
    <2>9. QED BY <2>2, <2>5, <2>8 DEF longer
<1>5. QED BY <1>2, <1>3, <1>4

\* Leaves may move to other paths of known keys,
LEMMA MovedIsClean ==
    ASSUME NEW result, NEW words, NEW bare, NEW redacted \in BOOLEAN, Clean(result, words, bare, redacted),
           NEW next, DOMAIN next # {},
           \A path \in DOMAIN next :
             /\ path \in Paths /\ ToSet(path) \subseteq bare
             /\ \E p \in DOMAIN result : next[path] = result[p]
    PROVE  Clean(next, words, bare, redacted)
<1>1. ASSUME NEW path \in DOMAIN next
      PROVE  /\ next[path].kind \in {"text", "number", "null"}
             /\ next[path].kind = "null" => next[path].words = {}
             /\ next[path].kind = "number" => next[path].words \subseteq bare
             /\ redacted /\ next[path].kind = "text" => next[path].words \cap words \subseteq bare
    <2>1. PICK p \in DOMAIN result : next[path] = result[p]
        OBVIOUS
    <2>2. QED BY <2>1 DEF Clean, IsResult
<1>2. QED BY <1>1 DEF Clean, IsResult

\* and the words of all of them may become one text, or none.
LEMMA SingleIsClean ==
    ASSUME NEW words, NEW bare, NEW redacted \in BOOLEAN, NEW next, DOMAIN next = {<< >>},
           next[<< >>].kind = "text" \/ (next[<< >>].kind = "null" /\ next[<< >>].words = {}),
           redacted => next[<< >>].words \cap words \subseteq bare
    PROVE  Clean(next, words, bare, redacted)
<1>1. << >> \in Paths /\ ToSet(<< >>) \subseteq bare
    BY DEF Paths, ToSet
<1>2. QED BY <1>1 DEF Clean, IsResult

\* An extract takes a part of a clean result, or null.
LEMMA ExtractedIsClean ==
    ASSUME NEW result, NEW words, NEW bare, NEW redacted \in BOOLEAN, Clean(result, words, bare, redacted),
           NEW key
    PROVE  Clean(Extracted(result, key), words, bare, redacted)
<1>. DEFINE below == {path \in DOMAIN result : path # << >> /\ Head(path) = key}
            next == Extracted(result, key)
<1>1. CASE key = Empty
    BY <1>1 DEF Extracted
<1>2. CASE key # Empty /\ below = {}
    <2>1. next = [path \in {<< >>} |-> Null]
        BY <1>2 DEF Extracted
    <2>2. DOMAIN next = {<< >>} /\ next[<< >>].kind = "null" /\ next[<< >>].words = {}
        BY <2>1 DEF Null
    <2>3. Clean(next, words, bare, redacted)
        BY <2>2, SingleIsClean
    <2>4. QED BY <2>3
<1>3. CASE key # Empty /\ below # {}
    <2>1. next = [path \in {Tail(p) : p \in below} |-> result[<<key>> \o path]]
        BY <1>3 DEF Extracted
    <2>2. ASSUME NEW p \in below
          PROVE  /\ Tail(p) \in DOMAIN next /\ next[Tail(p)] = result[p]
                 /\ Tail(p) \in Paths /\ ToSet(Tail(p)) \subseteq ToSet(p)
        <3>1. p \in DOMAIN result /\ p \in Paths /\ p # << >> /\ Head(p) = key
            BY DEF Clean, IsResult
        <3>2. Tail(p) \in Paths /\ ToSet(Tail(p)) \subseteq ToSet(p) /\ <<key>> \o Tail(p) = p
            BY <3>1, PathParts DEF Paths
        <3>3. QED BY <2>1, <3>2
    <2>3. DOMAIN next = {Tail(p) : p \in below}
        BY <2>1
    <2>4. below \subseteq DOMAIN result
        OBVIOUS
    <2>. HIDE DEF next, below
    <2>5. DOMAIN next # {}
        BY <1>3, <2>3
    <2>6. ASSUME NEW path \in DOMAIN next
          PROVE  /\ path \in Paths /\ ToSet(path) \subseteq bare
                 /\ \E p \in DOMAIN result : next[path] = result[p]
        <3>1. PICK p \in below : path = Tail(p)
            BY <2>3
        <3>2. p \in DOMAIN result /\ ToSet(p) \subseteq bare
            BY <2>4 DEF Clean
        <3>3. QED BY <2>2, <3>1, <3>2
    <2>7. Clean(next, words, bare, redacted)
        BY <2>5, <2>6, MovedIsClean
    <2>8. QED BY <2>7 DEF next
<1>4. QED BY <1>1, <1>2, <1>3

LeafRedacted(leaf, of, taken, put) ==
    /\ leaf.kind = of.kind
    /\ leaf.kind # "text" => leaf.words = of.words
    /\ \/ leaf.words = of.words /\ (leaf.kind = "text" => leaf.words \cap taken = {})
       \/ leaf.words = (of.words \ taken) \cup {put}

\* A redact takes its words from the texts, and leaves what another one has taken out.
LEMMA RedactedIsClean ==
    ASSUME NEW result, NEW words, NEW bare, NEW redacted \in BOOLEAN,
           Clean(result, words, bare, redacted),
           NEW taken, NEW put, put \in bare
    PROVE  /\ Clean(Redacted(result, taken, put), words, bare, redacted)
           /\ Clean(Redacted(result, words, put), words, bare, TRUE)
<1>1. ASSUME NEW some
      PROVE  /\ DOMAIN Redacted(result, some, put) = DOMAIN result
             /\ \A path \in DOMAIN result :
                 LeafRedacted(Redacted(result, some, put)[path], result[path], some, put)
    BY DEF Redacted, Text, LeafRedacted
<1>2. ASSUME NEW some PROVE IsResult(Redacted(result, some, put))
    <2>. DEFINE next == Redacted(result, some, put)
    <2>1. /\ DOMAIN next = DOMAIN result
          /\ \A path \in DOMAIN result :
                next[path].kind = result[path].kind
                /\ (next[path].kind # "text" => next[path].words = result[path].words)
        BY <1>1 DEF LeafRedacted
    <2>. HIDE DEF next
    <2>2. IsResult(next)
        BY <2>1 DEF Clean, IsResult
    <2>3. QED BY <2>2 DEF next
<1>3. Clean(Redacted(result, taken, put), words, bare, redacted)
    <2>. DEFINE next == Redacted(result, taken, put)
    <2>1. /\ DOMAIN next = DOMAIN result
          /\ \A path \in DOMAIN result : LeafRedacted(next[path], result[path], taken, put)
        BY <1>1
    <2>2. IsResult(next)
        BY <1>2
    <2>. HIDE DEF next
    <2>3. Clean(next, words, bare, redacted)
        BY <2>1, <2>2 DEF Clean, LeafRedacted
    <2>4. QED BY <2>3 DEF next
<1>4. Clean(Redacted(result, words, put), words, bare, TRUE)
    <2>. DEFINE next == Redacted(result, words, put)
    <2>1. /\ DOMAIN next = DOMAIN result
          /\ \A path \in DOMAIN result : LeafRedacted(next[path], result[path], words, put)
        BY <1>1
    <2>2. IsResult(next)
        BY <1>2
    <2>. HIDE DEF next
    <2>3. Clean(next, words, bare, TRUE)
        BY <2>1, <2>2 DEF Clean, LeafRedacted
    <2>4. QED BY <2>3 DEF next
<1>5. QED BY <1>3, <1>4

\* A template adds its key, or makes one text of everything.
LEMMA RenderedIsClean ==
    ASSUME NEW result, NEW words, NEW bare, NEW redacted \in BOOLEAN, Clean(result, words, bare, redacted),
           NEW template, template \in DOMAIN Wraps => Wraps[template] \in bare
    PROVE  Clean(Rendered(result, template), words, bare, redacted)
<1>. DEFINE next == Rendered(result, template)
<1>1. CASE template \in DOMAIN Wraps
    <2>. DEFINE key == Wraps[template]
    <2>1. next = [path \in {<<key>> \o p : p \in DOMAIN result} |-> result[Tail(path)]]
        BY <1>1 DEF Rendered
    <2>2. key \in STRING /\ key \in bare
        BY <1>1, WrapAssumption
    <2>3. ASSUME NEW p \in DOMAIN result
          PROVE  /\ <<key>> \o p \in DOMAIN next /\ next[<<key>> \o p] = result[p]
                 /\ <<key>> \o p \in Paths /\ ToSet(<<key>> \o p) = {key} \cup ToSet(p)
        <3>1. p \in Paths
            BY DEF Clean, IsResult
        <3>2. /\ <<key>> \o p \in Paths /\ Tail(<<key>> \o p) = p
              /\ ToSet(<<key>> \o p) = {key} \cup ToSet(p)
            <4>1. p \in Seq(STRING)
                BY <3>1 DEF Paths
            <4>2. \A k \in STRING :
                    /\ <<k>> \o p \in Seq(STRING) /\ Tail(<<k>> \o p) = p
                    /\ ToSet(<<k>> \o p) = {k} \cup ToSet(p)
                BY <4>1, PathParts
            <4>3. QED BY <2>2, <4>2 DEF Paths
        <3>3. QED BY <2>1, <3>2
    <2>4. DOMAIN next = {<<key>> \o p : p \in DOMAIN result}
        BY <2>1
    <2>. HIDE DEF next, key
    <2>5. DOMAIN next # {}
        BY <2>4 DEF Clean, IsResult
    <2>6. ASSUME NEW path \in DOMAIN next
          PROVE  /\ path \in Paths /\ ToSet(path) \subseteq bare
                 /\ \E p \in DOMAIN result : next[path] = result[p]
        <3>1. PICK p \in DOMAIN result : path = <<key>> \o p
            BY <2>4
        <3>2. ToSet(p) \subseteq bare
            BY DEF Clean
        <3>3. QED BY <2>2, <2>3, <3>1, <3>2
    <2>7. Clean(next, words, bare, redacted)
        BY <2>5, <2>6, MovedIsClean
    <2>8. QED BY <2>7 DEF next
<1>2. CASE template \notin DOMAIN Wraps
    <2>. DEFINE all == UNION ({ToSet(p) : p \in DOMAIN result} \cup {result[p].words : p \in DOMAIN result})
    <2>1. next = [path \in {<< >>} |-> Text(all)]
        BY <1>2 DEF Rendered
    <2>2. DOMAIN next = {<< >>} /\ next[<< >>].kind = "text" /\ next[<< >>].words = all
        BY <2>1 DEF Text
    <2>4. ASSUME redacted, NEW w \in all, w \in words PROVE w \in bare
        <3>1. PICK p \in DOMAIN result : w \in ToSet(p) \/ w \in result[p].words
            OBVIOUS
        <3>2. result[p].kind \in {"text", "number", "null"} /\ (result[p].kind = "null" => result[p].words = {})
            BY DEF Clean, IsResult
        <3>3. QED BY <2>4, <3>1, <3>2 DEF Clean
    <2>. HIDE DEF next, all
    <2>5. redacted => next[<< >>].words \cap words \subseteq bare
        BY <2>2, <2>4
    <2>6. Clean(next, words, bare, redacted)
        BY <2>2, <2>5, SingleIsClean
    <2>7. QED BY <2>6 DEF next
<1>3. QED BY <1>1, <1>2

\* After a redact, to the end of its chain, a result is clean of what it matches.
LEMMA RedactsLast ==
    ASSUME NEW S, NEW chain \in Seq(S), NEW first, NEW bare,
           \A words : Clean(first, words, bare, FALSE),
           \A i \in 1..Len(chain) :
             /\ chain[i].type = "redact" => chain[i].replacement \in bare
             /\ chain[i].type = "template" /\ chain[i].template \in DOMAIN Wraps
                => Wraps[chain[i].template] \in bare,
           NEW k \in 1..Len(chain), chain[k].type = "redact",
           TransformedOutput(first, chain) # << >>
    PROVE  /\ chain[k].pattern \in DOMAIN Regexes
           /\ Clean(TransformedOutput(first, chain), Regexes[chain[k].pattern], bare, TRUE)
<1>. DEFINE steps == OutputSteps(first, chain)
            words == Regexes[chain[k].pattern]
            Good(i) == \/ steps[i] = << >>
                       \/ /\ Clean(steps[i], words, bare, i >= k)
                          /\ i >= k => chain[k].pattern \in DOMAIN Regexes
            Bad == {i \in 0..Len(chain) : ~Good(i)}
<1>1. Len(chain) \in Nat
    BY LenProperties
<1>2. steps[0] = first /\ \A i \in 1..Len(chain) : steps[i] = TransformOutput(steps[i - 1], chain[i])
    BY <1>1, OutputStepsFollow
<1>. HIDE DEF steps
<1>3. ASSUME NEW i \in 1..Len(chain), Good(i - 1) PROVE Good(i)
    <2>. DEFINE step == chain[i]
                next == steps[i]
                last == steps[i - 1]
    <2>1. next = TransformOutput(last, step)
        BY <1>2
    <2>2. i \in Nat /\ k \in Nat
        BY <1>1
    <2>3. CASE last = << >>
        BY <2>1, <2>3 DEF TransformOutput
    <2>4. CASE last # << >> /\ i = k
        <3>1. Clean(last, words, bare, FALSE) /\ step.type = "redact" /\ step.replacement \in bare
            <4>1. (i - 1 >= k) = FALSE
                BY <2>2, <2>4
            <4>2. Clean(last, words, bare, i - 1 >= k)
                BY <1>3, <2>4
            <4>. HIDE DEF last, words
            <4>3. Clean(last, words, bare, FALSE)
                BY <4>1, <4>2
            <4>4. QED BY <2>4, <4>3 DEF step
        <3>2. next = IF step.pattern \in DOMAIN Regexes
                     THEN Redacted(last, Regexes[step.pattern], step.replacement) ELSE << >>
            BY <2>1, <2>4, <3>1 DEF TransformOutput
        <3>3. CASE step.pattern \in DOMAIN Regexes
            <4>1. next = Redacted(last, words, step.replacement)
                BY <2>4, <3>2, <3>3
            <4>. HIDE DEF next, last, words, step
            <4>2. Clean(next, words, bare, TRUE)
                BY <3>1, <4>1, RedactedIsClean
            <4>3. (i >= k) = TRUE
                BY <2>2, <2>4
            <4>4. QED BY <2>4, <3>3, <4>2, <4>3 DEF next, step
        <3>4. CASE step.pattern \notin DOMAIN Regexes
            BY <3>2, <3>4
        <3>5. QED BY <3>3, <3>4
    <2>5. CASE last # << >> /\ i # k
        <3>. DEFINE redacted == i >= k
        <3>1. redacted \in BOOLEAN /\ (i - 1 >= k) = redacted
            BY <2>2, <2>5
        <3>2. Clean(last, words, bare, redacted) /\ (redacted => chain[k].pattern \in DOMAIN Regexes)
            BY <1>3, <2>5, <3>1
        <3>. HIDE DEF redacted, words
        <3>3. next = << >> \/ Clean(next, words, bare, redacted)
            <4>1. CASE step.type = "extract"
                <5>1. next = Extracted(last, step.pointer)
                    BY <2>1, <2>5, <4>1 DEF TransformOutput
                <5>2. QED BY <3>1, <3>2, <5>1, ExtractedIsClean
            <4>2. CASE step.type = "redact"
                <5>1. \/ next = << >>
                      \/ next = Redacted(last, Regexes[step.pattern], step.replacement)
                    BY <2>1, <2>5, <4>2 DEF TransformOutput
                <5>2. step.replacement \in bare
                    BY <4>2
                <5>3. Clean(Redacted(last, Regexes[step.pattern], step.replacement), words, bare, redacted)
                    BY <3>1, <3>2, <5>2, RedactedIsClean
                <5>4. QED BY <5>1, <5>3
            <4>3. CASE step.type = "template"
                <5>1. next = Rendered(last, step.template)
                    BY <2>1, <2>5, <4>3 DEF TransformOutput
                <5>2. step.template \in DOMAIN Wraps => Wraps[step.template] \in bare
                    BY <4>3
                <5>3. QED BY <3>1, <3>2, <5>1, <5>2, RenderedIsClean
            <4>4. CASE step.type \notin {"extract", "redact", "template"}
                <5>1. next = last
                    BY <2>1, <2>5, <4>4 DEF TransformOutput
                <5>2. QED BY <3>2, <5>1
            <4>5. QED BY <4>1, <4>2, <4>3, <4>4
        <3>4. QED BY <3>2, <3>3 DEF redacted
    <2>6. QED BY <2>3, <2>4, <2>5
<1>4. Good(0)
    <2>1. (0 >= k) = FALSE
        BY <1>1
    <2>2. Clean(first, words, bare, FALSE)
        OBVIOUS
    <2>3. Clean(first, words, bare, 0 >= k)
        BY <2>1, <2>2
    <2>4. QED BY <1>2, <2>1, <2>3
<1>. HIDE DEF Good
<1>5. Bad = {}
    <2>1. SUFFICES ASSUME Bad # {} PROVE FALSE
        OBVIOUS
    <2>2. Bad \in SUBSET Nat
        BY <1>1
    <2>3. PICK i \in Bad : i = 0 \/ i - 1 \notin Bad
        BY <2>1, <2>2, Smallest
    <2>4. i # 0
        BY <1>4, <2>3
    <2>5. i \in 1..Len(chain) /\ i - 1 \in 0..Len(chain)
        BY <1>1, <2>3, <2>4
    <2>6. Good(i - 1)
        BY <2>3, <2>4, <2>5
    <2>7. QED BY <1>3, <2>3, <2>5, <2>6
<1>6. Good(Len(chain)) /\ (Len(chain) >= k) = TRUE
    BY <1>1, <1>5
<1>7. TransformedOutput(first, chain) = steps[Len(chain)]
    BY DEF TransformedOutput, steps
<1>8. QED BY <1>6, <1>7 DEF Good

-----------------------------------------------------------------------------
(* Each action keeps the invariant *)

PcFits ==
    /\ pc \in [Requests -> {"idle", "resolved", "queued", "calling", "respawning",
                            "loading", "writing"} \cup Ended]
    /\ \A c \in Calls : pc[c] \notin {"respawning", "loading", "writing", "reloaded"}
    /\ \A l \in Lists : pc[l] \in {"idle", "queued", "answered", "dropped"}
    /\ \A r \in Reloads : pc[r] \notin {"resolved", "queued", "calling", "refused", "answered"}

LEMMA PcKeeps ==
    ASSUME TypeOK, NEW r \in Requests, NEW to, Goes(r, to),
           \/ r \in Calls /\ to \in {"resolved", "queued", "calling", "refused",
                                    "answered", "failed", "dropped"}
           \/ r \in Lists /\ to \in {"queued", "answered", "dropped"}
           \/ r \in Reloads /\ to \in {"respawning", "loading", "writing", "failed",
                                      "reloaded", "dropped"}
    PROVE  /\ PcFits'
           /\ r \in DOMAIN pc /\ pc'[r] = to /\ \A q \in Requests : q # r => pc'[q] = pc[q]
<1>1. PcFits
    BY DEF TypeOK, PcFits
<1>2. (Calls \cap Lists = {} /\ (Calls \cup Lists) \cap Reloads = {})
      /\ Requests = Calls \cup Lists \cup Reloads
    BY RequestAssumption DEF Requests
<1>3. pc' = [pc EXCEPT ![r] = to]
    BY DEF Goes
<1>4. QED BY <1>1, <1>2, <1>3 DEF PcFits, Ended


\* Whoever waits behind a write does so whoever leaves the queue,
LEMMA WaitsLeaving ==
    ASSUME TypeOK, WaitsBehind, NEW r \in Requests, NEW to \in Ended,
           pc'[r] = to, \A q \in Requests : q # r => pc'[q] = pc[q],
           r \in Reloads /\ pc[r] \in {"writing", "reloaded", "dropped"} => to \in {"reloaded", "dropped"},
           lock' \in Seq(Entries),
           \A i, j \in DOMAIN lock' :
             i < j => \E k, m \in DOMAIN lock : k < m /\ lock[k] = lock'[i] /\ lock[m] = lock'[j],
           after' = after,
           \A w \in Calls \cup Lists : seen'[w] = seen[w] \/ \A q \in after[w] : pc[q] # "writing"
    PROVE  WaitsBehind'
<1>1. \A w \in Calls \cup Lists : w \in Requests /\ after[w] \subseteq Reloads /\ w \notin Reloads
    BY RequestAssumption DEF TypeOK, Requests
<1>2. Reloads \subseteq Requests /\ to \notin {"queued", "writing"}
    BY DEF Requests, Ended
<1>3. DOMAIN lock' \subseteq Int /\ DOMAIN lock \subseteq Int
    <2>1. lock \in Seq(Entries)
        BY DEF TypeOK, Entries
    <2>2. QED BY <2>1, LenProperties
<1>4. SUFFICES ASSUME NEW w \in Calls \cup Lists
      PROVE  /\ \A q \in after[w] : pc'[q] \in {"writing", "reloaded", "dropped"}
             /\ pc'[w] = "queued" =>
                 \A i, j \in DOMAIN lock' : lock'[i].who \in after[w] /\ lock'[j].who = w => i < j
             /\ seen'[w] # None => \A q \in after[w] : pc'[q] # "writing"
    BY DEF WaitsBehind
<1>5. \A q \in after[w] : pc'[q] \in {"writing", "reloaded", "dropped"}
    BY <1>1, <1>2 DEF WaitsBehind
<1>6. ASSUME pc'[w] = "queued", NEW i \in DOMAIN lock', NEW j \in DOMAIN lock',
             lock'[i].who \in after[w], lock'[j].who = w
      PROVE  i < j
    <2>1. pc[w] = "queued"
        BY <1>1, <1>2, <1>6
    <2>2. ~(j < i)
        <3>1. SUFFICES ASSUME j < i PROVE FALSE
            OBVIOUS
        <3>2. PICK k \in DOMAIN lock, l \in DOMAIN lock : k < l /\ lock[k] = lock'[j] /\ lock[l] = lock'[i]
            BY <3>1
        <3>3. l < k
            BY <1>6, <2>1, <3>2 DEF WaitsBehind
        <3>4. QED BY <1>3, <3>2, <3>3
    <2>3. i # j
        BY <1>1, <1>6
    <2>4. QED BY <1>3, <2>2, <2>3
<1>7. seen'[w] # None => \A q \in after[w] : pc'[q] # "writing"
    BY <1>1, <1>2 DEF WaitsBehind
<1>8. QED BY <1>5, <1>6, <1>7

\* whoever moves outside of it,
LEMMA WaitsStaying ==
    ASSUME TypeOK, WaitsBehind, NEW r \in Requests, NEW to,
           pc'[r] = to, \A q \in Requests : q # r => pc'[q] = pc[q],
           pc[r] \notin {"writing", "reloaded", "dropped"}, to # "queued",
           lock' = lock, after' = after, seen' = seen
    PROVE  WaitsBehind'
<1>1. \A w \in Calls \cup Lists : w \in Requests /\ after[w] \subseteq Reloads
    BY DEF TypeOK, Requests
<1>2. Reloads \subseteq Requests
    BY DEF Requests
<1>3. QED BY <1>1, <1>2 DEF WaitsBehind

\* and whichever reload joins it.
LEMMA WaitsJoining ==
    ASSUME TypeOK, WaitsBehind, NEW r \in Reloads,
           \A q \in Requests : q # r => pc'[q] = pc[q],
           pc[r] \notin {"writing", "reloaded", "dropped"},
           DOMAIN lock = 1..Len(lock), Len(lock) \in Nat, DOMAIN lock' = 1..(Len(lock) + 1),
           \A i \in DOMAIN lock : lock'[i] = lock[i],
           lock'[Len(lock) + 1].who = r,
           after' = after, seen' = seen
    PROVE  WaitsBehind'
<1>1. \A w \in Calls \cup Lists : w \in Requests /\ after[w] \subseteq Reloads /\ w \notin Reloads
    BY RequestAssumption DEF TypeOK, Requests
<1>2. Reloads \subseteq Requests
    BY DEF Requests
<1>3. SUFFICES ASSUME NEW w \in Calls \cup Lists
      PROVE  /\ \A q \in after[w] : pc'[q] \in {"writing", "reloaded", "dropped"}
             /\ pc'[w] = "queued" =>
                 \A i, j \in DOMAIN lock' : lock'[i].who \in after[w] /\ lock'[j].who = w => i < j
             /\ seen'[w] # None => \A q \in after[w] : pc'[q] # "writing"
    BY DEF WaitsBehind
<1>4. r \notin after[w] /\ w # r
    BY <1>1 DEF WaitsBehind
<1>5. \A q \in after[w] : pc'[q] = pc[q]
    BY <1>1, <1>2, <1>4
<1>6. pc'[w] = pc[w]
    BY <1>1, <1>4
<1>7. \A i \in DOMAIN lock' : i \in DOMAIN lock \/ lock'[i].who = r
    OBVIOUS
<1>8. ASSUME pc'[w] = "queued", NEW i \in DOMAIN lock', NEW j \in DOMAIN lock',
             lock'[i].who \in after[w], lock'[j].who = w
      PROVE  i < j
    <2>1. i \in DOMAIN lock /\ j \in DOMAIN lock
        BY <1>4, <1>7, <1>8
    <2>2. QED BY <1>6, <1>8, <2>1 DEF WaitsBehind
<1>9. QED BY <1>5, <1>8 DEF WaitsBehind


\* A call or list that joins is behind the writes that it is to wait for.
LEMMA WaitsNewly ==
    ASSUME TypeOK, WaitsBehind, NEW r \in Calls \cup Lists,
           pc'[r] = "queued", \A q \in Requests : q # r => pc'[q] = pc[q],
           DOMAIN lock = 1..Len(lock), Len(lock) \in Nat, DOMAIN lock' = 1..(Len(lock) + 1),
           \A i \in DOMAIN lock : lock'[i] = lock[i] /\ lock[i].who # r,
           lock'[Len(lock) + 1].who = r,
           after' = [after EXCEPT ![r] = {q \in Reloads : pc[q] \in {"writing", "reloaded"}}],
           seen' = seen, seen[r] = None
    PROVE  WaitsBehind'
<1>1. \A w \in Calls \cup Lists : w \in Requests /\ after[w] \subseteq Reloads /\ w \notin Reloads
    BY RequestAssumption DEF TypeOK, Requests
<1>2. Reloads \subseteq Requests
    BY DEF Requests
<1>3. /\ after'[r] = {q \in Reloads : pc[q] \in {"writing", "reloaded"}}
      /\ \A w \in Calls \cup Lists : w # r => after'[w] = after[w]
    BY DEF TypeOK
<1>4. \A i \in DOMAIN lock' : i \in DOMAIN lock \/ i = Len(lock) + 1
    OBVIOUS
<1>5. SUFFICES ASSUME NEW w \in Calls \cup Lists
      PROVE  /\ \A q \in after'[w] : pc'[q] \in {"writing", "reloaded", "dropped"}
             /\ pc'[w] = "queued" =>
                 \A i, j \in DOMAIN lock' : lock'[i].who \in after'[w] /\ lock'[j].who = w => i < j
             /\ seen'[w] # None => \A q \in after'[w] : pc'[q] # "writing"
    BY DEF WaitsBehind
<1>6. CASE w = r
    <2>1. \A q \in after'[w] : q \in Reloads /\ pc'[q] = pc[q] /\ pc[q] \in {"writing", "reloaded"}
        BY <1>1, <1>2, <1>3, <1>6
    <2>2. ASSUME NEW i \in DOMAIN lock', NEW j \in DOMAIN lock', lock'[i].who \in after'[w], lock'[j].who = w
          PROVE  i < j
        <3>1. i \in DOMAIN lock
            BY <1>1, <1>4, <1>6, <2>1, <2>2
        <3>2. j = Len(lock) + 1
            BY <1>4, <1>6, <2>2
        <3>3. QED BY <3>1, <3>2
    <2>3. QED BY <1>6, <2>1, <2>2
<1>7. CASE w # r
    <2>1. after'[w] = after[w] /\ pc'[w] = pc[w] /\ \A q \in after[w] : pc'[q] = pc[q]
        BY <1>1, <1>2, <1>3, <1>7
    <2>2. ASSUME pc'[w] = "queued", NEW i \in DOMAIN lock', NEW j \in DOMAIN lock',
                 lock'[i].who \in after'[w], lock'[j].who = w
          PROVE  i < j
        <3>1. i \in DOMAIN lock /\ j \in DOMAIN lock
            BY <1>1, <1>4, <1>7, <2>1, <2>2
        <3>2. QED BY <2>1, <2>2, <3>1 DEF WaitsBehind
    <2>3. QED BY <2>1, <2>2 DEF WaitsBehind
<1>8. QED BY <1>6, <1>7

\* When it is let in, they are over.
LEMMA WritesAreOver ==
    ASSUME TypeOK, QueueIsKnown, WaitsBehind, NEW r \in Calls \cup Lists,
           pc[r] = "queued", Holds(lock, r)
    PROVE  \A q \in after[r] : pc[q] # "writing"
<1>1. SUFFICES ASSUME NEW q \in after[r], pc[q] = "writing" PROVE FALSE
    OBVIOUS
<1>2. q \in Requests /\ lock \in Seq(Entries)
    BY DEF TypeOK, Requests, Entries
<1>3. PICK i \in DOMAIN lock : lock[i].who = q
    BY <1>1, <1>2 DEF QueueIsKnown
<1>4. lock[i].kind # "read"
    BY <1>1, <1>3 DEF QueueIsKnown
<1>5. PICK j \in DOMAIN lock :
        lock[j].who = r /\ \A m \in 1..(j - 1) : lock[j].kind = "read" /\ lock[m].kind = "read"
    BY DEF Holds
<1>6. i < j
    BY <1>3, <1>5 DEF WaitsBehind
<1>7. i \in 1..(j - 1)
    BY <1>2, <1>6, LenProperties
<1>8. QED BY <1>4, <1>5, <1>7

\* Who may write is alone.
LEMMA WriterIsAlone ==
    ASSUME TypeOK, QueueIsKnown, CallersHold, NEW r \in Reloads, pc[r] = "writing", Holds(lock, r)
    PROVE  \A c \in Calls : pc[c] # "calling"
<1>1. SUFFICES ASSUME NEW c \in Calls, pc[c] = "calling" PROVE FALSE
    OBVIOUS
<1>2. lock \in Seq(Entries)
    BY DEF TypeOK, Entries
<1>3. DOMAIN lock \subseteq Nat /\ \A i \in DOMAIN lock : i >= 1 /\ 1..i \subseteq DOMAIN lock
    BY <1>2, LenProperties
<1>4. PICK i \in DOMAIN lock :
        lock[i].who = r /\ \A m \in 1..(i - 1) : lock[i].kind = "read" /\ lock[m].kind = "read"
    BY DEF Holds
<1>5. PICK j \in DOMAIN lock :
        lock[j].who = c /\ \A m \in 1..(j - 1) : lock[j].kind = "read" /\ lock[m].kind = "read"
    BY <1>1 DEF Holds, CallersHold
<1>6. lock[i].kind # "read"
    BY <1>4 DEF QueueIsKnown
<1>7. i = 1
    BY <1>3, <1>4, <1>6
<1>8. j # i
    BY <1>1, <1>4, <1>5
<1>9. 1 \in 1..(j - 1)
    BY <1>3, <1>7, <1>8
<1>10. QED BY <1>5, <1>6, <1>7, <1>9


\* A call that fails leaves the queue.
LEMMA BrokenKeeps ==
    ASSUME Inductive, NEW c \in Calls, Broken(c)
    PROVE  Inductive'
<1>1. /\ c \in Requests /\ c \notin Lists /\ c \notin Reloads
      /\ TypeOK /\ QueueIsKnown /\ CallersHold /\ CallsAreJudged /\ OverlapIsKnown
      /\ ReloadsLoadOnwards /\ WaitsBehind /\ ReloadTakesEffect /\ SeesReload
      /\ Requests = Calls \cup Lists \cup Reloads /\ (Calls \cup Lists) \cap Reloads = {}
      /\ \A q \in Calls \cup Lists : after[q] \subseteq Reloads
    BY RequestAssumption DEF Requests, Inductive, TypeOK
<1>2. PICK to \in {"failed"} : Leaves(c, to)
    BY <1>1 DEF Broken
<1>3. PcFits' /\ pc'[c] = to /\ \A q \in Requests : q # c => pc'[q] = pc[q]
    BY <1>1, <1>2, PcKeeps DEF Leaves
<1>4. /\ lock' \in Seq(Entries) /\ QueueIsKnown'
      /\ \A i, j \in DOMAIN lock' :
           i < j => \E k, m \in DOMAIN lock : k < m /\ lock[k] = lock'[i] /\ lock[m] = lock'[j]
      /\ \A w : w # c /\ Holds(lock, w) => Holds(lock', w)
    <2>1. to \in Ended
        BY DEF Ended
    <2>2. QED BY <1>1, <1>2, <2>1, LeavingQueue
<1>5. UNCHANGED <<mw, file, args, sent, given, answer, seen, after, loaded, overlapped>>
    BY DEF Broken, data, judged, reloading
<1>6. TypeOK'
    BY <1>1, <1>2, <1>3, <1>4, <1>5 DEF TypeOK, PcFits, Entries
<1>7. QueueIsKnown'
    BY <1>4
<1>8. CallersHold'
    BY <1>1, <1>2, <1>3, <1>4, <1>5 DEF CallersHold
<1>9. CallsAreJudged'
    BY <1>1, <1>2, <1>3, <1>4, <1>5 DEF CallsAreJudged
<1>10. OverlapIsKnown'
    BY <1>1, <1>2, <1>3, <1>4, <1>5 DEF OverlapIsKnown, InProgress, Ended
<1>11. ReloadsLoadOnwards'
    BY <1>1, <1>2, <1>3, <1>4, <1>5 DEF ReloadsLoadOnwards, InProgress, Ended
<1>12. WaitsBehind'
    BY <1>1, <1>2, <1>3, <1>4, <1>5, WaitsLeaving DEF Ended
<1>13. ReloadTakesEffect'
    BY <1>1, <1>2, <1>3, <1>4, <1>5 DEF ReloadTakesEffect
<1>14. SeesReload'
    BY <1>1, <1>2, <1>3, <1>4, <1>5 DEF SeesReload
<1>15. QED BY <1>6, <1>7, <1>8, <1>9, <1>10, <1>11, <1>12, <1>13, <1>14 DEF Inductive

\* So does one that times out.
LEMMA CallTimeoutKeeps ==
    ASSUME Inductive, NEW c \in Calls, CallTimeout(c)
    PROVE  Inductive'
<1>1. /\ c \in Requests /\ c \notin Lists /\ c \notin Reloads
      /\ TypeOK /\ QueueIsKnown /\ CallersHold /\ CallsAreJudged /\ OverlapIsKnown
      /\ ReloadsLoadOnwards /\ WaitsBehind /\ ReloadTakesEffect /\ SeesReload
      /\ Requests = Calls \cup Lists \cup Reloads /\ (Calls \cup Lists) \cap Reloads = {}
      /\ \A q \in Calls \cup Lists : after[q] \subseteq Reloads
    BY RequestAssumption DEF Requests, Inductive, TypeOK
<1>2. PICK to \in {"failed"} : Leaves(c, to)
    BY <1>1 DEF CallTimeout
<1>3. PcFits' /\ pc'[c] = to /\ \A q \in Requests : q # c => pc'[q] = pc[q]
    BY <1>1, <1>2, PcKeeps DEF Leaves
<1>4. /\ lock' \in Seq(Entries) /\ QueueIsKnown'
      /\ \A i, j \in DOMAIN lock' :
           i < j => \E k, m \in DOMAIN lock : k < m /\ lock[k] = lock'[i] /\ lock[m] = lock'[j]
      /\ \A w : w # c /\ Holds(lock, w) => Holds(lock', w)
    <2>1. to \in Ended
        BY DEF Ended
    <2>2. QED BY <1>1, <1>2, <2>1, LeavingQueue
<1>5. UNCHANGED <<mw, file, args, sent, given, answer, seen, after, loaded, overlapped>>
    BY DEF CallTimeout, data, judged, reloading
<1>6. TypeOK'
    BY <1>1, <1>2, <1>3, <1>4, <1>5 DEF TypeOK, PcFits, Entries
<1>7. QueueIsKnown'
    BY <1>4
<1>8. CallersHold'
    BY <1>1, <1>2, <1>3, <1>4, <1>5 DEF CallersHold
<1>9. CallsAreJudged'
    BY <1>1, <1>2, <1>3, <1>4, <1>5 DEF CallsAreJudged
<1>10. OverlapIsKnown'
    BY <1>1, <1>2, <1>3, <1>4, <1>5 DEF OverlapIsKnown, InProgress, Ended
<1>11. ReloadsLoadOnwards'
    BY <1>1, <1>2, <1>3, <1>4, <1>5 DEF ReloadsLoadOnwards, InProgress, Ended
<1>12. WaitsBehind'
    BY <1>1, <1>2, <1>3, <1>4, <1>5, WaitsLeaving DEF Ended
<1>13. ReloadTakesEffect'
    BY <1>1, <1>2, <1>3, <1>4, <1>5 DEF ReloadTakesEffect
<1>14. SeesReload'
    BY <1>1, <1>2, <1>3, <1>4, <1>5 DEF SeesReload
<1>15. QED BY <1>6, <1>7, <1>8, <1>9, <1>10, <1>11, <1>12, <1>13, <1>14 DEF Inductive

\* A reload has replaced the instances, or fails.
LEMMA ReloadRespawnsKeeps ==
    ASSUME Inductive, NEW r \in Reloads, ReloadRespawns(r)
    PROVE  Inductive'
<1>1. /\ r \in Requests /\ r \notin Calls /\ r \notin Lists
      /\ TypeOK /\ QueueIsKnown /\ CallersHold /\ CallsAreJudged /\ OverlapIsKnown
      /\ ReloadsLoadOnwards /\ WaitsBehind /\ ReloadTakesEffect /\ SeesReload
      /\ Requests = Calls \cup Lists \cup Reloads /\ (Calls \cup Lists) \cap Reloads = {}
      /\ \A q \in Calls \cup Lists : after[q] \subseteq Reloads
      /\ pc[r] = "respawning"
    BY RequestAssumption DEF Requests, Inductive, TypeOK, ReloadRespawns
<1>2. PICK to \in {"loading", "failed"} : Goes(r, to)
    BY <1>1 DEF ReloadRespawns
<1>3. PcFits' /\ pc'[r] = to /\ \A q \in Requests : q # r => pc'[q] = pc[q]
    BY <1>1, <1>2, PcKeeps DEF Leaves
<1>4. lock' = lock /\ lock' \in Seq(Entries) /\ QueueIsKnown'
    <2>1. lock' = lock /\ pc[r] \notin {"queued", "calling", "writing"}
        BY DEF ReloadRespawns
    <2>2. QED BY <1>1, <1>2, <2>1, KeepingQueue DEF TypeOK, Entries
<1>5. UNCHANGED <<mw, file, args, sent, given, answer, seen, after, loaded, overlapped>>
    BY DEF ReloadRespawns, data, judged, reloading
<1>6. TypeOK'
    BY <1>1, <1>2, <1>3, <1>4, <1>5 DEF TypeOK, PcFits, Entries
<1>7. QueueIsKnown'
    BY <1>4
<1>8. CallersHold'
    BY <1>1, <1>2, <1>3, <1>4, <1>5 DEF CallersHold
<1>9. CallsAreJudged'
    BY <1>1, <1>2, <1>3, <1>4, <1>5 DEF CallsAreJudged
<1>10. OverlapIsKnown'
    BY <1>1, <1>2, <1>3, <1>4, <1>5 DEF OverlapIsKnown, InProgress, Ended
<1>11. ReloadsLoadOnwards'
    BY <1>1, <1>2, <1>3, <1>4, <1>5 DEF ReloadsLoadOnwards, InProgress, Ended
<1>12. WaitsBehind'
    BY <1>1, <1>2, <1>3, <1>4, <1>5, WaitsStaying DEF Ended
<1>13. ReloadTakesEffect'
    BY <1>1, <1>2, <1>3, <1>4, <1>5 DEF ReloadTakesEffect
<1>14. SeesReload'
    BY <1>1, <1>2, <1>3, <1>4, <1>5 DEF SeesReload
<1>15. QED BY <1>6, <1>7, <1>8, <1>9, <1>10, <1>11, <1>12, <1>13, <1>14 DEF Inductive

\* A handler is dropped wherever it is.
LEMMA DropKeeps ==
    ASSUME Inductive, NEW r \in Requests, Drop(r)
    PROVE  Inductive'
<1>1. /\ r \in Requests /\ r \in Requests
      /\ TypeOK /\ QueueIsKnown /\ CallersHold /\ CallsAreJudged /\ OverlapIsKnown
      /\ ReloadsLoadOnwards /\ WaitsBehind /\ ReloadTakesEffect /\ SeesReload
      /\ Requests = Calls \cup Lists \cup Reloads /\ (Calls \cup Lists) \cap Reloads = {}
      /\ \A q \in Calls \cup Lists : after[q] \subseteq Reloads
      /\ InProgress(r)
    BY RequestAssumption DEF Requests, Inductive, TypeOK, Drop
<1>2. PICK to \in {"dropped"} : Leaves(r, to)
    BY <1>1 DEF Drop
<1>3. PcFits' /\ pc'[r] = to /\ \A q \in Requests : q # r => pc'[q] = pc[q]
    BY <1>1, <1>2, PcKeeps DEF Leaves
<1>4. /\ lock' \in Seq(Entries) /\ QueueIsKnown'
      /\ \A i, j \in DOMAIN lock' :
           i < j => \E k, m \in DOMAIN lock : k < m /\ lock[k] = lock'[i] /\ lock[m] = lock'[j]
      /\ \A w : w # r /\ Holds(lock, w) => Holds(lock', w)
    <2>1. to \in Ended
        BY DEF Ended
    <2>2. QED BY <1>1, <1>2, <2>1, LeavingQueue
<1>5. UNCHANGED <<mw, file, args, sent, given, answer, seen, after, loaded, overlapped>>
    BY DEF Drop, data, judged, reloading
<1>6. TypeOK'
    BY <1>1, <1>2, <1>3, <1>4, <1>5 DEF TypeOK, PcFits, Entries
<1>7. QueueIsKnown'
    BY <1>4
<1>8. CallersHold'
    BY <1>1, <1>2, <1>3, <1>4, <1>5 DEF CallersHold
<1>9. CallsAreJudged'
    BY <1>1, <1>2, <1>3, <1>4, <1>5 DEF CallsAreJudged
<1>10. OverlapIsKnown'
    BY <1>1, <1>2, <1>3, <1>4, <1>5 DEF OverlapIsKnown, InProgress, Ended
<1>11. ReloadsLoadOnwards'
    BY <1>1, <1>2, <1>3, <1>4, <1>5 DEF ReloadsLoadOnwards, InProgress, Ended
<1>12. WaitsBehind'
    BY <1>1, <1>2, <1>3, <1>4, <1>5, WaitsLeaving DEF Ended
<1>13. ReloadTakesEffect'
    BY <1>1, <1>2, <1>3, <1>4, <1>5 DEF ReloadTakesEffect
<1>14. SeesReload'
    BY <1>1, <1>2, <1>3, <1>4, <1>5 DEF SeesReload
<1>15. QED BY <1>6, <1>7, <1>8, <1>9, <1>10, <1>11, <1>12, <1>13, <1>14 DEF Inductive

\* A reload that starts beside others is one of those that overlap.
LEMMA ReloadStartsKeeps ==
    ASSUME Inductive, NEW r \in Reloads, ReloadStarts(r)
    PROVE  Inductive'
<1>1. /\ r \in Requests /\ r \notin Calls /\ r \notin Lists
      /\ TypeOK /\ QueueIsKnown /\ CallersHold /\ CallsAreJudged /\ OverlapIsKnown
      /\ ReloadsLoadOnwards /\ WaitsBehind /\ ReloadTakesEffect /\ SeesReload
      /\ Requests = Calls \cup Lists \cup Reloads /\ (Calls \cup Lists) \cap Reloads = {}
      /\ \A q \in Calls \cup Lists : after[q] \subseteq Reloads
      /\ pc[r] = "idle"
    BY RequestAssumption DEF Requests, Inductive, TypeOK, ReloadStarts
<1>2. PICK to \in {"respawning"} : Goes(r, to)
    BY <1>1 DEF ReloadStarts
<1>3. PcFits' /\ pc'[r] = to /\ \A q \in Requests : q # r => pc'[q] = pc[q]
    BY <1>1, <1>2, PcKeeps DEF Leaves
<1>4. lock' = lock /\ lock' \in Seq(Entries) /\ QueueIsKnown'
    <2>1. lock' = lock /\ pc[r] \notin {"queued", "calling", "writing"}
        BY DEF ReloadStarts
    <2>2. QED BY <1>1, <1>2, <2>1, KeepingQueue DEF TypeOK, Entries
<1>5. UNCHANGED <<mw, file, args, sent, given, answer, seen, after, loaded>>
    BY DEF ReloadStarts, data, judged, reloading
<1>6. overlapped \subseteq overlapped' /\ overlapped' \subseteq Reloads
    <2>1. overlapped \subseteq Reloads
        BY <1>1 DEF TypeOK
    <2>2. QED BY <1>1, <2>1 DEF ReloadStarts
<1>7. \A s \in Reloads : InProgress(s) => s \in overlapped' /\ r \in overlapped'
    BY DEF ReloadStarts
<1>8. TypeOK'
    BY <1>1, <1>2, <1>3, <1>4, <1>5, <1>6, <1>7 DEF TypeOK, PcFits, Entries
<1>9. QueueIsKnown'
    BY <1>4
<1>10. CallersHold'
    BY <1>1, <1>2, <1>3, <1>4, <1>5, <1>6, <1>7 DEF CallersHold
<1>11. CallsAreJudged'
    BY <1>1, <1>2, <1>3, <1>4, <1>5, <1>6, <1>7 DEF CallsAreJudged
<1>12. OverlapIsKnown'
    BY <1>1, <1>2, <1>3, <1>4, <1>5, <1>6, <1>7 DEF OverlapIsKnown, InProgress, Ended
<1>13. ReloadsLoadOnwards'
    BY <1>1, <1>2, <1>3, <1>4, <1>5, <1>6, <1>7 DEF ReloadsLoadOnwards, InProgress, Ended
<1>14. WaitsBehind'
    BY <1>1, <1>2, <1>3, <1>4, <1>5, <1>6, <1>7, WaitsStaying DEF Ended
<1>15. ReloadTakesEffect'
    BY <1>1, <1>2, <1>3, <1>4, <1>5, <1>6, <1>7 DEF ReloadTakesEffect
<1>16. SeesReload'
    BY <1>1, <1>2, <1>3, <1>4, <1>5, <1>6, <1>7 DEF SeesReload
<1>17. QED BY <1>8, <1>9, <1>10, <1>11, <1>12, <1>13, <1>14, <1>15, <1>16 DEF Inductive

\* What is loaded is the latest edit.
LEMMA ReloadLoadsKeeps ==
    ASSUME Inductive, NEW r \in Reloads, ReloadLoads(r)
    PROVE  Inductive'
<1>1. /\ r \in Requests /\ r \notin Calls /\ r \notin Lists
      /\ TypeOK /\ QueueIsKnown /\ CallersHold /\ CallsAreJudged /\ OverlapIsKnown
      /\ ReloadsLoadOnwards /\ WaitsBehind /\ ReloadTakesEffect /\ SeesReload
      /\ Requests = Calls \cup Lists \cup Reloads /\ (Calls \cup Lists) \cap Reloads = {}
      /\ \A q \in Calls \cup Lists : after[q] \subseteq Reloads
      /\ pc[r] = "loading" /\ loaded[r] = None
    BY RequestAssumption DEF Requests, Inductive, TypeOK, ReloadLoads
<1>2. PICK to \in {"loading", "reloaded"} : Goes(r, to)
    BY <1>1 DEF ReloadLoads, TypeOK, Goes
<1>3. PcFits' /\ pc'[r] = to /\ \A q \in Requests : q # r => pc'[q] = pc[q]
    BY <1>1, <1>2, PcKeeps DEF Leaves
<1>4. lock' = lock /\ lock' \in Seq(Entries) /\ QueueIsKnown'
    <2>1. lock' = lock /\ pc[r] \notin {"queued", "calling", "writing"}
        BY DEF ReloadLoads
    <2>2. QED BY <1>1, <1>2, <2>1, KeepingQueue DEF TypeOK, Entries
<1>5. UNCHANGED <<mw, file, args, sent, given, answer, seen, after, overlapped>>
    BY DEF ReloadLoads, data, judged, reloading
<1>6. /\ to = "reloaded" => loaded'[r] = None
      /\ loaded'[r] \in {None, file} /\ \A q \in Reloads : q # r => loaded'[q] = loaded[q]
      /\ loaded' \in [Reloads -> 0..file \cup {None}] /\ file \in Nat
    <2>1. loaded \in [Reloads -> 0..file \cup {None}] /\ file \in Nat /\ file \in 0..file
        BY <1>1, EditsExist DEF TypeOK
    <2>2. loaded' = loaded \/ loaded' = [loaded EXCEPT ![r] = file]
        BY DEF ReloadLoads
    <2>3. to = "reloaded" => loaded' = loaded
        BY <1>1, <1>3 DEF ReloadLoads
    <2>4. QED BY <1>1, <2>1, <2>2, <2>3
<1>7. TypeOK'
    BY <1>1, <1>2, <1>3, <1>4, <1>5, <1>6 DEF TypeOK, PcFits, Entries
<1>8. QueueIsKnown'
    BY <1>4
<1>9. CallersHold'
    BY <1>1, <1>2, <1>3, <1>4, <1>5, <1>6 DEF CallersHold
<1>10. CallsAreJudged'
    BY <1>1, <1>2, <1>3, <1>4, <1>5, <1>6 DEF CallsAreJudged
<1>11. OverlapIsKnown'
    BY <1>1, <1>2, <1>3, <1>4, <1>5, <1>6 DEF OverlapIsKnown, InProgress, Ended
<1>12. ReloadsLoadOnwards'
    BY <1>1, <1>2, <1>3, <1>4, <1>5, <1>6 DEF ReloadsLoadOnwards, InProgress, Ended
<1>13. WaitsBehind'
    BY <1>1, <1>2, <1>3, <1>4, <1>5, <1>6, WaitsStaying DEF Ended
<1>14. ReloadTakesEffect'
    BY <1>1, <1>2, <1>3, <1>4, <1>5, <1>6 DEF ReloadTakesEffect
<1>15. SeesReload'
    BY <1>1, <1>2, <1>3, <1>4, <1>5, <1>6 DEF SeesReload, WaitsBehind
<1>16. QED BY <1>7, <1>8, <1>9, <1>10, <1>11, <1>12, <1>13, <1>14, <1>15 DEF Inductive

\* A reload joins the queue with what it has loaded.
LEMMA ReloadQueuesKeeps ==
    ASSUME Inductive, NEW r \in Reloads, ReloadQueues(r)
    PROVE  Inductive'
<1>1. /\ r \in Requests /\ r \notin Calls /\ r \notin Lists
      /\ TypeOK /\ QueueIsKnown /\ CallersHold /\ CallsAreJudged /\ OverlapIsKnown
      /\ ReloadsLoadOnwards /\ WaitsBehind /\ ReloadTakesEffect /\ SeesReload
      /\ Requests = Calls \cup Lists \cup Reloads /\ (Calls \cup Lists) \cap Reloads = {}
      /\ \A q \in Calls \cup Lists : after[q] \subseteq Reloads
      /\ pc[r] = "loading" /\ loaded[r] # None
    BY RequestAssumption DEF Requests, Inductive, TypeOK, ReloadQueues
<1>2. PICK to \in {"writing"} : Goes(r, to)
    BY <1>1 DEF ReloadQueues, Queues
<1>3. PcFits' /\ pc'[r] = to /\ \A q \in Requests : q # r => pc'[q] = pc[q]
    BY <1>1, <1>2, PcKeeps DEF Leaves
<1>4. /\ lock' \in Seq(Entries) /\ QueueIsKnown'
      /\ DOMAIN lock = 1..Len(lock) /\ Len(lock) \in Nat /\ DOMAIN lock' = 1..(Len(lock) + 1)
      /\ \A i \in DOMAIN lock : lock'[i] = lock[i] /\ lock[i].who # r
      /\ lock'[Len(lock) + 1].who = r
      /\ \A w : Holds(lock, w) => Holds(lock', w)
    <2>1. pc[r] \notin {"queued", "calling", "writing"} /\ lock' = Append(lock, QueueEntry(r, "write"))
        BY DEF ReloadQueues, Queues, Reads, Writes
    <2>2. to = IF "write" = "read" THEN "queued" ELSE "writing"
        OBVIOUS
    <2>3. QED BY <1>1, <1>2, <2>1, <2>2, JoiningQueue
<1>5. UNCHANGED <<mw, file, args, sent, given, answer, seen, after, loaded, overlapped>>
    BY DEF ReloadQueues, data, judged, reloading
<1>6. TypeOK'
    BY <1>1, <1>2, <1>3, <1>4, <1>5 DEF TypeOK, PcFits, Entries
<1>7. QueueIsKnown'
    BY <1>4
<1>8. CallersHold'
    BY <1>1, <1>2, <1>3, <1>4, <1>5 DEF CallersHold
<1>9. CallsAreJudged'
    BY <1>1, <1>2, <1>3, <1>4, <1>5 DEF CallsAreJudged
<1>10. OverlapIsKnown'
    BY <1>1, <1>2, <1>3, <1>4, <1>5 DEF OverlapIsKnown, InProgress, Ended
<1>11. ReloadsLoadOnwards'
    BY <1>1, <1>2, <1>3, <1>4, <1>5 DEF ReloadsLoadOnwards, InProgress, Ended
<1>12. WaitsBehind'
    BY <1>1, <1>2, <1>3, <1>4, <1>5, WaitsJoining DEF Ended
<1>13. ReloadTakesEffect'
    BY <1>1, <1>2, <1>3, <1>4, <1>5 DEF ReloadTakesEffect
<1>14. SeesReload'
    BY <1>1, <1>2, <1>3, <1>4, <1>5 DEF SeesReload
<1>15. QED BY <1>6, <1>7, <1>8, <1>9, <1>10, <1>11, <1>12, <1>13, <1>14 DEF Inductive

\* A tool that is not listed is not called.
LEMMA CheckToolRefusesKeeps ==
    ASSUME Inductive, NEW c \in Calls, CheckTool(c), ~Queues(c)
    PROVE  Inductive'
<1>1. /\ c \in Requests /\ c \notin Lists /\ c \notin Reloads
      /\ TypeOK /\ QueueIsKnown /\ CallersHold /\ CallsAreJudged /\ OverlapIsKnown
      /\ ReloadsLoadOnwards /\ WaitsBehind /\ ReloadTakesEffect /\ SeesReload
      /\ Requests = Calls \cup Lists \cup Reloads /\ (Calls \cup Lists) \cap Reloads = {}
      /\ \A q \in Calls \cup Lists : after[q] \subseteq Reloads
      /\ pc[c] = "resolved"
    BY RequestAssumption DEF Requests, Inductive, TypeOK, CheckTool
<1>2. PICK to \in {"refused"} : Goes(c, to)
    BY <1>1 DEF CheckTool
<1>3. PcFits' /\ pc'[c] = to /\ \A q \in Requests : q # c => pc'[q] = pc[q]
    BY <1>1, <1>2, PcKeeps DEF Leaves
<1>4. lock' = lock /\ lock' \in Seq(Entries) /\ QueueIsKnown'
    <2>1. lock' = lock /\ pc[c] \notin {"queued", "calling", "writing"}
        BY DEF CheckTool
    <2>2. QED BY <1>1, <1>2, <2>1, KeepingQueue DEF TypeOK, Entries
<1>5. UNCHANGED <<mw, file, args, sent, given, answer, seen, after, loaded, overlapped>>
    BY DEF CheckTool, data, judged, reloading
<1>6. TypeOK'
    BY <1>1, <1>2, <1>3, <1>4, <1>5 DEF TypeOK, PcFits, Entries
<1>7. QueueIsKnown'
    BY <1>4
<1>8. CallersHold'
    BY <1>1, <1>2, <1>3, <1>4, <1>5 DEF CallersHold
<1>9. CallsAreJudged'
    BY <1>1, <1>2, <1>3, <1>4, <1>5 DEF CallsAreJudged
<1>10. OverlapIsKnown'
    BY <1>1, <1>2, <1>3, <1>4, <1>5 DEF OverlapIsKnown, InProgress, Ended
<1>11. ReloadsLoadOnwards'
    BY <1>1, <1>2, <1>3, <1>4, <1>5 DEF ReloadsLoadOnwards, InProgress, Ended
<1>12. WaitsBehind'
    BY <1>1, <1>2, <1>3, <1>4, <1>5, WaitsStaying DEF Ended
<1>13. ReloadTakesEffect'
    BY <1>1, <1>2, <1>3, <1>4, <1>5 DEF ReloadTakesEffect
<1>14. SeesReload'
    BY <1>1, <1>2, <1>3, <1>4, <1>5 DEF SeesReload
<1>15. QED BY <1>6, <1>7, <1>8, <1>9, <1>10, <1>11, <1>12, <1>13, <1>14 DEF Inductive

\* A call joins the queue.
LEMMA CheckToolKeeps ==
    ASSUME Inductive, NEW c \in Calls, CheckTool(c), Queues(c)
    PROVE  Inductive'
<1>1. /\ c \in Requests /\ c \notin Lists /\ c \notin Reloads
      /\ TypeOK /\ QueueIsKnown /\ CallersHold /\ CallsAreJudged /\ OverlapIsKnown
      /\ ReloadsLoadOnwards /\ WaitsBehind /\ ReloadTakesEffect /\ SeesReload
      /\ Requests = Calls \cup Lists \cup Reloads /\ (Calls \cup Lists) \cap Reloads = {}
      /\ \A q \in Calls \cup Lists : after[q] \subseteq Reloads
      /\ pc[c] = "resolved"
    BY RequestAssumption DEF Requests, Inductive, TypeOK, CheckTool
<1>2. PICK to \in {"queued"} : Goes(c, to)
    BY <1>1 DEF CheckTool, Queues
<1>3. PcFits' /\ pc'[c] = to /\ \A q \in Requests : q # c => pc'[q] = pc[q]
    BY <1>1, <1>2, PcKeeps DEF Leaves
<1>4. /\ lock' \in Seq(Entries) /\ QueueIsKnown'
      /\ DOMAIN lock = 1..Len(lock) /\ Len(lock) \in Nat /\ DOMAIN lock' = 1..(Len(lock) + 1)
      /\ \A i \in DOMAIN lock : lock'[i] = lock[i] /\ lock[i].who # c
      /\ lock'[Len(lock) + 1].who = c
      /\ \A w : Holds(lock, w) => Holds(lock', w)
    <2>1. pc[c] \notin {"queued", "calling", "writing"} /\ lock' = Append(lock, QueueEntry(c, "read"))
        BY DEF CheckTool, Queues, Reads, Writes
    <2>2. to = IF "read" = "read" THEN "queued" ELSE "writing"
        OBVIOUS
    <2>3. QED BY <1>1, <1>2, <2>1, <2>2, JoiningQueue
<1>5. UNCHANGED <<mw, file, args, sent, given, answer, seen, loaded, overlapped>>
    BY DEF CheckTool, data, judged, reloading
<1>6. after' = [after EXCEPT ![c] = {q \in Reloads : pc[q] \in {"writing", "reloaded"}}] /\ seen[c] = None
    BY <1>1, <1>2, <1>3 DEF CheckTool, Queues, CallsAreJudged
<1>7. /\ after' \in [Calls \cup Lists -> SUBSET Reloads]
      /\ \A w \in Calls \cup Lists : w # c => after'[w] = after[w]
    BY <1>1, <1>6 DEF TypeOK
<1>8. TypeOK'
    BY <1>1, <1>2, <1>3, <1>4, <1>5, <1>6, <1>7 DEF TypeOK, PcFits, Entries
<1>9. QueueIsKnown'
    BY <1>4
<1>10. CallersHold'
    BY <1>1, <1>2, <1>3, <1>4, <1>5, <1>6, <1>7 DEF CallersHold
<1>11. CallsAreJudged'
    BY <1>1, <1>2, <1>3, <1>4, <1>5, <1>6, <1>7 DEF CallsAreJudged
<1>12. OverlapIsKnown'
    BY <1>1, <1>2, <1>3, <1>4, <1>5, <1>6, <1>7 DEF OverlapIsKnown, InProgress, Ended
<1>13. ReloadsLoadOnwards'
    BY <1>1, <1>2, <1>3, <1>4, <1>5, <1>6, <1>7 DEF ReloadsLoadOnwards, InProgress, Ended
<1>14. WaitsBehind'
    <2>1. TypeOK /\ WaitsBehind /\ c \in Calls \cup Lists /\ pc'[c] = "queued"
        BY <1>1, <1>2, <1>3
    <2>2. \A q \in Requests : q # c => pc'[q] = pc[q]
        BY <1>3
    <2>3. /\ DOMAIN lock = 1..Len(lock) /\ Len(lock) \in Nat /\ DOMAIN lock' = 1..(Len(lock) + 1)
          /\ \A i \in DOMAIN lock : lock'[i] = lock[i] /\ lock[i].who # c
          /\ lock'[Len(lock) + 1].who = c
        BY <1>4
    <2>4. seen' = seen /\ seen[c] = None
        BY <1>5, <1>6
    <2>5. after' = [after EXCEPT ![c] = {q \in Reloads : pc[q] \in {"writing", "reloaded"}}]
        BY <1>6
    <2>6. QED BY <2>1, <2>2, <2>3, <2>4, <2>5, WaitsNewly
<1>15. ReloadTakesEffect'
    BY <1>1, <1>2, <1>3, <1>4, <1>5, <1>6, <1>7 DEF ReloadTakesEffect
<1>16. SeesReload'
    BY <1>1, <1>2, <1>3, <1>4, <1>5, <1>6, <1>7 DEF SeesReload
<1>17. QED BY <1>8, <1>9, <1>10, <1>11, <1>12, <1>13, <1>14, <1>15, <1>16 DEF Inductive

\* So does a list.
LEMMA ListQueuesKeeps ==
    ASSUME Inductive, NEW l \in Lists, ListQueues(l)
    PROVE  Inductive'
<1>1. /\ l \in Requests /\ l \notin Calls /\ l \notin Reloads
      /\ TypeOK /\ QueueIsKnown /\ CallersHold /\ CallsAreJudged /\ OverlapIsKnown
      /\ ReloadsLoadOnwards /\ WaitsBehind /\ ReloadTakesEffect /\ SeesReload
      /\ Requests = Calls \cup Lists \cup Reloads /\ (Calls \cup Lists) \cap Reloads = {}
      /\ \A q \in Calls \cup Lists : after[q] \subseteq Reloads
      /\ pc[l] = "idle"
    BY RequestAssumption DEF Requests, Inductive, TypeOK, ListQueues
<1>2. PICK to \in {"queued"} : Goes(l, to)
    BY <1>1 DEF ListQueues, Queues
<1>3. PcFits' /\ pc'[l] = to /\ \A q \in Requests : q # l => pc'[q] = pc[q]
    BY <1>1, <1>2, PcKeeps DEF Leaves
<1>4. /\ lock' \in Seq(Entries) /\ QueueIsKnown'
      /\ DOMAIN lock = 1..Len(lock) /\ Len(lock) \in Nat /\ DOMAIN lock' = 1..(Len(lock) + 1)
      /\ \A i \in DOMAIN lock : lock'[i] = lock[i] /\ lock[i].who # l
      /\ lock'[Len(lock) + 1].who = l
      /\ \A w : Holds(lock, w) => Holds(lock', w)
    <2>1. pc[l] \notin {"queued", "calling", "writing"} /\ lock' = Append(lock, QueueEntry(l, "read"))
        BY DEF ListQueues, Queues, Reads, Writes
    <2>2. to = IF "read" = "read" THEN "queued" ELSE "writing"
        OBVIOUS
    <2>3. QED BY <1>1, <1>2, <2>1, <2>2, JoiningQueue
<1>5. UNCHANGED <<mw, file, args, sent, given, answer, seen, loaded, overlapped>>
    BY DEF ListQueues, data, judged, reloading
<1>6. after' = [after EXCEPT ![l] = {q \in Reloads : pc[q] \in {"writing", "reloaded"}}] /\ seen[l] = None
    BY <1>1, <1>2, <1>3 DEF ListQueues, Queues, CallsAreJudged
<1>7. /\ after' \in [Calls \cup Lists -> SUBSET Reloads]
      /\ \A w \in Calls \cup Lists : w # l => after'[w] = after[w]
    BY <1>1, <1>6 DEF TypeOK
<1>8. TypeOK'
    BY <1>1, <1>2, <1>3, <1>4, <1>5, <1>6, <1>7 DEF TypeOK, PcFits, Entries
<1>9. QueueIsKnown'
    BY <1>4
<1>10. CallersHold'
    BY <1>1, <1>2, <1>3, <1>4, <1>5, <1>6, <1>7 DEF CallersHold
<1>11. CallsAreJudged'
    BY <1>1, <1>2, <1>3, <1>4, <1>5, <1>6, <1>7 DEF CallsAreJudged
<1>12. OverlapIsKnown'
    BY <1>1, <1>2, <1>3, <1>4, <1>5, <1>6, <1>7 DEF OverlapIsKnown, InProgress, Ended
<1>13. ReloadsLoadOnwards'
    BY <1>1, <1>2, <1>3, <1>4, <1>5, <1>6, <1>7 DEF ReloadsLoadOnwards, InProgress, Ended
<1>14. WaitsBehind'
    <2>1. TypeOK /\ WaitsBehind /\ l \in Calls \cup Lists /\ pc'[l] = "queued"
        BY <1>1, <1>2, <1>3
    <2>2. \A q \in Requests : q # l => pc'[q] = pc[q]
        BY <1>3
    <2>3. /\ DOMAIN lock = 1..Len(lock) /\ Len(lock) \in Nat /\ DOMAIN lock' = 1..(Len(lock) + 1)
          /\ \A i \in DOMAIN lock : lock'[i] = lock[i] /\ lock[i].who # l
          /\ lock'[Len(lock) + 1].who = l
        BY <1>4
    <2>4. seen' = seen /\ seen[l] = None
        BY <1>5, <1>6
    <2>5. after' = [after EXCEPT ![l] = {q \in Reloads : pc[q] \in {"writing", "reloaded"}}]
        BY <1>6
    <2>6. QED BY <2>1, <2>2, <2>3, <2>4, <2>5, WaitsNewly
<1>15. ReloadTakesEffect'
    BY <1>1, <1>2, <1>3, <1>4, <1>5, <1>6, <1>7 DEF ReloadTakesEffect
<1>16. SeesReload'
    BY <1>1, <1>2, <1>3, <1>4, <1>5, <1>6, <1>7 DEF SeesReload
<1>17. QED BY <1>8, <1>9, <1>10, <1>11, <1>12, <1>13, <1>14, <1>15, <1>16 DEF Inductive

\* The arguments of a call get the verified identity.
LEMMA ResolveKeeps ==
    ASSUME Inductive, NEW c \in Calls, Resolve(c)
    PROVE  Inductive'
<1>1. /\ c \in Requests /\ c \notin Lists /\ c \notin Reloads
      /\ TypeOK /\ QueueIsKnown /\ CallersHold /\ CallsAreJudged /\ OverlapIsKnown
      /\ ReloadsLoadOnwards /\ WaitsBehind /\ ReloadTakesEffect /\ SeesReload
      /\ Requests = Calls \cup Lists \cup Reloads /\ (Calls \cup Lists) \cap Reloads = {}
      /\ \A q \in Calls \cup Lists : after[q] \subseteq Reloads
      /\ pc[c] = "idle"
    BY RequestAssumption DEF Requests, Inductive, TypeOK, Resolve
<1>2. PICK to \in {"resolved", "refused"} : Goes(c, to)
    BY <1>1 DEF Resolve
<1>3. PcFits' /\ pc'[c] = to /\ \A q \in Requests : q # c => pc'[q] = pc[q]
    BY <1>1, <1>2, PcKeeps DEF Leaves
<1>4. lock' = lock /\ lock' \in Seq(Entries) /\ QueueIsKnown'
    <2>1. lock' = lock /\ pc[c] \notin {"queued", "calling", "writing"}
        BY DEF Resolve
    <2>2. QED BY <1>1, <1>2, <2>1, KeepingQueue DEF TypeOK, Entries
<1>5. UNCHANGED <<mw, file, sent, given, answer, seen, after, loaded, overlapped>>
    BY DEF Resolve, data, judged, reloading
<1>6. /\ DOMAIN args' = Calls /\ \A d \in Calls : d # c => args'[d] = args[d]
      /\ to = "resolved" /\ Identity # None
           => SmithIdentity \in DOMAIN args'[c] /\ args'[c][SmithIdentity] = Identity
    <2>1. DOMAIN args = Calls
        BY <1>1 DEF TypeOK
    <2>2. CASE UNCHANGED args /\ Goes(c, "refused")
        <3>1. to = "refused"
            BY <1>1, <1>3, <2>2 DEF Goes, TypeOK
        <3>2. QED BY <2>1, <2>2, <3>1
    <2>3. ASSUME NEW body \in Bodies, args' = [args EXCEPT ![c] = WithIdentity(body)]
          PROVE  /\ DOMAIN args' = Calls /\ \A d \in Calls : d # c => args'[d] = args[d]
                 /\ args'[c] = WithIdentity(body)
        BY <2>1, <2>3
    <2>4. \A body : Identity # None => SmithIdentity \in DOMAIN WithIdentity(body)
                                       /\ WithIdentity(body)[SmithIdentity] = Identity
        BY DEF WithIdentity, Put
    <2>5. QED BY <2>2, <2>3, <2>4 DEF Resolve
<1>7. seen[c] = None /\ sent[c] = None /\ answer[c] = None
    BY <1>1 DEF CallsAreJudged
<1>8. TypeOK'
    BY <1>1, <1>2, <1>3, <1>4, <1>5, <1>6, <1>7 DEF TypeOK, PcFits, Entries
<1>9. QueueIsKnown'
    BY <1>4
<1>10. CallersHold'
    BY <1>1, <1>2, <1>3, <1>4, <1>5, <1>6, <1>7 DEF CallersHold
<1>11. CallsAreJudged'
    BY <1>1, <1>2, <1>3, <1>4, <1>5, <1>6, <1>7 DEF CallsAreJudged
<1>12. OverlapIsKnown'
    BY <1>1, <1>2, <1>3, <1>4, <1>5, <1>6, <1>7 DEF OverlapIsKnown, InProgress, Ended
<1>13. ReloadsLoadOnwards'
    BY <1>1, <1>2, <1>3, <1>4, <1>5, <1>6, <1>7 DEF ReloadsLoadOnwards, InProgress, Ended
<1>14. WaitsBehind'
    BY <1>1, <1>2, <1>3, <1>4, <1>5, <1>6, <1>7, WaitsStaying DEF Ended
<1>15. ReloadTakesEffect'
    BY <1>1, <1>2, <1>3, <1>4, <1>5, <1>6, <1>7 DEF ReloadTakesEffect
<1>16. SeesReload'
    BY <1>1, <1>2, <1>3, <1>4, <1>5, <1>6, <1>7 DEF SeesReload
<1>17. QED BY <1>8, <1>9, <1>10, <1>11, <1>12, <1>13, <1>14, <1>15, <1>16 DEF Inductive

\* A call is let in: what it waited behind is over, and it is judged by what is in force.
LEMMA EnterSendsKeeps ==
    ASSUME Inductive, NEW c \in Calls, Enter(c), ~Refuses(Config(mw), args[c])
    PROVE  Inductive'
<1>1. /\ c \in Requests /\ c \notin Lists /\ c \notin Reloads
      /\ TypeOK /\ QueueIsKnown /\ CallersHold /\ CallsAreJudged /\ OverlapIsKnown
      /\ ReloadsLoadOnwards /\ WaitsBehind /\ ReloadTakesEffect /\ SeesReload
      /\ Requests = Calls \cup Lists \cup Reloads /\ (Calls \cup Lists) \cap Reloads = {}
      /\ \A q \in Calls \cup Lists : after[q] \subseteq Reloads
      /\ pc[c] = "queued"
    BY RequestAssumption DEF Requests, Inductive, TypeOK, Enter
<1>2. PICK to \in {"calling"} : Goes(c, to)
    BY <1>1 DEF Enter
<1>3. PcFits' /\ pc'[c] = to /\ \A q \in Requests : q # c => pc'[q] = pc[q]
    BY <1>1, <1>2, PcKeeps DEF Leaves
<1>4. lock' = lock /\ lock' \in Seq(Entries) /\ QueueIsKnown' /\ Holds(lock, c)
    <2>1. lock' = lock /\ pc[c] = "queued" /\ Holds(lock, c)
        BY DEF Enter, Kept
    <2>2. QED BY <1>1, <1>2, <2>1, KeepingQueue DEF TypeOK, Entries
<1>5. UNCHANGED <<mw, file, args, given, answer, after, loaded, overlapped>>
    BY DEF Enter, data, judged, reloading
<1>6. /\ seen'[c] = mw /\ mw \in 0..file /\ mw # None /\ \A w \in Calls \cup Lists : w # c => seen'[w] = seen[w]
      /\ seen' \in [Calls \cup Lists -> 0..file \cup {None}]
    <2>1. seen \in [Calls \cup Lists -> 0..file \cup {None}] /\ mw \in 0..file /\ file \in Nat
        BY <1>1, EditsExist DEF TypeOK
    <2>2. mw # None
        BY <2>1, NoneAssumption
    <2>3. seen' = [seen EXCEPT ![c] = mw]
        BY DEF Enter
    <2>4. QED BY <1>1, <2>1, <2>2, <2>3
<1>7. /\ sent'[c] = Sends(Config(mw), args[c]) /\ DOMAIN sent' = Calls
      /\ \A d \in Calls : d # c => sent'[d] = sent[d]
    <2>1. DOMAIN sent = Calls
        BY <1>1 DEF TypeOK
    <2>2. sent' = [sent EXCEPT ![c] = Sends(Config(mw), args[c])]
        BY DEF Enter
    <2>3. QED BY <2>1, <2>2
<1>8. \A q \in after[c] : pc[q] # "writing"
    BY <1>1, <1>4, WritesAreOver
<1>9. \A q \in after[c] \ overlapped : pc[q] # "dropped" /\ loaded[q] # None => mw >= loaded[q]
    BY <1>1, <1>8 DEF WaitsBehind, ReloadTakesEffect
<1>10. seen[c] = None /\ answer[c] = None /\ ~Refuses(Config(mw), args[c])
    BY <1>1 DEF CallsAreJudged
<1>11. TypeOK'
    BY <1>1, <1>2, <1>3, <1>4, <1>5, <1>6, <1>7, <1>8, <1>9, <1>10 DEF TypeOK, PcFits, Entries
<1>12. QueueIsKnown'
    BY <1>4
<1>13. CallersHold'
    BY <1>1, <1>2, <1>3, <1>4, <1>5, <1>6, <1>7, <1>8, <1>9, <1>10 DEF CallersHold
<1>14. CallsAreJudged'
    BY <1>1, <1>2, <1>3, <1>4, <1>5, <1>6, <1>7, <1>8, <1>9, <1>10 DEF CallsAreJudged
<1>15. OverlapIsKnown'
    BY <1>1, <1>2, <1>3, <1>4, <1>5, <1>6, <1>7, <1>8, <1>9, <1>10 DEF OverlapIsKnown, InProgress, Ended
<1>16. ReloadsLoadOnwards'
    BY <1>1, <1>2, <1>3, <1>4, <1>5, <1>6, <1>7, <1>8, <1>9, <1>10 DEF ReloadsLoadOnwards, InProgress, Ended
<1>17. WaitsBehind'
    BY <1>1, <1>2, <1>3, <1>4, <1>5, <1>6, <1>7, <1>8, <1>9, <1>10 DEF WaitsBehind, Ended
<1>18. ReloadTakesEffect'
    BY <1>1, <1>2, <1>3, <1>4, <1>5, <1>6, <1>7, <1>8, <1>9, <1>10 DEF ReloadTakesEffect
<1>19. SeesReload'
    BY <1>1, <1>2, <1>3, <1>4, <1>5, <1>6, <1>7, <1>8, <1>9, <1>10 DEF SeesReload
<1>20. QED BY <1>11, <1>12, <1>13, <1>14, <1>15, <1>16, <1>17, <1>18, <1>19 DEF Inductive

\* One that is refused leaves at once.
LEMMA EnterRefusesKeeps ==
    ASSUME Inductive, NEW c \in Calls, Enter(c), Refuses(Config(mw), args[c])
    PROVE  Inductive'
<1>1. /\ c \in Requests /\ c \notin Lists /\ c \notin Reloads
      /\ TypeOK /\ QueueIsKnown /\ CallersHold /\ CallsAreJudged /\ OverlapIsKnown
      /\ ReloadsLoadOnwards /\ WaitsBehind /\ ReloadTakesEffect /\ SeesReload
      /\ Requests = Calls \cup Lists \cup Reloads /\ (Calls \cup Lists) \cap Reloads = {}
      /\ \A q \in Calls \cup Lists : after[q] \subseteq Reloads
      /\ pc[c] = "queued" /\ Holds(lock, c)
    BY RequestAssumption DEF Requests, Inductive, TypeOK, Enter
<1>2. PICK to \in {"refused"} : Leaves(c, to)
    BY <1>1 DEF Enter
<1>3. PcFits' /\ pc'[c] = to /\ \A q \in Requests : q # c => pc'[q] = pc[q]
    BY <1>1, <1>2, PcKeeps DEF Leaves
<1>4. /\ lock' \in Seq(Entries) /\ QueueIsKnown'
      /\ \A i, j \in DOMAIN lock' :
           i < j => \E k, m \in DOMAIN lock : k < m /\ lock[k] = lock'[i] /\ lock[m] = lock'[j]
      /\ \A w : w # c /\ Holds(lock, w) => Holds(lock', w)
    <2>1. to \in Ended
        BY DEF Ended
    <2>2. QED BY <1>1, <1>2, <2>1, LeavingQueue
<1>5. UNCHANGED <<mw, file, args, sent, given, answer, after, loaded, overlapped>>
    BY DEF Enter, data, judged, reloading
<1>6. /\ seen'[c] = mw /\ mw \in 0..file /\ mw # None /\ \A w \in Calls \cup Lists : w # c => seen'[w] = seen[w]
      /\ seen' \in [Calls \cup Lists -> 0..file \cup {None}]
    <2>1. seen \in [Calls \cup Lists -> 0..file \cup {None}] /\ mw \in 0..file /\ file \in Nat
        BY <1>1, EditsExist DEF TypeOK
    <2>2. mw # None
        BY <2>1, NoneAssumption
    <2>3. seen' = [seen EXCEPT ![c] = mw]
        BY DEF Enter
    <2>4. QED BY <1>1, <2>1, <2>2, <2>3
<1>7. \A q \in after[c] : pc[q] # "writing"
    BY <1>1, WritesAreOver
<1>8. \A q \in after[c] \ overlapped : pc[q] # "dropped" /\ loaded[q] # None => mw >= loaded[q]
    BY <1>1, <1>7 DEF WaitsBehind, ReloadTakesEffect
<1>9. seen[c] = None /\ sent[c] = None /\ answer[c] = None
    BY <1>1 DEF CallsAreJudged
<1>10. TypeOK'
    BY <1>1, <1>2, <1>3, <1>4, <1>5, <1>6, <1>7, <1>8, <1>9 DEF TypeOK, PcFits, Entries
<1>11. QueueIsKnown'
    BY <1>4
<1>12. CallersHold'
    BY <1>1, <1>2, <1>3, <1>4, <1>5, <1>6, <1>7, <1>8, <1>9 DEF CallersHold
<1>13. CallsAreJudged'
    BY <1>1, <1>2, <1>3, <1>4, <1>5, <1>6, <1>7, <1>8, <1>9 DEF CallsAreJudged
<1>14. OverlapIsKnown'
    BY <1>1, <1>2, <1>3, <1>4, <1>5, <1>6, <1>7, <1>8, <1>9 DEF OverlapIsKnown, InProgress, Ended
<1>15. ReloadsLoadOnwards'
    BY <1>1, <1>2, <1>3, <1>4, <1>5, <1>6, <1>7, <1>8, <1>9 DEF ReloadsLoadOnwards, InProgress, Ended
<1>16. WaitsBehind'
    BY <1>1, <1>2, <1>3, <1>4, <1>5, <1>6, <1>7, <1>8, <1>9, WaitsLeaving DEF Ended
<1>17. ReloadTakesEffect'
    BY <1>1, <1>2, <1>3, <1>4, <1>5, <1>6, <1>7, <1>8, <1>9 DEF ReloadTakesEffect
<1>18. SeesReload'
    BY <1>1, <1>2, <1>3, <1>4, <1>5, <1>6, <1>7, <1>8, <1>9 DEF SeesReload
<1>19. QED BY <1>10, <1>11, <1>12, <1>13, <1>14, <1>15, <1>16, <1>17, <1>18 DEF Inductive

\* So is a list, and it leaves.
LEMMA ListReadsKeeps ==
    ASSUME Inductive, NEW l \in Lists, ListReads(l)
    PROVE  Inductive'
<1>1. /\ l \in Requests /\ l \notin Calls /\ l \notin Reloads
      /\ TypeOK /\ QueueIsKnown /\ CallersHold /\ CallsAreJudged /\ OverlapIsKnown
      /\ ReloadsLoadOnwards /\ WaitsBehind /\ ReloadTakesEffect /\ SeesReload
      /\ Requests = Calls \cup Lists \cup Reloads /\ (Calls \cup Lists) \cap Reloads = {}
      /\ \A q \in Calls \cup Lists : after[q] \subseteq Reloads
      /\ pc[l] = "queued" /\ Holds(lock, l)
    BY RequestAssumption DEF Requests, Inductive, TypeOK, ListReads
<1>2. PICK to \in {"answered"} : Leaves(l, to)
    BY <1>1 DEF ListReads
<1>3. PcFits' /\ pc'[l] = to /\ \A q \in Requests : q # l => pc'[q] = pc[q]
    BY <1>1, <1>2, PcKeeps DEF Leaves
<1>4. /\ lock' \in Seq(Entries) /\ QueueIsKnown'
      /\ \A i, j \in DOMAIN lock' :
           i < j => \E k, m \in DOMAIN lock : k < m /\ lock[k] = lock'[i] /\ lock[m] = lock'[j]
      /\ \A w : w # l /\ Holds(lock, w) => Holds(lock', w)
    <2>1. to \in Ended
        BY DEF Ended
    <2>2. QED BY <1>1, <1>2, <2>1, LeavingQueue
<1>5. UNCHANGED <<mw, file, args, sent, given, answer, after, loaded, overlapped>>
    BY DEF ListReads, data, judged, reloading
<1>6. /\ seen'[l] = mw /\ mw \in 0..file /\ mw # None /\ \A w \in Calls \cup Lists : w # l => seen'[w] = seen[w]
      /\ seen' \in [Calls \cup Lists -> 0..file \cup {None}]
    <2>1. seen \in [Calls \cup Lists -> 0..file \cup {None}] /\ mw \in 0..file /\ file \in Nat
        BY <1>1, EditsExist DEF TypeOK
    <2>2. mw # None
        BY <2>1, NoneAssumption
    <2>3. seen' = [seen EXCEPT ![l] = mw]
        BY DEF ListReads
    <2>4. QED BY <1>1, <2>1, <2>2, <2>3
<1>7. \A q \in after[l] : pc[q] # "writing"
    BY <1>1, WritesAreOver
<1>8. \A q \in after[l] \ overlapped : pc[q] # "dropped" /\ loaded[q] # None => mw >= loaded[q]
    BY <1>1, <1>7 DEF WaitsBehind, ReloadTakesEffect
<1>9. TypeOK'
    BY <1>1, <1>2, <1>3, <1>4, <1>5, <1>6, <1>7, <1>8 DEF TypeOK, PcFits, Entries
<1>10. QueueIsKnown'
    BY <1>4
<1>11. CallersHold'
    BY <1>1, <1>2, <1>3, <1>4, <1>5, <1>6, <1>7, <1>8 DEF CallersHold
<1>12. CallsAreJudged'
    BY <1>1, <1>2, <1>3, <1>4, <1>5, <1>6, <1>7, <1>8 DEF CallsAreJudged
<1>13. OverlapIsKnown'
    BY <1>1, <1>2, <1>3, <1>4, <1>5, <1>6, <1>7, <1>8 DEF OverlapIsKnown, InProgress, Ended
<1>14. ReloadsLoadOnwards'
    BY <1>1, <1>2, <1>3, <1>4, <1>5, <1>6, <1>7, <1>8 DEF ReloadsLoadOnwards, InProgress, Ended
<1>15. WaitsBehind'
    BY <1>1, <1>2, <1>3, <1>4, <1>5, <1>6, <1>7, <1>8, WaitsLeaving DEF Ended
<1>16. ReloadTakesEffect'
    BY <1>1, <1>2, <1>3, <1>4, <1>5, <1>6, <1>7, <1>8 DEF ReloadTakesEffect
<1>17. SeesReload'
    BY <1>1, <1>2, <1>3, <1>4, <1>5, <1>6, <1>7, <1>8 DEF SeesReload
<1>18. QED BY <1>9, <1>10, <1>11, <1>12, <1>13, <1>14, <1>15, <1>16, <1>17 DEF Inductive

\* A call is answered by the configuration that judged it.
LEMMA AnsweredKeeps ==
    ASSUME Inductive, NEW c \in Calls, Answered(c)
    PROVE  Inductive'
<1>1. /\ c \in Requests /\ c \notin Lists /\ c \notin Reloads
      /\ TypeOK /\ QueueIsKnown /\ CallersHold /\ CallsAreJudged /\ OverlapIsKnown
      /\ ReloadsLoadOnwards /\ WaitsBehind /\ ReloadTakesEffect /\ SeesReload
      /\ Requests = Calls \cup Lists \cup Reloads /\ (Calls \cup Lists) \cap Reloads = {}
      /\ \A q \in Calls \cup Lists : after[q] \subseteq Reloads
      /\ pc[c] = "calling"
    BY RequestAssumption DEF Requests, Inductive, TypeOK, Answered
<1>2. PICK to \in {"answered", "failed"} : Leaves(c, to)
    BY <1>1 DEF Answered
<1>3. PcFits' /\ pc'[c] = to /\ \A q \in Requests : q # c => pc'[q] = pc[q]
    BY <1>1, <1>2, PcKeeps DEF Leaves
<1>4. /\ lock' \in Seq(Entries) /\ QueueIsKnown'
      /\ \A i, j \in DOMAIN lock' :
           i < j => \E k, m \in DOMAIN lock : k < m /\ lock[k] = lock'[i] /\ lock[m] = lock'[j]
      /\ \A w : w # c /\ Holds(lock, w) => Holds(lock', w)
    <2>1. to \in Ended
        BY DEF Ended
    <2>2. QED BY <1>1, <1>2, <2>1, LeavingQueue
<1>5. UNCHANGED <<mw, file, args, sent, seen, after, loaded, overlapped>>
    BY DEF Answered, data, judged, reloading
<1>6. /\ seen[c] = mw /\ mw # None /\ answer[c] = None
    <2>1. mw \in Nat
        BY <1>1, EditsExist DEF TypeOK
    <2>2. QED BY <1>1, <2>1, NoneAssumption DEF CallersHold, CallsAreJudged
<1>7. /\ DOMAIN given' = Calls /\ DOMAIN answer' = Calls
      /\ \A d \in Calls : d # c => given'[d] = given[d] /\ answer'[d] = answer[d]
      /\ given'[c] \in Results
      /\ \/ answer'[c] = None
         \/ answer'[c] = Answers(Config(mw), given'[c]) /\ answer'[c] # << >>
    <2>1. DOMAIN given = Calls /\ DOMAIN answer = Calls
        BY <1>1 DEF TypeOK
    <2>2. PICK result \in Results :
            /\ given' = [given EXCEPT ![c] = result]
            /\ \/ /\ Answers(Config(mw), result) # << >>
                  /\ answer' = [answer EXCEPT ![c] = Answers(Config(mw), result)]
               \/ answer' = answer
        BY DEF Answered
    <2>3. QED BY <1>6, <2>1, <2>2
<1>8. TypeOK'
    BY <1>1, <1>2, <1>3, <1>4, <1>5, <1>6, <1>7 DEF TypeOK, PcFits, Entries
<1>9. QueueIsKnown'
    BY <1>4
<1>10. CallersHold'
    BY <1>1, <1>2, <1>3, <1>4, <1>5, <1>6, <1>7 DEF CallersHold
<1>11. CallsAreJudged'
    BY <1>1, <1>2, <1>3, <1>4, <1>5, <1>6, <1>7 DEF CallsAreJudged
<1>12. OverlapIsKnown'
    BY <1>1, <1>2, <1>3, <1>4, <1>5, <1>6, <1>7 DEF OverlapIsKnown, InProgress, Ended
<1>13. ReloadsLoadOnwards'
    BY <1>1, <1>2, <1>3, <1>4, <1>5, <1>6, <1>7 DEF ReloadsLoadOnwards, InProgress, Ended
<1>14. WaitsBehind'
    BY <1>1, <1>2, <1>3, <1>4, <1>5, <1>6, <1>7, WaitsLeaving DEF Ended
<1>15. ReloadTakesEffect'
    BY <1>1, <1>2, <1>3, <1>4, <1>5, <1>6, <1>7 DEF ReloadTakesEffect
<1>16. SeesReload'
    BY <1>1, <1>2, <1>3, <1>4, <1>5, <1>6, <1>7 DEF SeesReload
<1>17. QED BY <1>8, <1>9, <1>10, <1>11, <1>12, <1>13, <1>14, <1>15, <1>16 DEF Inductive

\* A reload writes when no call is between its filters and its answer.
LEMMA ReloadWritesKeeps ==
    ASSUME Inductive, NEW r \in Reloads, ReloadWrites(r)
    PROVE  Inductive'
<1>1. /\ r \in Requests /\ r \notin Calls /\ r \notin Lists
      /\ TypeOK /\ QueueIsKnown /\ CallersHold /\ CallsAreJudged /\ OverlapIsKnown
      /\ ReloadsLoadOnwards /\ WaitsBehind /\ ReloadTakesEffect /\ SeesReload
      /\ Requests = Calls \cup Lists \cup Reloads /\ (Calls \cup Lists) \cap Reloads = {}
      /\ \A q \in Calls \cup Lists : after[q] \subseteq Reloads
      /\ pc[r] = "writing" /\ Holds(lock, r)
    BY RequestAssumption DEF Requests, Inductive, TypeOK, ReloadWrites
<1>2. PICK to \in {"reloaded"} : Leaves(r, to)
    BY <1>1 DEF ReloadWrites
<1>3. PcFits' /\ pc'[r] = to /\ \A q \in Requests : q # r => pc'[q] = pc[q]
    BY <1>1, <1>2, PcKeeps DEF Leaves
<1>4. /\ lock' \in Seq(Entries) /\ QueueIsKnown'
      /\ \A i, j \in DOMAIN lock' :
           i < j => \E k, m \in DOMAIN lock : k < m /\ lock[k] = lock'[i] /\ lock[m] = lock'[j]
      /\ \A w : w # r /\ Holds(lock, w) => Holds(lock', w)
    <2>1. to \in Ended
        BY DEF Ended
    <2>2. QED BY <1>1, <1>2, <2>1, LeavingQueue
<1>5. UNCHANGED <<file, args, sent, given, answer, seen, after, loaded, overlapped>>
    BY DEF ReloadWrites, data, judged, reloading
<1>6. mw' = loaded[r] /\ loaded[r] \in 0..file /\ loaded[r] # None
    <2>1. loaded[r] # None
        BY <1>1 DEF ReloadsLoadOnwards
    <2>2. QED BY <1>1, <2>1 DEF ReloadWrites, Installed, TypeOK
<1>7. \A c \in Calls : pc[c] # "calling"
    BY <1>1, WriterIsAlone
<1>8. \A q \in Reloads \ overlapped : pc[q] = "reloaded" /\ loaded[q] # None => mw' >= loaded[q]
    BY <1>1, <1>6 DEF ReloadsLoadOnwards, InProgress, Ended
<1>9. r \notin overlapped => \A q \in Reloads : q # r => ~InProgress(q)
    BY <1>1 DEF OverlapIsKnown, InProgress, Ended
<1>10. file \in Nat
    BY <1>1, EditsExist DEF TypeOK
<1>11. TypeOK'
    BY <1>1, <1>2, <1>3, <1>4, <1>5, <1>6, <1>7, <1>8, <1>9, <1>10 DEF TypeOK, PcFits, Entries
<1>12. QueueIsKnown'
    BY <1>4
<1>13. CallersHold'
    BY <1>1, <1>2, <1>3, <1>4, <1>5, <1>6, <1>7, <1>8, <1>9, <1>10 DEF CallersHold
<1>14. CallsAreJudged'
    BY <1>1, <1>2, <1>3, <1>4, <1>5, <1>6, <1>7, <1>8, <1>9, <1>10 DEF CallsAreJudged
<1>15. OverlapIsKnown'
    BY <1>1, <1>2, <1>3, <1>4, <1>5, <1>6, <1>7, <1>8, <1>9, <1>10 DEF OverlapIsKnown, InProgress, Ended
<1>16. ReloadsLoadOnwards'
    <2>1. \A q \in Reloads : InProgress(q)' => q # r /\ InProgress(q)
        BY <1>1, <1>2, <1>3 DEF InProgress, Ended
    <2>2. loaded' = loaded /\ overlapped' = overlapped
        BY <1>5
    <2>3. pc'[r] = "reloaded" /\ \A q \in Reloads : q # r => pc'[q] = pc[q]
        BY <1>1, <1>2, <1>3
    <2>4. QED BY <1>1, <1>9, <2>1, <2>2, <2>3 DEF ReloadsLoadOnwards
<1>17. WaitsBehind'
    BY <1>1, <1>2, <1>3, <1>4, <1>5, <1>6, <1>7, <1>8, <1>9, <1>10, WaitsLeaving DEF Ended
<1>18. ReloadTakesEffect'
    BY <1>1, <1>2, <1>3, <1>4, <1>5, <1>6, <1>7, <1>8, <1>9, <1>10 DEF ReloadTakesEffect
<1>19. SeesReload'
    BY <1>1, <1>2, <1>3, <1>4, <1>5, <1>6, <1>7, <1>8, <1>9, <1>10 DEF SeesReload
<1>20. QED BY <1>11, <1>12, <1>13, <1>14, <1>15, <1>16, <1>17, <1>18, <1>19 DEF Inductive

\* An edit of the file changes nothing but what the next reload loads.
LEMMA EditKeeps ==
    ASSUME Inductive, Edit
    PROVE  Inductive'
<1>1. /\ TypeOK /\ QueueIsKnown /\ CallersHold /\ CallsAreJudged /\ OverlapIsKnown
      /\ ReloadsLoadOnwards /\ WaitsBehind /\ ReloadTakesEffect /\ SeesReload
    BY DEF Inductive
<1>2. UNCHANGED <<pc, lock, mw, args, sent, given, answer, seen, after, loaded, overlapped>>
    BY DEF Edit, data, judged, reloading
<1>3. file' \in 0..MaxEdits /\ 0..file \subseteq 0..file'
    BY <1>1, EditsExist DEF Edit, TypeOK
<1>4. TypeOK'
    <2>1. /\ PcFits' /\ lock' \in Seq([who : Requests, kind : {"read", "write"}])
          /\ mw' \in 0..file' /\ overlapped' \subseteq Reloads
          /\ after' \in [Calls \cup Lists -> SUBSET Reloads]
          /\ \A of \in {args', sent', given', answer'} : DOMAIN of = Calls
        BY <1>1, <1>2, <1>3 DEF TypeOK, PcFits
    <2>2. loaded' \in [Reloads -> 0..file' \cup {None}]
        BY <1>1, <1>2, <1>3 DEF TypeOK
    <2>3. seen' \in [Calls \cup Lists -> 0..file' \cup {None}]
        BY <1>1, <1>2, <1>3 DEF TypeOK
    <2>4. QED BY <1>3, <2>1, <2>2, <2>3 DEF TypeOK, PcFits
<1>5. QueueIsKnown' /\ CallersHold' /\ WaitsBehind'
    BY <1>1, <1>2 DEF QueueIsKnown, CallersHold, WaitsBehind, Holds
<1>6. CallsAreJudged'
    BY <1>1, <1>2 DEF CallsAreJudged
<1>7. OverlapIsKnown' /\ ReloadsLoadOnwards' /\ ReloadTakesEffect' /\ SeesReload'
    BY <1>1, <1>2 DEF OverlapIsKnown, ReloadsLoadOnwards, InProgress, ReloadTakesEffect, SeesReload
<1>8. QED BY <1>1, <1>4, <1>5, <1>6, <1>7 DEF Inductive

-----------------------------------------------------------------------------
(* The theorems *)

\* The inductive invariant.
THEOREM InductiveHolds == Spec => []Inductive
<1>1. Init => Inductive
    <2>1. SUFFICES ASSUME Init PROVE Inductive
        OBVIOUS
    <2>2. Calls \subseteq Requests /\ Lists \subseteq Requests /\ Reloads \subseteq Requests
        BY DEF Requests
    <2>3. /\ pc = [r \in Requests |-> "idle"]
          /\ lock = << >> /\ mw = 0 /\ file = 0 /\ overlapped = {}
          /\ loaded = [r \in Reloads |-> None]
          /\ args = [c \in Calls |-> None] /\ sent = args /\ given = args /\ answer = args
          /\ seen = [r \in Calls \cup Lists |-> None]
          /\ after = [r \in Calls \cup Lists |-> {}]
        BY <2>1 DEF Init
    <2>4. /\ \A r \in Requests : pc[r] = "idle"
          /\ \A r \in Reloads : loaded[r] = None
          /\ \A c \in Calls : sent[c] = None /\ answer[c] = None
        BY <2>3
    <2>5. \A r \in Calls \cup Lists : seen[r] = None /\ after[r] = {}
        BY <2>3
    <2>6. TypeOK
        <3>1. 0 \in 0..MaxEdits /\ 0 \in 0..0
            BY EditsExist
        <3>2. << >> \in Seq([who : Requests, kind : {"read", "write"}])
            OBVIOUS
        <3>3. /\ pc \in [Requests -> {"idle"}] /\ loaded \in [Reloads -> {None}]
              /\ seen \in [Calls \cup Lists -> {None}]
              /\ after \in [Calls \cup Lists -> SUBSET Reloads]
            BY <2>3
        <3>4. \A of \in {args, sent, given, answer} : DOMAIN of = Calls
            BY <2>3
        <3>5. QED BY <2>2, <2>3, <2>4, <3>1, <3>2, <3>3, <3>4 DEF TypeOK
    <2>7. QueueIsKnown /\ CallersHold
        BY <2>2, <2>3, <2>4 DEF QueueIsKnown, CallersHold
    <2>8. CallsAreJudged
        BY <2>2, <2>3, <2>4, <2>5 DEF CallsAreJudged
    <2>9. OverlapIsKnown /\ ReloadsLoadOnwards /\ ReloadTakesEffect
        BY <2>2, <2>3, <2>4 DEF OverlapIsKnown, InProgress, ReloadsLoadOnwards, ReloadTakesEffect
    <2>10. WaitsBehind /\ SeesReload
        BY <2>2, <2>4, <2>5 DEF WaitsBehind, SeesReload
    <2>11. QED BY <2>6, <2>7, <2>8, <2>9, <2>10 DEF Inductive
<1>2. Inductive /\ [Next]_vars => Inductive'
    <2>1. SUFFICES ASSUME Inductive, [Next]_vars PROVE Inductive'
        OBVIOUS
    <2>2. ASSUME NEW r \in Requests, Step(r) PROVE Inductive'
        <3>1. CASE r \in Calls /\ (CheckTool(r) \/ Enter(r) \/ CallTimeout(r))
            BY <2>1, <3>1, CheckToolKeeps, CheckToolRefusesKeeps, EnterSendsKeeps, EnterRefusesKeeps,
               CallTimeoutKeeps
        <3>2. CASE r \in Lists /\ ListReads(r)
            BY <2>1, <3>2, ListReadsKeeps
        <3>3. CASE r \in Reloads /\ (ReloadRespawns(r) \/ ReloadLoads(r) \/ ReloadQueues(r)
                                     \/ ReloadWrites(r))
            BY <2>1, <3>3, ReloadRespawnsKeeps, ReloadLoadsKeeps, ReloadQueuesKeeps, ReloadWritesKeeps
        <3>4. QED BY <2>2, <3>1, <3>2, <3>3 DEF Step
    <2>3. CASE UNCHANGED vars
        <3>1. UNCHANGED <<pc, lock, mw, file, args, sent, given, answer, seen, after, loaded, overlapped>>
            BY <2>3 DEF vars, data, judged, reloading
        <3>2. TypeOK' /\ QueueIsKnown' /\ CallersHold' /\ WaitsBehind'
            BY <2>1, <3>1 DEF Inductive, TypeOK, QueueIsKnown, CallersHold, WaitsBehind, Holds
        <3>3. CallsAreJudged'
            BY <2>1, <3>1 DEF Inductive, CallsAreJudged
        <3>4. OverlapIsKnown' /\ ReloadsLoadOnwards' /\ ReloadTakesEffect' /\ SeesReload'
            BY <2>1, <3>1 DEF Inductive, OverlapIsKnown, ReloadsLoadOnwards, InProgress,
                              ReloadTakesEffect, SeesReload
        <3>5. QED BY <3>2, <3>3, <3>4 DEF Inductive
    <2>4. QED
        BY <2>1, <2>2, <2>3, ResolveKeeps, AnsweredKeeps, BrokenKeeps, ListQueuesKeeps,
           ReloadStartsKeeps, DropKeeps, EditKeeps DEF Next, Finished
<1>3. QED BY <1>1, <1>2, PTL DEF Spec

\* Every variable keeps its type.
THEOREM TypeCorrect == Spec => []TypeOK
BY InductiveHolds, PTL DEF Inductive

\* Who waits behind a reload sees what it has loaded, or something newer.
THEOREM ReloadsAreSeen == Spec => []SeesReload
BY InductiveHolds, PTL DEF Inductive

\* What a reload by itself has loaded is in force when it has answered.
THEOREM ReloadsTakeEffect == Spec => []ReloadTakesEffect
BY InductiveHolds, PTL DEF Inductive

\* A configuration a call was judged by was loaded from an edit of the file.
LEMMA JudgedByAnEdit ==
    ASSUME TypeOK, NEW c \in Calls, seen[c] # None
    PROVE  seen[c] \in 0..MaxEdits
<1>1. seen[c] \in 0..file
    BY DEF TypeOK
<1>2. file \in 0..MaxEdits
    BY DEF TypeOK
<1>3. QED BY <1>1, <1>2, EditsExist

\* What is sent has passed every filter of the configuration the call was judged by.
THEOREM CallsAreFiltered == Spec => []OnlyJudgedIsSent
<1>1. Inductive => OnlyJudgedIsSent
    <2>1. SUFFICES ASSUME Inductive, NEW c \in Calls, sent[c] # None
                   PROVE  LET cfg == Config(seen[c]) IN
                            /\ ~cfg.tool.hidden
                            /\ \A f \in ToSet(cfg.global.filters) \cup ToSet(cfg.tool.filters) :
                                IF f.type = "require" THEN Present(args[c], f.key)
                                ELSE f.pattern \in DOMAIN Regexes /\ f.key \in DOMAIN args[c]
                                        => args[c][f.key] \notin Regexes[f.pattern]
        BY DEF OnlyJudgedIsSent
    <2>. DEFINE cfg == Config(seen[c])
                global == cfg.global.filters
                tool == cfg.tool.filters
    <2>2. seen[c] \in 0..MaxEdits /\ ~Refuses(cfg, args[c])
        BY <2>1, JudgedByAnEdit DEF Inductive, CallsAreJudged
    <2>3. global \in Seq(Steps(Filters)) /\ tool \in Seq(Steps(Filters))
        BY <2>2, ChainsAreLoaded
    <2>4. ~cfg.tool.hidden /\ ~Denied(Chain(cfg, "filters"), args[c])
        BY <2>2 DEF Refuses
    <2>5. Chain(cfg, "filters") = global \o tool
        BY DEF Chain
    <2>6. ASSUME NEW f \in ToSet(global) \cup ToSet(tool)
          PROVE  f \in Steps(Filters) /\ \E i \in DOMAIN (global \o tool) : (global \o tool)[i] = f
        <3>. HIDE DEF global, tool
        <3>1. /\ DOMAIN global = 1..Len(global) /\ Len(global) \in Nat
              /\ DOMAIN tool = 1..Len(tool) /\ Len(tool) \in Nat
              /\ DOMAIN (global \o tool) = 1..(Len(global) + Len(tool))
              /\ \A i \in 1..(Len(global) + Len(tool)) :
                    (global \o tool)[i] = IF i <= Len(global) THEN global[i] ELSE tool[i - Len(global)]
            BY <2>3, ConcatProperties, LenProperties
        <3>2. CASE f \in ToSet(global)
            BY <2>3, <3>1, <3>2, ElementOfSeq DEF ToSet
        <3>3. CASE f \in ToSet(tool)
            <4>1. PICK i \in 1..Len(tool) : tool[i] = f
                BY <3>1, <3>3 DEF ToSet
            <4>2. /\ Len(global) + i \in 1..(Len(global) + Len(tool))
                  /\ ~(Len(global) + i <= Len(global)) /\ (Len(global) + i) - Len(global) = i
                BY <3>1
            <4>3. (global \o tool)[Len(global) + i] = f
                BY <3>1, <4>1, <4>2
            <4>4. QED BY <2>3, <3>1, <4>1, <4>2, <4>3, ElementOfSeq
        <3>4. QED BY <3>2, <3>3
    <2>7. ASSUME NEW f \in ToSet(global) \cup ToSet(tool)
          PROVE  IF f.type = "require" THEN Present(args[c], f.key)
                 ELSE f.pattern \in DOMAIN Regexes /\ f.key \in DOMAIN args[c]
                        => args[c][f.key] \notin Regexes[f.pattern]
        <3>. HIDE DEF global, tool, cfg
        <3>1. ~Denies(f, args[c])
            BY <2>4, <2>5, <2>6 DEF Denied
        <3>2. f.type \in {"block", "require"}
            BY <2>6, StepsHaveFields
        <3>3. CASE f.type = "block"
            BY <3>1, <3>3 DEF Denies
        <3>4. CASE f.type = "require"
            BY <3>1, <3>4 DEF Denies
        <3>5. QED BY <3>2, <3>3, <3>4
    <2>8. QED BY <2>4, <2>7
<1>2. QED BY <1>1, InductiveHolds, PTL

\* The MCP server is told of the verified identity only.
THEOREM CallersAreVerified == Spec => []IdentityIsVerified
<1>1. Inductive => IdentityIsVerified
    <2>1. SUFFICES ASSUME Inductive, NEW c \in Calls, sent[c] # None, Identity # None,
                          SmithIdentity \notin Touched(Chain(Config(seen[c]), "input"))
                   PROVE  SmithIdentity \in DOMAIN sent[c] /\ sent[c][SmithIdentity] = Identity
        BY DEF IdentityIsVerified
    <2>. DEFINE chain == Chain(Config(seen[c]), "input")
    <2>2. /\ seen[c] \in 0..MaxEdits
          /\ SmithIdentity \in DOMAIN args[c] /\ args[c][SmithIdentity] = Identity
          /\ sent[c] = TransformedInput(args[c], chain)
        BY <2>1, JudgedByAnEdit DEF Inductive, CallsAreJudged, Sends
    <2>3. chain \in Seq(Steps(Transforms))
        BY <2>2, ChainsAreLoaded
    <2>4. SmithIdentity \notin Touched(chain)
        BY <2>1
    <2>. HIDE DEF chain
    <2>5. QED BY <2>2, <2>3, <2>4, IdentityIsKeptByChain
<1>2. QED BY <1>1, InductiveHolds, PTL

\* What a redact matches is in no answer.
THEOREM RedactedIsGone == Spec => []NothingRedactedIsAnswered
<1>1. Inductive => NothingRedactedIsAnswered
    <2>1. SUFFICES ASSUME Inductive, NEW c \in Calls, answer[c] # None
                   PROVE  LET redacts == {s \in ToSet(Chain(Config(seen[c]), "output")) : s.type = "redact"}
                              templates == {s \in ToSet(Chain(Config(seen[c]), "output")) : s.type = "template"}
                              put == {s.replacement : s \in redacts}
                                        \cup {Wraps[s.template] : s \in {t \in templates : t.template \in DOMAIN Wraps}}
                              bare == WordsOf(given[c], {"number"}) \cup KeysOf(given[c])
                          IN  \A s \in redacts :
                                /\ s.pattern \in DOMAIN Regexes
                                /\ WordsOf(answer[c], {"text"}) \cap Regexes[s.pattern] \subseteq put \cup bare
        BY DEF NothingRedactedIsAnswered
    <2>. DEFINE chain == Chain(Config(seen[c]), "output")
                redacts == {s \in ToSet(chain) : s.type = "redact"}
                templates == {s \in ToSet(chain) : s.type = "template"}
                put == {s.replacement : s \in redacts}
                        \cup {Wraps[s.template] : s \in {t \in templates : t.template \in DOMAIN Wraps}}
                bare == WordsOf(given[c], {"number"}) \cup KeysOf(given[c])
                kept == put \cup bare
    <2>2. /\ seen[c] \in 0..MaxEdits /\ given[c] \in Results /\ answer[c] # << >>
          /\ answer[c] = TransformedOutput(given[c], chain)
        BY <2>1, JudgedByAnEdit DEF Inductive, CallsAreJudged, Answers
    <2>3. chain \in Seq(Steps(Transforms))
        BY <2>2, ChainsAreLoaded
    <2>4. \A words : Clean(given[c], words, kept, FALSE)
        <3>1. IsResult(given[c])
            BY <2>2, ResultAssumption
        <3>2. \A path \in DOMAIN given[c] :
                /\ ToSet(path) \subseteq bare
                /\ given[c][path].kind = "number" => given[c][path].words \subseteq bare
            BY DEF WordsOf, KeysOf
        <3>. HIDE DEF put, bare
        <3>3. \A path \in DOMAIN given[c] :
                /\ ToSet(path) \subseteq kept
                /\ given[c][path].kind = "number" => given[c][path].words \subseteq kept
            BY <3>2
        <3>. HIDE DEF kept
        <3>4. QED BY <3>1, <3>3 DEF Clean
    <2>. HIDE DEF bare
    <2>5. DOMAIN chain = 1..Len(chain) /\ \A i \in 1..Len(chain) : chain[i] \in ToSet(chain)
        <3>. HIDE DEF chain
        <3>1. QED BY <2>3, LenProperties DEF ToSet
    <2>6. ASSUME NEW i \in 1..Len(chain)
          PROVE  /\ chain[i].type = "redact" => chain[i].replacement \in kept
                 /\ chain[i].type = "template" /\ chain[i].template \in DOMAIN Wraps
                        => Wraps[chain[i].template] \in kept
        <3>. HIDE DEF chain
        <3>1. QED BY <2>5
    <2>7. ASSUME NEW s \in redacts
          PROVE  /\ s.pattern \in DOMAIN Regexes
                 /\ WordsOf(answer[c], {"text"}) \cap Regexes[s.pattern] \subseteq kept
        <3>1. PICK k \in 1..Len(chain) : chain[k] = s /\ chain[k].type = "redact"
            <4>. HIDE DEF chain
            <4>1. QED BY <2>5 DEF ToSet
        <3>. HIDE DEF chain, kept
        <3>2. /\ s.pattern \in DOMAIN Regexes
              /\ Clean(answer[c], Regexes[s.pattern], kept, TRUE)
            BY <2>2, <2>3, <2>4, <2>6, <3>1, RedactsLast
        <3>3. WordsOf(answer[c], {"text"}) \cap Regexes[s.pattern] \subseteq kept
            BY <3>2 DEF Clean, WordsOf
        <3>4. QED BY <3>2, <3>3
    <2>8. QED BY <2>7 DEF bare
<1>2. QED BY <1>1, InductiveHolds, PTL
=============================================================================

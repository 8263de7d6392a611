---------------------------- MODULE CatalogProofs ----------------------------
(***************************************************************************)
(* The catalog, for any upstreams, any number of requests and any bounds:  *)
(* the list and the index are of one poll and hold nothing older, and the  *)
(* filter keeps its slots busy and its answer in order.  The index and the *)
(* filter share the stage of one request only: each action is proved for   *)
(* the part it is about.                                                   *)
(***************************************************************************)
EXTENDS CatalogSearch, SequenceTheorems, FiniteSetTheorems, WellFoundedInduction, TLAPS

-----------------------------------------------------------------------------
(* The queue of a lock *)

\* What is behind the entry that is removed moves up by one.
LEMMA Removed ==
    ASSUME NEW S, NEW s \in Seq(S), NEW k \in 1..Len(s)
    PROVE  /\ RemoveAt(s, k) \in Seq(S) /\ Len(RemoveAt(s, k)) = Len(s) - 1
           /\ \A i \in 1..(Len(s) - 1) :
                RemoveAt(s, k)[i] = IF i < k THEN s[i] ELSE s[i + 1]
<1>1. Len(s) \in Nat /\ \A i \in 1..Len(s) : s[i] \in S
    BY ElementOfSeq, LenProperties
<1>. DEFINE ahead == SubSeq(s, 1, k - 1)
            behind == SubSeq(s, k + 1, Len(s))
<1>2. ahead \in Seq(S) /\ Len(ahead) = k - 1 /\ \A i \in 1..(k - 1) : ahead[i] = s[i]
    <2>1. \A i \in 1..(k - 1) : s[i] \in S
        BY <1>1
    <2>2. /\ ahead \in Seq(S)
          /\ Len(ahead) = IF 1 <= k - 1 THEN (k - 1) - 1 + 1 ELSE 0
          /\ \A i \in 1..((k - 1) - 1 + 1) : ahead[i] = s[1 + i - 1]
        BY <1>1, <2>1, SubSeqProperties
    <2>3. QED BY <1>1, <2>2
<1>3. /\ behind \in Seq(S) /\ Len(behind) = Len(s) - k
      /\ \A i \in 1..(Len(s) - k) : behind[i] = s[k + i]
    <2>1. \A i \in (k + 1)..Len(s) : s[i] \in S
        BY <1>1
    <2>2. /\ behind \in Seq(S)
          /\ Len(behind) = IF k + 1 <= Len(s) THEN Len(s) - (k + 1) + 1 ELSE 0
          /\ \A i \in 1..(Len(s) - (k + 1) + 1) : behind[i] = s[(k + 1) + i - 1]
        BY <1>1, <2>1, SubSeqProperties
    <2>3. QED BY <1>1, <2>2
<1>4. /\ ahead \o behind \in Seq(S)
      /\ Len(ahead \o behind) = Len(ahead) + Len(behind)
      /\ \A i \in 1..(Len(ahead) + Len(behind)) :
            (ahead \o behind)[i] = IF i <= Len(ahead) THEN ahead[i] ELSE behind[i - Len(ahead)]
    BY <1>2, <1>3, ConcatProperties
<1>5. RemoveAt(s, k) = ahead \o behind
    BY DEF RemoveAt
<1>. HIDE DEF ahead, behind
<1>6. Len(ahead) + Len(behind) = Len(s) - 1
    BY <1>1, <1>2, <1>3
<1>7. ASSUME NEW i \in 1..(Len(s) - 1)
      PROVE  (ahead \o behind)[i] = IF i < k THEN s[i] ELSE s[i + 1]
    <2>1. (ahead \o behind)[i] = IF i <= Len(ahead) THEN ahead[i] ELSE behind[i - Len(ahead)]
        BY <1>4, <1>6
    <2>2. CASE i < k
        BY <1>1, <1>2, <2>1, <2>2
    <2>3. CASE ~(i < k)
        <3>1. i - (k - 1) \in 1..(Len(s) - k) /\ ~(i <= k - 1)
            BY <1>1, <2>3
        <3>2. behind[i - (k - 1)] = s[k + (i - (k - 1))] /\ k + (i - (k - 1)) = i + 1
            BY <1>1, <1>3, <3>1
        <3>3. QED BY <1>2, <2>1, <2>3, <3>1, <3>2
    <2>4. QED BY <2>2, <2>3
<1>8. QED BY <1>4, <1>5, <1>6, <1>7

\* Who is in a queue reads or writes.
LEMMA InQueue ==
    ASSUME NEW lock, NEW readers, NEW writers, IsQueue(lock, readers, writers)
    PROVE  \A i \in DOMAIN lock :
            /\ lock[i] \in [who : Requests \cup {Poller}, kind : {"read", "write"}]
            /\ lock[i] \in ToSet(lock) /\ lock[i].who \in readers \cup writers
<1>. DEFINE Entry == [who : Requests \cup {Poller}, kind : {"read", "write"}]
<1>1. \A i \in DOMAIN lock : lock[i] \in Entry
    <2>1. lock \in Seq(Entry)
        BY DEF IsQueue
    <2>. HIDE DEF Entry
    <2>2. QED BY <2>1, LenProperties, ElementOfSeq
<1>2. \A i \in DOMAIN lock : lock[i] \in ToSet(lock)
    BY DEF ToSet
<1>3. ASSUME NEW i \in DOMAIN lock PROVE lock[i].who \in readers \cup writers
    <2>1. lock[i].who \in Queued(lock, lock[i].kind)
        BY <1>2 DEF Queued
    <2>2. CASE lock[i].kind = "read"
        BY <2>1, <2>2 DEF IsQueue
    <2>3. CASE lock[i].kind = "write"
        BY <2>1, <2>3 DEF IsQueue
    <2>4. QED BY <1>1, <2>2, <2>3
<1>4. QED BY <1>1, <1>2, <1>3

\* Who was not in a queue joins it.
LEMMA Queues ==
    ASSUME NEW lock, NEW readers, NEW writers, IsQueue(lock, readers, writers),
           NEW w \in Requests \cup {Poller}, w \notin readers \cup writers
    PROVE  /\ IsQueue(Reads(lock, w), readers \cup {w}, writers)
           /\ IsQueue(Writes(lock, w), readers, writers \cup {w})
<1>. DEFINE Entry == [who : Requests \cup {Poller}, kind : {"read", "write"}]
<1>1. ASSUME NEW kind \in {"read", "write"}, NEW t, t = Append(lock, QueueEntry(w, kind))
      PROVE  /\ t \in Seq(Entry)
             /\ \A i, j \in DOMAIN t : t[i].who = t[j].who => i = j
             /\ ToSet(t) = ToSet(lock) \cup {QueueEntry(w, kind)}
    <2>1. lock \in Seq(Entry) /\ DOMAIN lock = 1..Len(lock) /\ Len(lock) \in Nat
        BY LenProperties DEF IsQueue
    <2>2. QueueEntry(w, kind) \in Entry /\ QueueEntry(w, kind).who = w
        BY DEF QueueEntry
    <2>. HIDE DEF Entry
    <2>3. /\ t \in Seq(Entry) /\ Len(t) = Len(lock) + 1
          /\ \A i \in 1..Len(lock) : t[i] = lock[i]
          /\ t[Len(lock) + 1] = QueueEntry(w, kind)
        BY <1>1, <2>1, <2>2, AppendProperties
    <2>4. DOMAIN t = 1..(Len(lock) + 1)
        BY <2>3, LenProperties
    <2>5. \A i \in DOMAIN lock : lock[i].who # w
        BY InQueue
    <2>6. \A i, j \in DOMAIN t : t[i].who = t[j].who => i = j
        <3>1. \A i, j \in DOMAIN lock : lock[i].who = lock[j].who => i = j
            BY DEF IsQueue
        <3>2. QED BY <2>1, <2>2, <2>3, <2>4, <2>5, <3>1
    <2>7. ToSet(t) = ToSet(lock) \cup {QueueEntry(w, kind)}
        BY <2>1, <2>3, <2>4 DEF ToSet
    <2>8. QED BY <2>3, <2>6, <2>7
<1>2. QueueEntry(w, "read").who = w /\ QueueEntry(w, "read").kind = "read"
      /\ QueueEntry(w, "write").who = w /\ QueueEntry(w, "write").kind = "write"
    BY DEF QueueEntry
<1>3. /\ Queued(Reads(lock, w), "read") = Queued(lock, "read") \cup {w}
      /\ Queued(Reads(lock, w), "write") = Queued(lock, "write")
    <2>1. ToSet(Reads(lock, w)) = ToSet(lock) \cup {QueueEntry(w, "read")}
        BY <1>1 DEF Reads
    <2>2. QED BY <1>2, <2>1 DEF Queued
<1>4. /\ Queued(Writes(lock, w), "write") = Queued(lock, "write") \cup {w}
      /\ Queued(Writes(lock, w), "read") = Queued(lock, "read")
    <2>1. ToSet(Writes(lock, w)) = ToSet(lock) \cup {QueueEntry(w, "write")}
        BY <1>1 DEF Writes
    <2>2. QED BY <1>2, <2>1 DEF Queued
<1>5. Queued(lock, "read") = readers /\ Queued(lock, "write") = writers
    BY DEF IsQueue
<1>6. IsQueue(Reads(lock, w), readers \cup {w}, writers)
    <2>1. /\ Reads(lock, w) \in Seq(Entry)
          /\ \A i, j \in DOMAIN Reads(lock, w) : Reads(lock, w)[i].who = Reads(lock, w)[j].who => i = j
        BY <1>1 DEF Reads
    <2>2. QED BY <1>3, <1>5, <2>1 DEF IsQueue
<1>7. IsQueue(Writes(lock, w), readers, writers \cup {w})
    <2>1. /\ Writes(lock, w) \in Seq(Entry)
          /\ \A i, j \in DOMAIN Writes(lock, w) : Writes(lock, w)[i].who = Writes(lock, w)[j].who => i = j
        BY <1>1 DEF Writes
    <2>2. QED BY <1>4, <1>5, <2>1 DEF IsQueue
<1>8. QED BY <1>6, <1>7

\* Who leaves a queue is in it no more; the others are.
LEMMA Unqueues ==
    ASSUME NEW lock, NEW readers, NEW writers, IsQueue(lock, readers, writers), NEW w
    PROVE  IsQueue(Without(lock, w), readers \ {w}, writers \ {w})
<1>. DEFINE Entry == [who : Requests \cup {Poller}, kind : {"read", "write"}]
            t == Without(lock, w)
<1>1. /\ lock \in Seq(Entry) /\ DOMAIN lock = 1..Len(lock) /\ Len(lock) \in Nat
      /\ \A i, j \in DOMAIN lock : lock[i].who = lock[j].who => i = j
      /\ Queued(lock, "read") = readers /\ Queued(lock, "write") = writers
    BY LenProperties DEF IsQueue
<1>2. CASE \A i \in DOMAIN lock : lock[i].who # w
    <2>1. t = lock
        BY <1>2 DEF Without
    <2>2. w \notin Queued(lock, "read") /\ w \notin Queued(lock, "write")
        BY <1>2 DEF Queued, ToSet
    <2>3. readers \ {w} = readers /\ writers \ {w} = writers
        BY <1>1, <2>2
    <2>4. QED BY <2>1, <2>3
<1>3. CASE ~ \A i \in DOMAIN lock : lock[i].who # w
    <2>1. PICK k \in DOMAIN lock : lock[k].who = w /\ t = RemoveAt(lock, k)
        BY <1>3 DEF Without
    <2>. HIDE DEF Entry, t
    <2>2. /\ t \in Seq(Entry) /\ Len(t) = Len(lock) - 1
          /\ \A i \in 1..(Len(lock) - 1) : t[i] = IF i < k THEN lock[i] ELSE lock[i + 1]
        <3>1. k \in 1..Len(lock)
            BY <1>1
        <3>2. /\ RemoveAt(lock, k) \in Seq(Entry) /\ Len(RemoveAt(lock, k)) = Len(lock) - 1
              /\ \A i \in 1..(Len(lock) - 1) :
                    RemoveAt(lock, k)[i] = IF i < k THEN lock[i] ELSE lock[i + 1]
            <4>1. lock \in Seq(Entry)
                BY <1>1
            <4>2. QED BY <3>1, <4>1, Removed
        <3>3. QED BY <2>1, <3>2
    <2>3. DOMAIN t = 1..(Len(lock) - 1)
        BY <2>2, LenProperties
    <2>. DEFINE old == [i \in DOMAIN t |-> IF i < k THEN i ELSE i + 1]
    <2>4. \A i \in DOMAIN t : old[i] \in DOMAIN lock /\ old[i] # k /\ t[i] = lock[old[i]]
        BY <1>1, <2>1, <2>2, <2>3
    <2>5. \A i, j \in DOMAIN t : old[i] = old[j] => i = j
        BY <1>1, <2>1, <2>3
    <2>6. \A l \in DOMAIN lock : l # k => \E i \in DOMAIN t : old[i] = l
        <3>1. SUFFICES ASSUME NEW l \in DOMAIN lock, l # k PROVE \E i \in DOMAIN t : old[i] = l
            OBVIOUS
        <3>2. CASE l < k
            BY <1>1, <2>1, <2>3, <3>2
        <3>3. CASE l > k
            <4>1. l - 1 \in DOMAIN t /\ old[l - 1] = l
                BY <1>1, <2>1, <2>3, <3>3
            <4>2. QED BY <4>1
        <3>4. QED BY <1>1, <2>1, <3>1, <3>2, <3>3
    <2>. HIDE DEF old
    <2>7. \A i, j \in DOMAIN t : t[i].who = t[j].who => i = j
        BY <1>1, <2>4, <2>5
    <2>8. ToSet(t) = {e \in ToSet(lock) : e.who # w}
        <3>1. \A i \in DOMAIN t : t[i] \in ToSet(lock) /\ t[i].who # w
            BY <1>1, <2>1, <2>4 DEF ToSet
        <3>2. \A l \in DOMAIN lock : lock[l].who # w => \E i \in DOMAIN t : t[i] = lock[l]
            BY <2>1, <2>4, <2>6
        <3>3. QED BY <3>1, <3>2 DEF ToSet
    <2>9. Queued(t, "read") = readers \ {w} /\ Queued(t, "write") = writers \ {w}
        BY <1>1, <2>8 DEF Queued
    <2>10. IsQueue(t, readers \ {w}, writers \ {w})
        BY <2>2, <2>7, <2>9 DEF IsQueue, Entry
    <2>11. QED BY <2>10 DEF t
<1>4. QED BY <1>2, <1>3

-----------------------------------------------------------------------------
(* Lists of tools *)

\* Induction over the natural numbers, for a set: where it ends, it ends first.
LEMMA Smallest ==
    ASSUME NEW S \in SUBSET Nat, S # {}
    PROVE  \E k \in S : k = 0 \/ k - 1 \notin S
<1>1. PICK k \in S : \A l \in S : ~(<<l, k>> \in OpToRel(<, Nat))
    BY NatLessThanWellFounded, WFMin, Zenon
<1>2. \A l \in S : ~(l < k)
    BY <1>1 DEF OpToRel
<1>3. k = 0 \/ k - 1 \notin S
    BY <1>2
<1>4. QED BY <1>3

\* What is picked from a list is what is chosen, in the list's order.
LEMMA PickedInOrder ==
    ASSUME NEW S, NEW list \in Seq(S), NEW chosen \in SUBSET DOMAIN list
    PROVE  /\ Picked(list, chosen) \in Seq(S)
           /\ \E pick \in [DOMAIN Picked(list, chosen) -> DOMAIN list] :
                /\ Range(pick) = chosen
                /\ \A j, k \in DOMAIN pick : j < k => pick[j] < pick[k]
                /\ \A j \in DOMAIN pick : Picked(list, chosen)[j] = list[pick[j]]
<1>1. DOMAIN list = 1..Len(list) /\ Len(list) \in Nat /\ \A i \in 1..Len(list) : list[i] \in S
    BY LenProperties, ElementOfSeq
<1>. DEFINE Follows(f, n) ==
        f = [i \in 0..n |-> IF i = 0 THEN << >>
                            ELSE IF i \in chosen THEN Append(f[i - 1], list[i]) ELSE f[i - 1]]
<1>2. \A n \in Nat : \E f : Follows(f, n)
    <2>. DEFINE Gaps == {n \in Nat : ~ \E f : Follows(f, n)}
    <2>1. SUFFICES ASSUME Gaps # {} PROVE FALSE
        OBVIOUS
    <2>2. PICK n \in Gaps : n = 0 \/ n - 1 \notin Gaps
        BY <2>1, Smallest
    <2>3. CASE n = 0
        <3>1. Follows([i \in 0..0 |-> << >>], 0)
            OBVIOUS
        <3>2. QED BY <2>2, <2>3, <3>1
    <2>4. CASE n # 0
        <3>1. n - 1 \in Nat /\ n \in Nat
            BY <2>2, <2>4
        <3>2. PICK f : Follows(f, n - 1)
            BY <2>2, <2>4, <3>1
        <3>. DEFINE last == IF n \in chosen THEN Append(f[n - 1], list[n]) ELSE f[n - 1]
                    g == [i \in 0..n |-> IF i = n THEN last ELSE f[i]]
        <3>3. \A i \in 0..(n - 1) :
                f[i] = IF i = 0 THEN << >>
                       ELSE IF i \in chosen THEN Append(f[i - 1], list[i]) ELSE f[i - 1]
            BY <3>2
        <3>4. ASSUME NEW i \in 0..n
              PROVE  g[i] = IF i = 0 THEN << >>
                            ELSE IF i \in chosen THEN Append(g[i - 1], list[i]) ELSE g[i - 1]
            <4>1. CASE i = n
                <5>1. i # 0 /\ i - 1 \in 0..n /\ i - 1 # n
                    BY <2>4, <3>1, <4>1
                <5>2. g[i - 1] = f[i - 1]
                    BY <5>1
                <5>3. QED BY <4>1, <5>1, <5>2
            <4>2. CASE i # n
                <5>1. i \in 0..(n - 1) /\ g[i] = f[i]
                    BY <3>1, <4>2
                <5>2. i # 0 => i - 1 \in 0..n /\ i - 1 # n /\ g[i - 1] = f[i - 1]
                    BY <3>1, <4>2
                <5>3. QED BY <3>3, <5>1, <5>2
            <4>3. QED BY <4>1, <4>2
        <3>5. g = [i \in 0..n |-> g[i]]
            OBVIOUS
        <3>. HIDE DEF g
        <3>6. Follows(g, n)
            BY <3>4, <3>5
        <3>7. QED BY <2>2, <3>6
    <2>5. QED BY <2>3, <2>4
<1>. DEFINE upTo == CHOOSE f : Follows(f, Len(list))
<1>3. Picked(list, chosen) = upTo[Len(list)]
    BY DEF Picked
<1>4. Follows(upTo, Len(list))
    <2>. HIDE DEF Follows
    <2>1. QED BY <1>1, <1>2
<1>. HIDE DEF upTo
<1>5. upTo[0] = << >>
    BY <1>1, <1>4
<1>6. \A i \in 1..Len(list) :
        /\ i \in chosen => upTo[i] = Append(upTo[i - 1], list[i])
        /\ i \notin chosen => upTo[i] = upTo[i - 1]
    <2>1. SUFFICES ASSUME NEW i \in 1..Len(list)
                   PROVE  upTo[i] = IF i \in chosen THEN Append(upTo[i - 1], list[i]) ELSE upTo[i - 1]
        OBVIOUS
    <2>2. i \in 0..Len(list) /\ i # 0
        BY <1>1
    <2>3. QED BY <1>4, <2>2
<1>. HIDE DEF Follows
<1>. DEFINE Fits(n, pick) ==
        /\ pick \in [1..Len(upTo[n]) -> 1..n]
        /\ {pick[j] : j \in 1..Len(upTo[n])} = chosen \cap 1..n
        /\ \A j, k \in 1..Len(upTo[n]) : j < k => pick[j] < pick[k]
        /\ \A j \in 1..Len(upTo[n]) : upTo[n][j] = list[pick[j]]
            Good(n) == upTo[n] \in Seq(S) /\ \E pick : Fits(n, pick)
            Bad == {n \in 0..Len(list) : ~Good(n)}
<1>7. Good(0)
    <2>1. upTo[0] \in Seq(S) /\ Len(upTo[0]) = 0
        BY <1>5
    <2>2. Fits(0, << >>)
        BY <2>1
    <2>3. QED BY <2>1, <2>2
<1>8. ASSUME NEW n \in 1..Len(list), Good(n - 1) PROVE Good(n)
    <2>1. PICK pick : Fits(n - 1, pick)
        BY <1>8
    <2>2. upTo[n - 1] \in Seq(S) /\ Len(upTo[n - 1]) \in Nat
        BY <1>8, LenProperties
    <2>3. n \in Nat /\ n - 1 \in Nat /\ 1..(n - 1) \subseteq 1..n /\ n \notin 1..(n - 1)
        BY <1>1
    <2>4. CASE n \notin chosen
        <3>1. upTo[n] = upTo[n - 1]
            BY <1>6, <2>4
        <3>2. chosen \cap 1..n = chosen \cap 1..(n - 1)
            BY <2>3, <2>4
        <3>3. Fits(n, pick)
            BY <2>1, <2>3, <3>1, <3>2
        <3>4. QED BY <2>2, <3>1, <3>3
    <2>5. CASE n \in chosen
        <3>. DEFINE last == Len(upTo[n - 1])
                    grown == [j \in 1..(last + 1) |-> IF j = last + 1 THEN n ELSE pick[j]]
        <3>1. /\ upTo[n] \in Seq(S) /\ Len(upTo[n]) = last + 1
              /\ \A j \in 1..last : upTo[n][j] = upTo[n - 1][j]
              /\ upTo[n][last + 1] = list[n]
            <4>1. list[n] \in S /\ upTo[n] = Append(upTo[n - 1], list[n])
                BY <1>1, <1>6, <2>5
            <4>2. QED BY <2>2, <4>1, AppendProperties
        <3>2. chosen \cap 1..n = (chosen \cap 1..(n - 1)) \cup {n}
            BY <2>3, <2>5
        <3>3. \A j \in 1..last : j \in 1..(last + 1) /\ grown[j] = pick[j] /\ pick[j] \in 1..(n - 1)
            BY <2>1, <2>2
        <3>4. last + 1 \in 1..(last + 1) /\ grown[last + 1] = n
              /\ \A j \in 1..(last + 1) : j \in 1..last \/ j = last + 1
            BY <2>2
        <3>5. grown \in [1..(last + 1) -> 1..n]
            <4>1. n \in 1..n
                BY <1>1
            <4>2. \A j \in 1..last : grown[j] \in 1..n
                BY <2>3, <3>3
            <4>3. \A j \in 1..(last + 1) : grown[j] \in 1..n
                <5>. HIDE DEF grown
                <5>1. QED BY <3>4, <4>1, <4>2
            <4>4. QED BY <4>3
        <3>. HIDE DEF grown
        <3>6. {grown[j] : j \in 1..(last + 1)} = {pick[j] : j \in 1..last} \cup {n}
            BY <3>3, <3>4
        <3>7. \A j, k \in 1..(last + 1) : j < k => grown[j] < grown[k]
            <4>1. \A j, k \in 1..last : j < k => pick[j] < pick[k]
                BY <2>1
            <4>2. \A j \in 1..last : pick[j] < n
                BY <2>3, <3>3
            <4>3. \A j, k \in 1..(last + 1) : j < k => j \in 1..last
                BY <2>2
            <4>4. QED BY <3>3, <3>4, <4>1, <4>2, <4>3
        <3>8. \A j \in 1..(last + 1) : upTo[n][j] = list[grown[j]]
            BY <2>1, <3>1, <3>3, <3>4
        <3>9. Fits(n, grown)
            BY <2>1, <3>1, <3>2, <3>5, <3>6, <3>7, <3>8
        <3>10. QED BY <3>1, <3>9
    <2>6. QED BY <2>4, <2>5
<1>9. Bad = {}
    <2>1. SUFFICES ASSUME Bad # {} PROVE FALSE
        OBVIOUS
    <2>. HIDE DEF Good
    <2>2. Bad \in SUBSET Nat
        BY <1>1
    <2>3. PICK n \in Bad : n = 0 \/ n - 1 \notin Bad
        BY <2>1, <2>2, Smallest
    <2>4. n # 0 /\ n \in 0..Len(list) /\ ~Good(n)
        BY <1>7, <2>3
    <2>5. n \in 1..Len(list) /\ n - 1 \in 0..Len(list)
        BY <1>1, <2>4
    <2>6. Good(n - 1)
        BY <2>3, <2>4, <2>5
    <2>7. QED BY <1>8, <2>4, <2>5, <2>6
<1>10. Good(Len(list))
    <2>. HIDE DEF Good
    <2>1. QED BY <1>1, <1>9
<1>11. PICK pick : Fits(Len(list), pick)
    BY <1>10
<1>. DEFINE out == upTo[Len(list)]
<1>12. out \in Seq(S) /\ DOMAIN out = 1..Len(out) /\ chosen \cap 1..Len(list) = chosen
    BY <1>1, <1>10, LenProperties
<1>13. /\ pick \in [DOMAIN out -> DOMAIN list]
       /\ {pick[j] : j \in 1..Len(out)} = chosen
       /\ \A j, k \in 1..Len(out) : j < k => pick[j] < pick[k]
       /\ \A j \in 1..Len(out) : out[j] = list[pick[j]]
    BY <1>1, <1>11, <1>12
<1>14. DOMAIN pick = 1..Len(out)
    BY <1>12, <1>13
<1>. HIDE DEF out
<1>15. /\ Range(pick) = chosen
       /\ \A j, k \in DOMAIN pick : j < k => pick[j] < pick[k]
       /\ \A j \in DOMAIN pick : out[j] = list[pick[j]]
    BY <1>13, <1>14 DEF Range
<1>16. Picked(list, chosen) = out
    BY <1>3 DEF out
<1>17. QED BY <1>12, <1>13, <1>15, <1>16

\* A sequence of lists makes one list.
LEMMA FlattenIsSeq ==
    ASSUME NEW S, NEW lists \in Seq(Seq(S))
    PROVE  FlattenSeq(lists) \in Seq(S)
<1>1. DOMAIN lists = 1..Len(lists) /\ Len(lists) \in Nat /\ \A i \in 1..Len(lists) : lists[i] \in Seq(S)
    BY LenProperties, ElementOfSeq
<1>2. CASE Len(lists) = 0
    <2>1. lists = << >>
        BY <1>2, EmptySeq
    <2>2. QED BY <1>2, <2>1 DEF FlattenSeq
<1>3. CASE Len(lists) # 0
    <2>. DEFINE Follows(f, n) ==
            f = [i \in 1..n |-> IF i = 1 THEN lists[i] ELSE f[i - 1] \o lists[i]]
    <2>1. \A n \in Nat \ {0} : \E f : Follows(f, n)
        <3>. DEFINE Gaps == {n \in Nat : n # 0 /\ ~ \E f : Follows(f, n)}
        <3>1. SUFFICES ASSUME Gaps # {} PROVE FALSE
            OBVIOUS
        <3>2. PICK n \in Gaps : n = 0 \/ n - 1 \notin Gaps
            BY <3>1, Smallest
        <3>3. CASE n = 1
            <4>. DEFINE one == [i \in 1..1 |-> lists[i]]
            <4>1. one = [i \in 1..1 |-> IF i = 1 THEN lists[i] ELSE one[i - 1] \o lists[i]]
                OBVIOUS
            <4>. HIDE DEF one
            <4>2. QED BY <3>2, <3>3, <4>1
        <3>4. CASE n # 1
            <4>1. n - 1 \in Nat /\ n \in Nat /\ n - 1 # 0
                BY <3>2, <3>4
            <4>2. PICK f : Follows(f, n - 1)
                BY <3>2, <4>1
            <4>. DEFINE g == [i \in 1..n |-> IF i = n THEN f[n - 1] \o lists[n] ELSE f[i]]
            <4>3. \A i \in 1..(n - 1) : f[i] = IF i = 1 THEN lists[i] ELSE f[i - 1] \o lists[i]
                BY <4>2
            <4>4. ASSUME NEW i \in 1..n
                  PROVE  g[i] = IF i = 1 THEN lists[i] ELSE g[i - 1] \o lists[i]
                <5>1. CASE i = n
                    <6>1. i # 1 /\ i - 1 \in 1..n /\ i - 1 # n
                        BY <3>4, <4>1, <5>1
                    <6>2. g[i - 1] = f[i - 1]
                        BY <6>1
                    <6>3. QED BY <5>1, <6>1, <6>2
                <5>2. CASE i # n
                    <6>1. i \in 1..(n - 1) /\ g[i] = f[i]
                        BY <4>1, <5>2
                    <6>2. i # 1 => i - 1 \in 1..n /\ i - 1 # n /\ g[i - 1] = f[i - 1]
                        BY <4>1, <5>2
                    <6>3. QED BY <4>3, <6>1, <6>2
                <5>3. QED BY <5>1, <5>2
            <4>5. g = [i \in 1..n |-> g[i]]
                OBVIOUS
            <4>. HIDE DEF g
            <4>6. Follows(g, n)
                BY <4>4, <4>5
            <4>7. QED BY <3>2, <4>6
        <3>5. QED BY <3>3, <3>4
    <2>. DEFINE flatten == CHOOSE f : Follows(f, Len(lists))
    <2>2. FlattenSeq(lists) = flatten[Len(lists)]
        BY <1>3 DEF FlattenSeq
    <2>3. Follows(flatten, Len(lists))
        <3>. HIDE DEF Follows
        <3>1. QED BY <1>1, <1>3, <2>1
    <2>. HIDE DEF flatten
    <2>4. \A i \in 1..Len(lists) :
            flatten[i] = IF i = 1 THEN lists[i] ELSE flatten[i - 1] \o lists[i]
        BY <2>3
    <2>. HIDE DEF Follows
    <2>. DEFINE Bad == {i \in Nat : i \in 1..Len(lists) /\ flatten[i] \notin Seq(S)}
    <2>5. Bad = {}
        <3>1. SUFFICES ASSUME Bad # {} PROVE FALSE
            OBVIOUS
        <3>2. PICK i \in Bad : i = 0 \/ i - 1 \notin Bad
            BY <3>1, Smallest
        <3>3. i \in 1..Len(lists) /\ i \in Nat /\ lists[i] \in Seq(S)
            BY <1>1, <3>2
        <3>4. CASE i = 1
            BY <2>4, <3>2, <3>3, <3>4
        <3>5. CASE i # 1
            <4>1. i - 1 \in 1..Len(lists) /\ i - 1 \in Nat
                BY <1>1, <3>3, <3>5
            <4>2. flatten[i - 1] \in Seq(S)
                BY <3>2, <3>3, <4>1
            <4>3. flatten[i] = flatten[i - 1] \o lists[i]
                BY <2>4, <3>3, <3>5
            <4>4. flatten[i] \in Seq(S)
                BY <3>3, <4>2, <4>3, ConcatProperties
            <4>5. QED BY <3>2, <4>4
        <3>6. QED BY <3>4, <3>5
    <2>6. Len(lists) \in 1..Len(lists)
        BY <1>1, <1>3
    <2>7. QED BY <1>1, <2>2, <2>5, <2>6
<1>4. QED BY <1>2, <1>3

\* What a list of servers has are tools.
LEMMA ToolsAreFound ==
    ASSUME NEW list \in [Names -> Offers \cup {Unpolled}]
    PROVE  ToolsOf(list) \in Seq(Found)
<1>. DEFINE Of(u) == IF list[u] \in {None, Unpolled} THEN << >>
                     ELSE [j \in 1..ToolsOffered[list[u]] |-> [server |-> u, tool |-> j]]
            lists == [i \in DOMAIN Upstreams |-> Of(Upstreams[i])]
<1>1. DOMAIN Upstreams = 1..Len(Upstreams) /\ Len(Upstreams) \in Nat
      /\ \A i \in DOMAIN Upstreams : Upstreams[i] \in Names
    BY UpstreamAssumption, LenProperties DEF Names, ToSet
<1>2. ASSUME NEW u \in Names PROVE Of(u) \in Seq(Found)
    <2>1. CASE list[u] \in {None, Unpolled}
        BY <2>1
    <2>2. CASE list[u] \notin {None, Unpolled}
        <3>1. list[u] \in 0..MaxChanges
            BY <2>2 DEF Offers
        <3>2. ToolsOffered[list[u]] \in Nat
            BY <3>1, NumberAssumption
        <3>. DEFINE n == ToolsOffered[list[u]]
                    listed == [j \in 1..n |-> [server |-> u, tool |-> j]]
        <3>3. listed \in [1..n -> Found]
            BY DEF Found
        <3>4. Of(u) = listed
            BY <2>2
        <3>. HIDE DEF Of, listed
        <3>5. QED BY <3>2, <3>3, <3>4
    <2>3. QED BY <2>1, <2>2
<1>. HIDE DEF Of
<1>3. lists \in [1..Len(Upstreams) -> Seq(Found)]
    BY <1>1, <1>2
<1>4. lists \in Seq(Seq(Found))
    BY <1>1, <1>3
<1>5. ToolsOf(list) = FlattenSeq(lists)
    BY DEF ToolsOf, Of
<1>. HIDE DEF lists
<1>6. QED BY <1>4, <1>5, FlattenIsSeq

\* So are the best of a ranking, and those of one server.
LEMMA SearchedAreFound ==
    ASSUME NEW list \in Seq(Found), NEW found \in Searched(list)
    PROVE  found \in Seq(Found)
<1>1. DOMAIN list = 1..Len(list) /\ Len(list) \in Nat /\ ToSet(list) \subseteq Found
    BY LenProperties, ElementOfSeq DEF ToSet
<1>2. ASSUME NEW u, NEW some \in Seq(Found) PROVE OfServer(some, u) \in Seq(Found)
    <2>. DEFINE chosen == {i \in DOMAIN some : Lowercase[some[i].server] = Lowercase[u]}
    <2>1. chosen \in SUBSET DOMAIN some /\ OfServer(some, u) = Picked(some, chosen)
        BY DEF OfServer
    <2>. HIDE DEF chosen
    <2>2. QED BY <2>1, PickedInOrder
<1>3. ASSUME NEW ranked \in Rankings(list) PROVE Top(ranked) \in Seq(Found)
    <2>1. PICK matching \in SUBSET ToSet(list) : ranked \in SetToSeqs(matching)
        BY DEF Rankings
    <2>2. IsFiniteSet(matching) /\ Cardinality(matching) \in Nat
        <3>1. IsFiniteSet(DOMAIN list)
            BY <1>1, FS_Interval
        <3>2. IsFiniteSet(ToSet(list))
            <4>1. list \in Surjection(DOMAIN list, ToSet(list))
                BY DEF Surjection, ToSet
            <4>2. QED BY <3>1, <4>1, FS_Surjection
        <3>3. QED BY <2>1, <3>2, FS_Subset, FS_CardinalityType
    <2>3. ranked \in Seq(Found) /\ Len(ranked) \in Nat
        <3>1. ranked \in [1..Cardinality(matching) -> matching]
            BY <2>1 DEF SetToSeqs
        <3>2. ranked \in [1..Cardinality(matching) -> Found]
            BY <1>1, <2>1, <3>1
        <3>3. QED BY <2>2, <3>2, LenProperties
    <2>4. Smaller(SearchLimit, Len(ranked)) \in 0..Len(ranked)
        BY <2>3, NumberAssumption DEF Smaller
    <2>. DEFINE n == Smaller(SearchLimit, Len(ranked))
    <2>5. \A i \in 1..n : ranked[i] \in Found
        BY <2>3, <2>4, ElementOfSeq
    <2>. HIDE DEF n
    <2>6. SubSeq(ranked, 1, n) \in Seq(Found)
        BY <2>3, <2>4, <2>5, SubSeqProperties DEF n
    <2>7. QED BY <2>6 DEF Top, n
<1>4. QED BY <1>2, <1>3 DEF Searched

-----------------------------------------------------------------------------
(* Each action of the filter keeps what is about the filter *)

FilterPart ==
    /\ FilterTypeOK
    /\ tools \in Seq(Found) /\ result \in Seq(Found)
    /\ FanOut /\ ListIsFiltered

\* The slots of the filter are at least one.
LEMMA LimitIsPositive ==
    /\ Limit \in Nat /\ Limit >= 1
    /\ Limit = IF Concurrency = 0 THEN 1 ELSE Concurrency
BY NumberAssumption DEF Limit

\* What is left of a list are the checks in flight and the tools from the head on.
IsLeft(left, list, head, flying, out) ==
    /\ list \in Seq(Found) /\ head \in 1..(Len(list) + 1) /\ flying \subseteq 1..(head - 1)
    /\ \A i \in DOMAIN list : out[i] = "none" <=> i >= head \/ i \in flying
    /\ left = {i \in DOMAIN list : out[i] = "none"}

\* So the bound is kept exactly if it is full or nothing waits for a slot.
LEMMA LeftIsCounted ==
    ASSUME NEW left, NEW list, NEW head, NEW flying, NEW out, IsLeft(left, list, head, flying, out)
    PROVE  /\ IsFiniteSet(flying) /\ Cardinality(flying) \in Nat
           /\ Cardinality(flying) = Smaller(Limit, Cardinality(left))
                <=> /\ Cardinality(flying) <= Limit
                    /\ head <= Len(list) => Cardinality(flying) = Limit
<1>1. /\ DOMAIN list = 1..Len(list) /\ Len(list) \in Nat
      /\ head \in Nat /\ head \in 1..(Len(list) + 1) /\ flying \subseteq 1..(head - 1)
      /\ \A i \in DOMAIN list : out[i] = "none" <=> i >= head \/ i \in flying
      /\ left = {i \in DOMAIN list : out[i] = "none"}
    BY LenProperties DEF IsLeft
<1>2. left = flying \cup (head..Len(list)) /\ flying \cap (head..Len(list)) = {}
    <2>1. flying \subseteq DOMAIN list /\ head..Len(list) \subseteq DOMAIN list
        BY <1>1
    <2>2. \A i \in DOMAIN list : i \in head..Len(list) <=> i >= head
        BY <1>1
    <2>3. flying \cap (head..Len(list)) = {}
        BY <1>1
    <2>4. QED BY <1>1, <2>1, <2>2, <2>3
<1>3. IsFiniteSet(flying) /\ Cardinality(flying) \in Nat
    <2>1. IsFiniteSet(1..(head - 1))
        BY <1>1, FS_Interval
    <2>2. QED BY <1>1, <2>1, FS_Subset, FS_CardinalityType
<1>4. CASE head <= Len(list)
    <2>1. IsFiniteSet(head..Len(list)) /\ Cardinality(head..Len(list)) = Len(list) - head + 1
        BY <1>1, <1>4, FS_Interval
    <2>2. Cardinality(flying \cap (head..Len(list))) = 0
        BY <1>2, FS_EmptySet
    <2>3. Cardinality(left) = Cardinality(flying) + Cardinality(head..Len(list))
                                - Cardinality(flying \cap (head..Len(list)))
        BY <1>2, <1>3, <2>1, FS_Union
    <2>4. Cardinality(left) \in Nat /\ Cardinality(left) > Cardinality(flying)
        BY <1>1, <1>3, <1>4, <2>1, <2>2, <2>3
    <2>5. Cardinality(flying) = Smaller(Limit, Cardinality(left)) <=> Cardinality(flying) = Limit
        BY <1>3, <2>4, LimitIsPositive DEF Smaller
    <2>6. QED BY <1>3, <1>4, <2>5, LimitIsPositive
<1>5. CASE ~(head <= Len(list))
    <2>1. head..Len(list) = {}
        BY <1>1, <1>5
    <2>2. left = flying /\ Cardinality(left) = Cardinality(flying)
        BY <1>2, <2>1
    <2>3. Cardinality(flying) = Smaller(Limit, Cardinality(left)) <=> Cardinality(flying) <= Limit
        BY <1>3, <2>2, LimitIsPositive DEF Smaller
    <2>4. QED BY <1>3, <1>5, <2>3
<1>6. QED BY <1>4, <1>5

\* While the filter joins, the bound is full or nothing waits for a slot.
LEMMA SlotsAreUsed ==
    ASSUME FilterPart, stage = "joining"
    PROVE  /\ IsFiniteSet(inFlight) /\ Cardinality(inFlight) \in Nat /\ Cardinality(inFlight) <= Limit
           /\ next <= Len(tools) => Cardinality(inFlight) = Limit
<1>1. /\ tools \in Seq(Found) /\ next \in 1..(Len(tools) + 1) /\ inFlight \in SUBSET (1..(next - 1))
      /\ \A i \in DOMAIN tools : outcomes[i] = "none" <=> i >= next \/ i \in inFlight
    BY DEF FilterPart, FilterTypeOK
<1>. DEFINE left == {i \in DOMAIN tools : outcomes[i] = "none"}
<1>2. Cardinality(inFlight) = Smaller(Limit, Cardinality(left))
    BY DEF FilterPart, FanOut, Limit
<1>3. IsLeft(left, tools, next, inFlight, outcomes)
    BY <1>1 DEF IsLeft
<1>. HIDE DEF left
<1>4. QED BY <1>2, <1>3, LeftIsCounted

\* As many checks as there are slots or tools begin at once.
LEMMA BeginsKeeps ==
    ASSUME FilterPart, NEW list \in Seq(Found), Begins(list)
    PROVE  FilterPart' /\ stage' # "none"
<1>. DEFINE first == Smaller(Limit, Len(list))
<1>1. DOMAIN list = 1..Len(list) /\ Len(list) \in Nat
    BY LenProperties
<1>2. /\ stage = "none" /\ result' = result /\ tools' = list
      /\ stage' = IF list = << >> THEN "returned" ELSE "joining"
      /\ next' = first + 1 /\ inFlight' = 1..first
      /\ outcomes' = [i \in DOMAIN list |-> "none"]
    BY DEF Begins
<1>3. /\ first \in 0..Len(list) /\ first <= Limit
      /\ first < Len(list) => first = Limit
    BY <1>1, LimitIsPositive DEF Smaller
<1>. HIDE DEF first
<1>4. result' = << >> /\ result' \in Seq(Found) /\ tools' \in Seq(Found)
    BY <1>2 DEF FilterPart, FilterTypeOK
<1>5. FilterTypeOK'
    <2>1. stage' \in {"none", "joining", "returned", "failed"} /\ next' \in 1..(Len(tools') + 1)
        BY <1>1, <1>2, <1>3
    <2>2. outcomes' \in [DOMAIN tools' -> Verdicts \cup {"none"}]
        BY <1>2
    <2>3. inFlight' \subseteq 1..(next' - 1)
        BY <1>1, <1>2, <1>3
    <2>4. \A i \in DOMAIN tools' : outcomes'[i] = "none" <=> i >= next' \/ i \in inFlight'
        BY <1>1, <1>2, <1>3
    <2>5. QED BY <1>4, <2>1, <2>2, <2>3, <2>4 DEF FilterTypeOK
<1>6. Cardinality(inFlight') = first
    BY <1>1, <1>2, <1>3, FS_Interval
<1>7. FanOut'
    <2>1. Cardinality(inFlight') <= Limit
        BY <1>3, <1>6
    <2>2. next' <= Len(tools') => Cardinality(inFlight') = Limit
        BY <1>1, <1>2, <1>3, <1>6
    <2>3. next' \in 1..(Len(tools') + 1)
        BY <1>5 DEF FilterTypeOK
    <2>. DEFINE left == {i \in DOMAIN tools' : outcomes'[i] = "none"}
    <2>4. SUFFICES ASSUME stage' = "joining"
                   PROVE  Cardinality(inFlight') = Smaller(Limit, Cardinality(left))
        BY DEF FanOut, Limit
    <2>5. /\ inFlight' \in SUBSET (1..(next' - 1))
          /\ \A i \in DOMAIN tools' : outcomes'[i] = "none" <=> i >= next' \/ i \in inFlight'
        BY <1>5, <2>4 DEF FilterTypeOK
    <2>6. IsLeft(left, tools', next', inFlight', outcomes')
        BY <1>4, <2>3, <2>5 DEF IsLeft
    <2>. HIDE DEF left
    <2>7. QED BY <2>1, <2>2, <2>6, LeftIsCounted
<1>8. ListIsFiltered'
    <2>1. SUFFICES ASSUME list = << >> PROVE ListIsFiltered'
        BY <1>2 DEF ListIsFiltered
    <2>2. DOMAIN tools' = {} /\ DOMAIN result' = {}
        BY <1>2, <1>4, <2>1
    <2>3. << >> \in [DOMAIN result' -> DOMAIN tools'] /\ DOMAIN << >> = {}
        BY <2>2
    <2>4. Range(<< >>) = {}
        BY DEF Range
    <2>5. QED BY <2>2, <2>3, <2>4 DEF ListIsFiltered
<1>9. stage' # "none"
    BY <1>2
<1>10. QED BY <1>4, <1>5, <1>7, <1>8, <1>9 DEF FilterPart

\* A check that ends gives its slot to the next tool, once.
LEMMA JoinsKeeps ==
    ASSUME FilterPart, NEW i \in inFlight, Joins(i)
    PROVE  FilterPart' /\ stage' # "none"
<1>1. FilterTypeOK /\ tools \in Seq(Found) /\ result \in Seq(Found) /\ FanOut
    BY DEF FilterPart
<1>2. PICK end \in Verdicts :
        /\ outcomes' = [outcomes EXCEPT ![i] = end]
        /\ inFlight' = (inFlight \ {i}) \cup Refilled
        /\ next' = IF next \in Refilled THEN next + 1 ELSE next
    BY DEF Joins
<1>3. stage = "joining" /\ stage' = stage /\ tools' = tools /\ result' = result
    BY DEF Joins
<1>4. /\ DOMAIN tools = 1..Len(tools) /\ Len(tools) \in Nat /\ next \in 1..(Len(tools) + 1)
      /\ inFlight \subseteq 1..(next - 1)
      /\ outcomes \in [DOMAIN tools -> Verdicts \cup {"none"}]
      /\ \A j \in DOMAIN tools : outcomes[j] = "none" <=> j >= next \/ j \in inFlight
    BY <1>1, <1>3, LenProperties DEF FilterTypeOK
<1>5. /\ IsFiniteSet(inFlight) /\ Cardinality(inFlight) \in Nat /\ Cardinality(inFlight) <= Limit
      /\ next <= Len(tools) => Cardinality(inFlight) = Limit
    BY <1>3, SlotsAreUsed
<1>6. i \in DOMAIN tools /\ i < next
    BY <1>4
<1>7. "none" \notin Verdicts
    BY DEF Verdicts
<1>8. /\ outcomes' \in [DOMAIN tools' -> Verdicts \cup {"none"}]
      /\ outcomes'[i] # "none" /\ \A j \in DOMAIN tools : j # i => outcomes'[j] = outcomes[j]
    BY <1>2, <1>3, <1>4, <1>6, <1>7
<1>9. IsFiniteSet(inFlight \ {i}) /\ Cardinality(inFlight \ {i}) = Cardinality(inFlight) - 1
    BY <1>5, FS_RemoveElement
<1>10. CASE next <= Len(tools)
    <2>1. inFlight' = (inFlight \ {i}) \cup {next} /\ next' = next + 1
        BY <1>2, <1>10 DEF Refilled
    <2>2. next \notin inFlight \ {i}
        BY <1>4
    <2>3. Cardinality(inFlight') = Cardinality(inFlight) - 1 + 1
        BY <1>9, <2>1, <2>2, FS_AddElement
    <2>4. Cardinality(inFlight') = Limit
        BY <1>5, <1>10, <2>3
    <2>5. FilterTypeOK'
        <3>1. next' \in 1..(Len(tools') + 1) /\ inFlight' \subseteq 1..(next' - 1)
            BY <1>3, <1>4, <1>10, <2>1
        <3>2. \A j \in DOMAIN tools' : outcomes'[j] = "none" <=> j >= next' \/ j \in inFlight'
            BY <1>3, <1>4, <1>6, <1>8, <1>10, <2>1
        <3>3. QED BY <1>1, <1>3, <1>8, <3>1, <3>2 DEF FilterTypeOK
    <2>6. FanOut'
        <3>1. tools' \in Seq(Found) /\ next' \in 1..(Len(tools') + 1)
            BY <1>1, <1>3, <2>5 DEF FilterTypeOK
        <3>2. /\ inFlight' \in SUBSET (1..(next' - 1))
              /\ \A j \in DOMAIN tools' : outcomes'[j] = "none" <=> j >= next' \/ j \in inFlight'
            BY <1>3, <2>5 DEF FilterTypeOK
        <3>. DEFINE left == {j \in DOMAIN tools' : outcomes'[j] = "none"}
        <3>3. IsLeft(left, tools', next', inFlight', outcomes')
            BY <3>1, <3>2 DEF IsLeft
        <3>4. Cardinality(inFlight') <= Limit /\ (next' <= Len(tools') => Cardinality(inFlight') = Limit)
            BY <2>4, LimitIsPositive
        <3>5. Cardinality(inFlight') = Smaller(Limit, Cardinality(left))
            <4>. HIDE DEF left
            <4>1. QED BY <3>3, <3>4, LeftIsCounted
        <3>6. QED BY <3>5 DEF FanOut, Limit
    <2>7. QED BY <1>1, <1>3, <2>5, <2>6 DEF FilterPart, ListIsFiltered
<1>11. CASE ~(next <= Len(tools))
    <2>1. inFlight' = inFlight \ {i} /\ next' = next
        BY <1>2, <1>11 DEF Refilled
    <2>2. FilterTypeOK'
        <3>1. next' \in 1..(Len(tools') + 1) /\ inFlight' \subseteq 1..(next' - 1)
            BY <1>3, <1>4, <2>1
        <3>2. \A j \in DOMAIN tools' : outcomes'[j] = "none" <=> j >= next' \/ j \in inFlight'
            BY <1>3, <1>4, <1>6, <1>8, <2>1
        <3>3. QED BY <1>1, <1>3, <1>8, <3>1, <3>2 DEF FilterTypeOK
    <2>3. Cardinality(inFlight') <= Limit /\ ~(next' <= Len(tools'))
        BY <1>3, <1>5, <1>9, <1>11, <2>1, LimitIsPositive
    <2>4. FanOut'
        <3>1. tools' \in Seq(Found) /\ next' \in 1..(Len(tools') + 1)
            BY <1>1, <1>3, <2>2 DEF FilterTypeOK
        <3>2. /\ inFlight' \in SUBSET (1..(next' - 1))
              /\ \A j \in DOMAIN tools' : outcomes'[j] = "none" <=> j >= next' \/ j \in inFlight'
            BY <1>3, <2>2 DEF FilterTypeOK
        <3>. DEFINE left == {j \in DOMAIN tools' : outcomes'[j] = "none"}
        <3>3. IsLeft(left, tools', next', inFlight', outcomes')
            BY <3>1, <3>2 DEF IsLeft
        <3>4. Cardinality(inFlight') <= Limit /\ (next' <= Len(tools') => Cardinality(inFlight') = Limit)
            BY <2>3, LimitIsPositive
        <3>5. Cardinality(inFlight') = Smaller(Limit, Cardinality(left))
            <4>. HIDE DEF left
            <4>1. QED BY <3>3, <3>4, LeftIsCounted
        <3>6. QED BY <3>5 DEF FanOut, Limit
    <2>5. QED BY <1>1, <1>3, <2>2, <2>4 DEF FilterPart, ListIsFiltered
<1>12. QED BY <1>10, <1>11

\* A check that panics ends the filter.
LEMMA JoinsPanicKeeps ==
    ASSUME FilterPart, NEW i \in inFlight, JoinsPanic(i)
    PROVE  FilterPart' /\ stage' # "none"
<1>1. FilterTypeOK /\ tools \in Seq(Found) /\ result \in Seq(Found)
    BY DEF FilterPart
<1>2. stage' = "failed" /\ inFlight' = {} /\ UNCHANGED <<tools, next, outcomes, result>>
    BY DEF JoinsPanic
<1>3. FilterTypeOK' /\ FanOut'
    BY <1>1, <1>2 DEF FilterTypeOK, FanOut
<1>4. QED BY <1>1, <1>2, <1>3 DEF FilterPart, ListIsFiltered

\* When no check is left every tool has an outcome, and those allowed are the answer.
LEMMA CollectsKeeps ==
    ASSUME FilterPart, Collects
    PROVE  FilterPart' /\ stage' # "none"
<1>1. FilterTypeOK /\ tools \in Seq(Found) /\ result \in Seq(Found) /\ FanOut
    BY DEF FilterPart
<1>2. stage = "joining" /\ inFlight = {} /\ UNCHANGED <<tools, next, inFlight, outcomes>>
    BY DEF Collects
<1>3. CASE Withheld
    <2>1. stage' = "failed" /\ result' = result
        BY <1>3 DEF Collects
    <2>2. FilterTypeOK' /\ FanOut'
        BY <1>1, <1>2, <2>1 DEF FilterTypeOK, FanOut
    <2>3. QED BY <1>1, <1>2, <2>1, <2>2 DEF FilterPart, ListIsFiltered
<1>4. CASE ~Withheld
    <2>. DEFINE chosen == {i \in DOMAIN tools : outcomes[i] = "allowed"}
    <2>1. stage' = "returned" /\ result' = Picked(tools, chosen)
        BY <1>4 DEF Collects
    <2>2. /\ \E pick \in [DOMAIN result' -> DOMAIN tools] :
                /\ Range(pick) = chosen
                /\ \A j, k \in DOMAIN pick : j < k => pick[j] < pick[k]
                /\ \A j \in DOMAIN pick : result'[j] = tools[pick[j]]
          /\ result' \in Seq(Found)
        <3>1. chosen \in SUBSET DOMAIN tools
            OBVIOUS
        <3>. HIDE DEF chosen
        <3>. DEFINE picked == Picked(tools, chosen)
        <3>2. /\ \E pick \in [DOMAIN picked -> DOMAIN tools] :
                    /\ Range(pick) = chosen
                    /\ \A j, k \in DOMAIN pick : j < k => pick[j] < pick[k]
                    /\ \A j \in DOMAIN pick : picked[j] = tools[pick[j]]
              /\ picked \in Seq(Found)
            BY <1>1, <3>1, PickedInOrder
        <3>3. result' = picked
            BY <2>1
        <3>. HIDE DEF picked
        <3>4. QED BY <3>2, <3>3
    <2>3. \A i \in DOMAIN tools : outcomes[i] \in {"allowed", "denied"}
        <3>1. Cardinality(inFlight) = 0
            BY <1>2, FS_EmptySet
        <3>2. ~(next <= Len(tools))
            BY <1>2, <3>1, SlotsAreUsed, LimitIsPositive
        <3>3. DOMAIN tools = 1..Len(tools) /\ Len(tools) \in Nat /\ next \in Nat
            BY <1>1, LenProperties DEF FilterTypeOK
        <3>4. \A i \in DOMAIN tools : outcomes[i] # "none"
            BY <1>1, <1>2, <3>2, <3>3 DEF FilterTypeOK
        <3>5. \A i \in DOMAIN tools : outcomes[i] \in Verdicts \cup {"none"} /\ outcomes[i] # "error"
            BY <1>1, <1>4 DEF FilterTypeOK, Withheld
        <3>6. QED BY <3>4, <3>5 DEF Verdicts
    <2>4. ListIsFiltered'
        <3>1. PICK pick \in [DOMAIN result' -> DOMAIN tools] :
                /\ Range(pick) = chosen
                /\ \A j, k \in DOMAIN pick : j < k => pick[j] < pick[k]
                /\ \A j \in DOMAIN pick : result'[j] = tools[pick[j]]
            BY <2>2
        <3>2. DOMAIN pick = DOMAIN result'
            BY <3>1
        <3>3. /\ Range(pick) = {i \in DOMAIN tools' : outcomes'[i] = "allowed"}
              /\ \A j, k \in DOMAIN result' : j < k => pick[j] < pick[k]
              /\ \A j \in DOMAIN result' : result'[j] = tools'[pick[j]]
            BY <1>2, <3>1, <3>2
        <3>4. pick \in [DOMAIN result' -> DOMAIN tools']
            BY <1>2
        <3>5. QED BY <1>2, <2>3, <3>3, <3>4 DEF ListIsFiltered
    <2>. HIDE DEF chosen
    <2>5. FilterTypeOK' /\ FanOut'
        BY <1>1, <1>2, <2>1 DEF FilterTypeOK, FanOut
    <2>6. tools' \in Seq(Found) /\ stage' # "none"
        BY <1>1, <1>2, <2>1
    <2>7. QED BY <2>2, <2>4, <2>5, <2>6 DEF FilterPart
<1>5. QED BY <1>3, <1>4

\* Nothing is left of a filter that has ended.
LEMMA EndsKeeps ==
    ASSUME Ends
    PROVE  FilterPart' /\ stage' = "none"
<1>1. /\ stage' = "none" /\ tools' = << >> /\ next' = 1
      /\ inFlight' = {} /\ outcomes' = << >> /\ result' = << >>
    BY DEF Ends
<1>2. Len(tools') = 0 /\ DOMAIN tools' = {} /\ DOMAIN outcomes' = {} /\ << >> \in Seq(Found)
    BY <1>1
<1>3. FilterTypeOK'
    <2>1. outcomes' \in [DOMAIN tools' -> Verdicts \cup {"none"}]
        BY <1>1, <1>2
    <2>2. next' \in 1..(Len(tools') + 1)
        BY <1>1, <1>2
    <2>3. QED BY <1>1, <2>1, <2>2 DEF FilterTypeOK
<1>4. FanOut' /\ ListIsFiltered'
    BY <1>1 DEF FanOut, ListIsFiltered
<1>5. QED BY <1>1, <1>2, <1>3, <1>4 DEF FilterPart

\* What leaves the filter alone leaves this alone.
LEMMA FilterStays ==
    ASSUME FilterPart, UNCHANGED filter
    PROVE  FilterPart' /\ stage' = stage
<1>1. UNCHANGED <<stage, tools, next, inFlight, outcomes, result>>
    BY DEF filter
<1>2. FilterTypeOK' /\ tools' \in Seq(Found) /\ result' \in Seq(Found)
    BY <1>1 DEF FilterPart, FilterTypeOK
<1>3. FanOut' /\ ListIsFiltered'
    BY <1>1 DEF FilterPart, FanOut, ListIsFiltered
<1>4. QED BY <1>1, <1>2, <1>3 DEF FilterPart

-----------------------------------------------------------------------------
(* Each action of the index keeps what is about the index *)

IndexPart ==
    /\ IndexTypeOK
    /\ PollIsOfNow /\ ListedWasOffered
    /\ IndexFollows /\ IndexAgrees

ListReaders == {c \in Calls : pc[c] = "waiting"} \cup {s \in Searches : pc[s] = "listing"}
ListWriters == {p \in {Poller} : pc[p] = "servers"}
IndexReaders == {s \in Searches : pc[s] \in {"waiting", "searching"}}
IndexWriters == {p \in {Poller} : pc[p] = "index"}

PcFits ==
    /\ DOMAIN pc = Requests \cup {Poller}
    /\ pc[Poller] \in {"sleeping", "polling", "servers", "index"}
    /\ \A s \in Searches : pc[s] \in {"idle", "waiting", "searching", "listing", "filtering"}
    /\ \A c \in Calls : pc[c] \in {"idle", "waiting", "forwarding"}

QueuesFit ==
    /\ IsQueue(serversLock, ListReaders, ListWriters)
    /\ IsQueue(searchLock, IndexReaders, IndexWriters)

DataFits ==
    /\ actual \in [Names -> Offers] /\ changes \in 0..MaxChanges
    /\ polled \in 0..Len(Upstreams) /\ healthOk \in BOOLEAN
    /\ entries \in [Names -> Offers] /\ servers \in [Names -> Offers \cup {Unpolled}]
    /\ search \in [Names -> Offers]
    /\ lastSeen \in [Names -> SUBSET Offers] /\ nowSeen \in [Names -> SUBSET Offers]

\* The type invariant is about points, queues and data.
LEMMA TypeParts == IndexTypeOK <=> PcFits /\ QueuesFit /\ DataFits
BY DEF IndexTypeOK, PcFits, QueuesFit, DataFits, ListReaders, ListWriters, IndexReaders, IndexWriters

\* The poller, searches and calls are different tasks.
LEMMA Tasks ==
    /\ \A s \in Searches : s \notin Calls /\ s # Poller /\ s \in Requests
    /\ \A c \in Calls : c \notin Searches /\ c # Poller /\ c \in Requests
    /\ Requests = Searches \cup Calls /\ Poller \notin Requests
BY TasksDiffer DEF Requests

\* Where a search goes decides which queue it is in.
LEMMA SearchGoes ==
    ASSUME PcFits, NEW s \in Searches, NEW to \in {"idle", "waiting", "searching", "listing", "filtering"},
           Goes(s, to)
    PROVE  /\ PcFits' /\ pc'[Poller] = pc[Poller]
           /\ ListWriters' = ListWriters /\ IndexWriters' = IndexWriters
           /\ to = "listing" => ListReaders' = ListReaders \cup {s}
           /\ to # "listing" => ListReaders' = ListReaders \ {s}
           /\ to \in {"waiting", "searching"} => IndexReaders' = IndexReaders \cup {s}
           /\ to \notin {"waiting", "searching"} => IndexReaders' = IndexReaders \ {s}
<1>1. /\ DOMAIN pc' = DOMAIN pc /\ pc'[s] = to
      /\ \A p \in Requests \cup {Poller} : p # s => pc'[p] = pc[p]
    BY Tasks DEF Goes, PcFits
<1>2. PcFits' /\ pc'[Poller] = pc[Poller]
    BY <1>1, Tasks DEF PcFits
<1>3. ListWriters' = ListWriters /\ IndexWriters' = IndexWriters
    BY <1>2 DEF ListWriters, IndexWriters
<1>4. \A c \in Calls : pc'[c] = pc[c]
    BY <1>1, Tasks
<1>5. \A x \in Searches : x # s => pc'[x] = pc[x]
    BY <1>1, Tasks
<1>6. /\ to = "listing" => ListReaders' = ListReaders \cup {s}
      /\ to # "listing" => ListReaders' = ListReaders \ {s}
    BY <1>1, <1>4, <1>5, Tasks DEF ListReaders
<1>7. /\ to \in {"waiting", "searching"} => IndexReaders' = IndexReaders \cup {s}
      /\ to \notin {"waiting", "searching"} => IndexReaders' = IndexReaders \ {s}
    BY <1>1, <1>5 DEF IndexReaders
<1>8. QED BY <1>2, <1>3, <1>6, <1>7

\* So does where a call goes.
LEMMA CallGoes ==
    ASSUME PcFits, NEW c \in Calls, NEW to \in {"idle", "waiting", "forwarding"}, Goes(c, to)
    PROVE  /\ PcFits' /\ pc'[Poller] = pc[Poller]
           /\ ListWriters' = ListWriters /\ IndexWriters' = IndexWriters
           /\ to = "waiting" => ListReaders' = ListReaders \cup {c}
           /\ to # "waiting" => ListReaders' = ListReaders \ {c}
           /\ IndexReaders' = IndexReaders
<1>1. /\ DOMAIN pc' = DOMAIN pc /\ pc'[c] = to
      /\ \A p \in Requests \cup {Poller} : p # c => pc'[p] = pc[p]
    BY Tasks DEF Goes, PcFits
<1>2. PcFits' /\ pc'[Poller] = pc[Poller]
    BY <1>1, Tasks DEF PcFits
<1>3. ListWriters' = ListWriters /\ IndexWriters' = IndexWriters
    BY <1>2 DEF ListWriters, IndexWriters
<1>4. \A s \in Searches : pc'[s] = pc[s]
    BY <1>1, Tasks
<1>5. \A x \in Calls : x # c => pc'[x] = pc[x]
    BY <1>1, Tasks
<1>6. /\ to = "waiting" => ListReaders' = ListReaders \cup {c}
      /\ to # "waiting" => ListReaders' = ListReaders \ {c}
    BY <1>1, <1>4, <1>5, Tasks DEF ListReaders
<1>7. IndexReaders' = IndexReaders
    BY <1>4 DEF IndexReaders
<1>8. QED BY <1>2, <1>3, <1>6, <1>7

\* And where the poller goes.
LEMMA PollerGoes ==
    ASSUME PcFits, NEW to \in {"sleeping", "polling", "servers", "index"}, Goes(Poller, to)
    PROVE  /\ PcFits' /\ pc'[Poller] = to
           /\ ListReaders' = ListReaders /\ IndexReaders' = IndexReaders
           /\ ListWriters' = {p \in {Poller} : to = "servers"}
           /\ IndexWriters' = {p \in {Poller} : to = "index"}
<1>1. /\ DOMAIN pc' = DOMAIN pc /\ pc'[Poller] = to
      /\ \A p \in Requests \cup {Poller} : p # Poller => pc'[p] = pc[p]
    BY Tasks DEF Goes, PcFits
<1>2. (\A c \in Calls : pc'[c] = pc[c]) /\ (\A s \in Searches : pc'[s] = pc[s])
    BY <1>1, Tasks
<1>3. PcFits'
    BY <1>1, <1>2, Tasks DEF PcFits
<1>4. ListReaders' = ListReaders /\ IndexReaders' = IndexReaders
    BY <1>2 DEF ListReaders, IndexReaders
<1>5. /\ ListWriters' = {p \in {Poller} : to = "servers"}
      /\ IndexWriters' = {p \in {Poller} : to = "index"}
    BY <1>1 DEF ListWriters, IndexWriters
<1>6. QED BY <1>1, <1>3, <1>4, <1>5

\* The tasks of requests change nothing of what is listed.
Untouched == UNCHANGED <<actual, changes, polling, servers, search, lastSeen, nowSeen>>

LEMMA RequestsKeep ==
    ASSUME IndexPart, Untouched, PcFits', QueuesFit', pc'[Poller] = pc[Poller]
    PROVE  IndexPart'
<1>1. UNCHANGED <<actual, changes, polled, healthOk, entries, servers, search, lastSeen, nowSeen>>
    BY DEF Untouched, polling
<1>2. DataFits'
    BY <1>1, TypeParts DEF IndexPart, DataFits
<1>3. IndexTypeOK'
    <2>1. PcFits' /\ QueuesFit' /\ DataFits'
        BY <1>2
    <2>2. QED
        BY <2>1 DEF IndexTypeOK, PcFits, QueuesFit, DataFits, ListReaders, ListWriters,
                    IndexReaders, IndexWriters
<1>4. PollIsOfNow' /\ ListedWasOffered' /\ IndexFollows' /\ IndexAgrees'
    BY <1>1 DEF IndexPart, PollIsOfNow, ListedWasOffered, IndexFollows, IndexAgrees
<1>5. QED BY <1>3, <1>4 DEF IndexPart

\* A search waits for the index.
LEMMA SearchQueuesKeeps ==
    ASSUME IndexPart, NEW s \in Searches, SearchQueues(s)
    PROVE  IndexPart'
<1>1. PcFits /\ QueuesFit
    BY TypeParts DEF IndexPart
<1>2. /\ PcFits' /\ pc'[Poller] = pc[Poller]
      /\ ListWriters' = ListWriters /\ IndexWriters' = IndexWriters
      /\ ListReaders' = ListReaders \ {s} /\ IndexReaders' = IndexReaders \cup {s}
    BY <1>1, SearchGoes DEF SearchQueues
<1>3. s \notin ListReaders /\ s \notin IndexReaders /\ s \notin IndexWriters
    BY Tasks DEF SearchQueues, ListReaders, IndexReaders, IndexWriters
<1>4. IsQueue(searchLock', IndexReaders \cup {s}, IndexWriters)
    BY <1>1, <1>3, Tasks, Queues DEF QueuesFit, SearchQueues
<1>5. serversLock' = serversLock /\ ListReaders' = ListReaders
    BY <1>2, <1>3 DEF SearchQueues
<1>6. QueuesFit'
    BY <1>1, <1>2, <1>4, <1>5 DEF QueuesFit
<1>7. Untouched
    BY DEF SearchQueues, Untouched
<1>8. QED BY <1>2, <1>6, <1>7, RequestsKeep

\* A search has the index, and stays in its queue.
LEMMA SearchReadsKeeps ==
    ASSUME IndexPart, NEW s \in Searches, SearchReads(s)
    PROVE  IndexPart' /\ pc'[s] = "searching"
<1>1. PcFits /\ QueuesFit
    BY TypeParts DEF IndexPart
<1>2. /\ PcFits' /\ pc'[Poller] = pc[Poller]
      /\ ListWriters' = ListWriters /\ IndexWriters' = IndexWriters
      /\ ListReaders' = ListReaders \ {s} /\ IndexReaders' = IndexReaders \cup {s}
    BY <1>1, SearchGoes DEF SearchReads
<1>3. s \notin ListReaders /\ s \in IndexReaders
    BY Tasks DEF SearchReads, ListReaders, IndexReaders
<1>4. /\ serversLock' = serversLock /\ searchLock' = searchLock
      /\ ListReaders' = ListReaders /\ IndexReaders' = IndexReaders
    BY <1>2, <1>3 DEF SearchReads
<1>5. QueuesFit'
    BY <1>1, <1>2, <1>4 DEF QueuesFit
<1>6. Untouched
    BY DEF SearchReads, Untouched
<1>7. pc'[s] = "searching"
    BY <1>1, Tasks DEF SearchReads, Goes, PcFits
<1>8. QED BY <1>2, <1>5, <1>6, <1>7, RequestsKeep

\* A listing waits for the list.
LEMMA ListQueuesKeeps ==
    ASSUME IndexPart, NEW s \in Searches, ListQueues(s)
    PROVE  IndexPart'
<1>1. PcFits /\ QueuesFit
    BY TypeParts DEF IndexPart
<1>2. /\ PcFits' /\ pc'[Poller] = pc[Poller]
      /\ ListWriters' = ListWriters /\ IndexWriters' = IndexWriters
      /\ ListReaders' = ListReaders \cup {s} /\ IndexReaders' = IndexReaders \ {s}
    BY <1>1, SearchGoes DEF ListQueues
<1>3. s \notin ListReaders /\ s \notin IndexReaders /\ s \notin ListWriters
    BY Tasks DEF ListQueues, ListReaders, IndexReaders, ListWriters
<1>4. IsQueue(serversLock', ListReaders \cup {s}, ListWriters)
    BY <1>1, <1>3, Tasks, Queues DEF QueuesFit, ListQueues
<1>5. searchLock' = searchLock /\ IndexReaders' = IndexReaders
    BY <1>2, <1>3 DEF ListQueues
<1>6. QueuesFit'
    BY <1>1, <1>2, <1>4, <1>5 DEF QueuesFit
<1>7. Untouched
    BY DEF ListQueues, Untouched
<1>8. QED BY <1>2, <1>6, <1>7, RequestsKeep

\* A listing has copied the list, and leaves its queue.
LEMMA ListReadsKeeps ==
    ASSUME IndexPart, NEW s \in Searches, ListReads(s)
    PROVE  IndexPart' /\ pc'[s] = "filtering"
<1>1. PcFits /\ QueuesFit
    BY TypeParts DEF IndexPart
<1>2. /\ PcFits' /\ pc'[Poller] = pc[Poller]
      /\ ListWriters' = ListWriters /\ IndexWriters' = IndexWriters
      /\ ListReaders' = ListReaders \ {s} /\ IndexReaders' = IndexReaders \ {s}
    BY <1>1, SearchGoes DEF ListReads
<1>3. s \notin IndexReaders /\ s \notin ListWriters
    BY Tasks DEF ListReads, IndexReaders, ListWriters
<1>4. IsQueue(serversLock', ListReaders \ {s}, ListWriters \ {s})
    BY <1>1, Unqueues DEF QueuesFit, ListReads
<1>5. searchLock' = searchLock /\ IndexReaders' = IndexReaders /\ ListWriters \ {s} = ListWriters
    BY <1>2, <1>3 DEF ListReads
<1>6. QueuesFit'
    BY <1>1, <1>2, <1>4, <1>5 DEF QueuesFit
<1>7. Untouched
    BY DEF ListReads, Untouched
<1>8. pc'[s] = "filtering"
    BY <1>1, Tasks DEF ListReads, Goes, PcFits
<1>9. QED BY <1>2, <1>6, <1>7, <1>8, RequestsKeep

\* A search that is filtered lets go of the index.
LEMMA FilteredKeeps ==
    ASSUME IndexPart, NEW s \in Searches, Filtered(s)
    PROVE  IndexPart' /\ pc'[s] = "idle"
<1>1. PcFits /\ QueuesFit
    BY TypeParts DEF IndexPart
<1>2. /\ PcFits' /\ pc'[Poller] = pc[Poller]
      /\ ListWriters' = ListWriters /\ IndexWriters' = IndexWriters
      /\ ListReaders' = ListReaders \ {s} /\ IndexReaders' = IndexReaders \ {s}
    BY <1>1, SearchGoes DEF Filtered
<1>3. s \notin ListReaders /\ s \notin IndexWriters
    BY Tasks DEF Filtered, ListReaders, IndexWriters
<1>4. IsQueue(searchLock', IndexReaders \ {s}, IndexWriters \ {s})
    BY <1>1, Unqueues DEF QueuesFit, Filtered
<1>5. serversLock' = serversLock /\ ListReaders' = ListReaders /\ IndexWriters \ {s} = IndexWriters
    BY <1>2, <1>3 DEF Filtered
<1>6. QueuesFit'
    BY <1>1, <1>2, <1>4, <1>5 DEF QueuesFit
<1>7. Untouched
    BY DEF Filtered, Untouched
<1>8. pc'[s] = "idle"
    BY <1>1, Tasks DEF Filtered, Goes, PcFits
<1>9. QED BY <1>2, <1>6, <1>7, <1>8, RequestsKeep

\* A call waits for the list.
LEMMA CallQueuesKeeps ==
    ASSUME IndexPart, NEW c \in Calls, CallQueues(c)
    PROVE  IndexPart'
<1>1. PcFits /\ QueuesFit
    BY TypeParts DEF IndexPart
<1>2. /\ PcFits' /\ pc'[Poller] = pc[Poller]
      /\ ListWriters' = ListWriters /\ IndexWriters' = IndexWriters
      /\ ListReaders' = ListReaders \cup {c} /\ IndexReaders' = IndexReaders
    BY <1>1, CallGoes DEF CallQueues
<1>3. c \notin ListReaders /\ c \notin ListWriters
    BY Tasks DEF CallQueues, ListReaders, ListWriters
<1>4. IsQueue(serversLock', ListReaders \cup {c}, ListWriters)
    BY <1>1, <1>3, Tasks, Queues DEF QueuesFit, CallQueues
<1>5. searchLock' = searchLock
    BY DEF CallQueues
<1>6. QueuesFit'
    BY <1>1, <1>2, <1>4, <1>5 DEF QueuesFit
<1>7. Untouched
    BY DEF CallQueues, Untouched
<1>8. QED BY <1>2, <1>6, <1>7, RequestsKeep

\* A call that has seen the list leaves its queue, whether it is forwarded or not.
LEMMA CallSeesKeeps ==
    ASSUME IndexPart, NEW c \in Calls, CallChecks(c) \/ Shows(c)
    PROVE  IndexPart'
<1>1. PcFits /\ QueuesFit
    BY TypeParts DEF IndexPart
<1>2. /\ PcFits' /\ pc'[Poller] = pc[Poller]
      /\ ListWriters' = ListWriters /\ IndexWriters' = IndexWriters
      /\ ListReaders' = ListReaders \ {c} /\ IndexReaders' = IndexReaders
    BY <1>1, CallGoes DEF CallChecks, Shows
<1>3. c \notin ListWriters
    BY Tasks DEF ListWriters
<1>4. serversLock' = Without(serversLock, c)
    BY DEF CallChecks, Shows, LockDropped
<1>5. IsQueue(serversLock', ListReaders \ {c}, ListWriters \ {c})
    BY <1>1, <1>4, Unqueues DEF QueuesFit
<1>6. searchLock' = searchLock /\ ListWriters \ {c} = ListWriters
    BY <1>3 DEF CallChecks, Shows
<1>7. QueuesFit'
    BY <1>1, <1>2, <1>5, <1>6 DEF QueuesFit
<1>8. Untouched
    BY DEF CallChecks, Shows, Untouched
<1>9. QED BY <1>2, <1>7, <1>8, RequestsKeep

\* A call that was forwarded is in no queue.
LEMMA CallEndsKeeps ==
    ASSUME IndexPart, NEW c \in Calls, CallEnds(c)
    PROVE  IndexPart'
<1>1. PcFits /\ QueuesFit
    BY TypeParts DEF IndexPart
<1>2. /\ PcFits' /\ pc'[Poller] = pc[Poller]
      /\ ListWriters' = ListWriters /\ IndexWriters' = IndexWriters
      /\ ListReaders' = ListReaders \ {c} /\ IndexReaders' = IndexReaders
    BY <1>1, CallGoes DEF CallEnds
<1>3. c \notin ListReaders
    BY Tasks DEF CallEnds, ListReaders
<1>4. serversLock' = serversLock /\ searchLock' = searchLock /\ ListReaders' = ListReaders
    BY <1>2, <1>3 DEF CallEnds
<1>5. QueuesFit'
    BY <1>1, <1>2, <1>4 DEF QueuesFit
<1>6. Untouched
    BY DEF CallEnds, Untouched
<1>7. QED BY <1>2, <1>5, <1>6, RequestsKeep

\* Who goes away leaves both queues.
LEMMA DropKeeps ==
    ASSUME IndexPart, NEW r \in Requests, Drop(r)
    PROVE  IndexPart' /\ pc'[r] = "idle"
<1>1. PcFits /\ QueuesFit
    BY TypeParts DEF IndexPart
<1>2. r \in Searches \/ r \in Calls
    BY Tasks
<1>3. r \in Calls => r \notin IndexReaders
    BY Tasks DEF IndexReaders
<1>4. /\ PcFits' /\ pc'[Poller] = pc[Poller]
      /\ ListWriters' = ListWriters /\ IndexWriters' = IndexWriters
      /\ ListReaders' = ListReaders \ {r} /\ IndexReaders' = IndexReaders \ {r}
    <2>1. CASE r \in Searches
        BY <1>1, <2>1, SearchGoes DEF Drop
    <2>2. CASE r \in Calls
        <3>1. IndexReaders \ {r} = IndexReaders
            BY <1>3, <2>2
        <3>2. QED BY <1>1, <2>2, <3>1, CallGoes DEF Drop
    <2>3. QED BY <1>2, <2>1, <2>2
<1>5. r \notin ListWriters /\ r \notin IndexWriters
    BY Tasks DEF ListWriters, IndexWriters
<1>6. IsQueue(serversLock', ListReaders \ {r}, ListWriters \ {r})
    BY <1>1, Unqueues DEF QueuesFit, Drop
<1>7. IsQueue(searchLock', IndexReaders \ {r}, IndexWriters \ {r})
    BY <1>1, Unqueues DEF QueuesFit, Drop
<1>8. ListWriters \ {r} = ListWriters /\ IndexWriters \ {r} = IndexWriters
    BY <1>5
<1>9. QueuesFit'
    BY <1>4, <1>6, <1>7, <1>8 DEF QueuesFit
<1>10. Untouched
    BY DEF Drop, Untouched
<1>11. pc'[r] = "idle"
    BY <1>1 DEF Drop, Goes, PcFits
<1>12. QED BY <1>4, <1>9, <1>10, <1>11, RequestsKeep

\* An upstream by its place among them
LEMMA UpstreamIsNamed ==
    /\ Len(Upstreams) \in Nat
    /\ \A i \in 1..Len(Upstreams) : Upstreams[i] \in Names
BY UpstreamAssumption, LenProperties DEF Names, ToSet

\* A poll begins with what the upstreams offer then.
LEMMA PollStartsKeeps ==
    ASSUME IndexPart, PollStarts
    PROVE  IndexPart'
<1>1. PcFits /\ QueuesFit /\ DataFits
    BY TypeParts DEF IndexPart
<1>2. /\ pc[Poller] = "sleeping" /\ Goes(Poller, "polling")
      /\ polled' = 0 /\ healthOk' = FALSE /\ nowSeen' = [u \in Names |-> {actual[u]}]
      /\ UNCHANGED <<actual, changes, entries, servers, serversLock, search, searchLock, lastSeen>>
    BY DEF PollStarts
<1>3. /\ PcFits' /\ pc'[Poller] = "polling"
      /\ ListReaders' = ListReaders /\ IndexReaders' = IndexReaders
      /\ ListWriters' = {p \in {Poller} : "polling" = "servers"}
      /\ IndexWriters' = {p \in {Poller} : "polling" = "index"}
    BY <1>1, <1>2, PollerGoes
<1>4. ListWriters' = ListWriters /\ IndexWriters' = IndexWriters
    BY <1>2, <1>3 DEF ListWriters, IndexWriters
<1>5. QueuesFit'
    BY <1>1, <1>2, <1>3, <1>4 DEF QueuesFit
<1>6. DataFits'
    <2>1. nowSeen' \in [Names -> SUBSET Offers]
        BY <1>1, <1>2 DEF DataFits
    <2>2. 0 \in 0..Len(Upstreams)
        BY UpstreamIsNamed
    <2>3. polled' \in 0..Len(Upstreams)
        BY <1>2, <2>2
    <2>4. healthOk' \in BOOLEAN
        BY <1>2
    <2>5. QED BY <1>1, <1>2, <2>1, <2>3, <2>4 DEF DataFits
<1>7. IndexTypeOK'
    BY <1>3, <1>5, <1>6 DEF IndexTypeOK, PcFits, QueuesFit, DataFits, ListReaders, ListWriters,
                            IndexReaders, IndexWriters
<1>8. PollIsOfNow'
    <2>1. \A u \in Names : actual'[u] \in nowSeen'[u]
        BY <1>2
    <2>2. 1..polled' = {}
        BY <1>2
    <2>3. QED BY <1>3, <2>1, <2>2 DEF PollIsOfNow
<1>9. ListedWasOffered' /\ IndexFollows' /\ IndexAgrees'
    BY <1>2, <1>3 DEF IndexPart, ListedWasOffered, IndexFollows, IndexAgrees
<1>10. QED BY <1>7, <1>8, <1>9 DEF IndexPart

\* What is entered for an upstream is what it offers at that moment.
LEMMA PollOneKeeps ==
    ASSUME IndexPart, PollHealth \/ PollTools
    PROVE  IndexPart'
<1>1. PcFits /\ QueuesFit /\ DataFits /\ PollIsOfNow
    BY TypeParts DEF IndexPart
<1>2. /\ pc[Poller] = "polling" /\ polled < Len(Upstreams)
      /\ UNCHANGED <<actual, changes, pc, servers, serversLock, search, searchLock, lastSeen, nowSeen>>
    BY DEF PollHealth, PollTools
<1>. DEFINE u == Upstreams[polled + 1]
<1>3. \/ UNCHANGED <<polled, entries>> /\ healthOk' \in BOOLEAN
      \/ /\ entries' = [entries EXCEPT ![u] = actual[u]]
         /\ polled' = polled + 1 /\ healthOk' = FALSE
    BY DEF PollHealth, PollTools, Enters, EntryOf
<1>4. polled \in Nat /\ polled + 1 \in 1..Len(Upstreams) /\ u \in Names
    BY <1>1, <1>2, UpstreamIsNamed DEF DataFits
<1>. HIDE DEF u
<1>5. DataFits'
    <2>1. entries \in [Names -> Offers] /\ actual[u] \in Offers /\ polled \in 0..Len(Upstreams)
        BY <1>1, <1>4 DEF DataFits
    <2>2. entries' \in [Names -> Offers]
        BY <1>3, <1>4, <2>1
    <2>3. polled' \in 0..Len(Upstreams)
        BY <1>3, <1>4, <2>1, UpstreamIsNamed
    <2>4. healthOk' \in BOOLEAN
        BY <1>3
    <2>5. QED BY <1>1, <1>2, <2>2, <2>3, <2>4 DEF DataFits
<1>6. PcFits' /\ QueuesFit'
    BY <1>1, <1>2 DEF PcFits, QueuesFit, ListReaders, ListWriters, IndexReaders, IndexWriters
<1>7. IndexTypeOK'
    BY <1>5, <1>6 DEF IndexTypeOK, PcFits, QueuesFit, DataFits, ListReaders, ListWriters,
                      IndexReaders, IndexWriters
<1>8. PollIsOfNow'
    <2>1. \A v \in Names : actual[v] \in nowSeen[v]
        BY <1>1, <1>2 DEF PollIsOfNow
    <2>2. \A i \in 1..polled : entries[Upstreams[i]] \in nowSeen[Upstreams[i]]
        BY <1>1, <1>2 DEF PollIsOfNow
    <2>3. \A i \in 1..polled' : entries'[Upstreams[i]] \in nowSeen[Upstreams[i]]
        <3>1. SUFFICES ASSUME NEW i \in 1..polled' PROVE entries'[Upstreams[i]] \in nowSeen[Upstreams[i]]
            OBVIOUS
        <3>2. CASE UNCHANGED <<polled, entries>>
            BY <2>2, <3>2
        <3>3. CASE entries' = [entries EXCEPT ![u] = actual[u]] /\ polled' = polled + 1
            <4>1. Upstreams[i] \in Names
                BY <1>4, <3>3, UpstreamIsNamed
            <4>2. entries \in [Names -> Offers]
                BY <1>1 DEF DataFits
            <4>3. CASE Upstreams[i] = u
                BY <2>1, <3>3, <4>1, <4>2, <4>3
            <4>4. CASE Upstreams[i] # u
                <5>1. i # polled + 1
                    BY <4>4 DEF u
                <5>2. i \in 1..polled
                    BY <1>4, <3>3, <5>1
                <5>3. QED BY <2>2, <3>3, <4>1, <4>2, <4>4, <5>2
            <4>5. QED BY <4>3, <4>4
        <3>4. QED BY <1>3, <3>2, <3>3
    <2>4. QED BY <1>2, <2>1, <2>3 DEF PollIsOfNow
<1>9. ListedWasOffered' /\ IndexFollows' /\ IndexAgrees'
    BY <1>2 DEF IndexPart, ListedWasOffered, IndexFollows, IndexAgrees
<1>10. QED BY <1>7, <1>8, <1>9 DEF IndexPart

\* The poller waits for the list with all of it polled.
LEMMA AwaitServersKeeps ==
    ASSUME IndexPart, AwaitServers
    PROVE  IndexPart'
<1>1. PcFits /\ QueuesFit /\ DataFits
    BY TypeParts DEF IndexPart
<1>2. /\ pc[Poller] = "polling" /\ polled = Len(Upstreams) /\ Goes(Poller, "servers")
      /\ serversLock' = Writes(serversLock, Poller)
      /\ UNCHANGED <<actual, changes, polled, healthOk, entries, servers, search, searchLock,
                     lastSeen, nowSeen>>
    BY DEF AwaitServers, polling
<1>3. /\ PcFits' /\ pc'[Poller] = "servers"
      /\ ListReaders' = ListReaders /\ IndexReaders' = IndexReaders
      /\ ListWriters' = {p \in {Poller} : "servers" = "servers"}
      /\ IndexWriters' = {p \in {Poller} : "servers" = "index"}
    BY <1>1, <1>2, PollerGoes
<1>4. /\ Poller \notin ListReaders /\ Poller \notin ListWriters
      /\ ListWriters' = ListWriters \cup {Poller} /\ IndexWriters' = IndexWriters
    BY <1>2, <1>3, Tasks DEF ListReaders, ListWriters, IndexWriters
<1>5. IsQueue(serversLock', ListReaders, ListWriters \cup {Poller})
    BY <1>1, <1>2, <1>4, Queues DEF QueuesFit
<1>6. QueuesFit'
    BY <1>1, <1>2, <1>3, <1>4, <1>5 DEF QueuesFit
<1>7. DataFits'
    BY <1>1, <1>2 DEF DataFits
<1>8. IndexTypeOK'
    BY <1>3, <1>6, <1>7 DEF IndexTypeOK, PcFits, QueuesFit, DataFits, ListReaders, ListWriters,
                            IndexReaders, IndexWriters
<1>9. PollIsOfNow' /\ ListedWasOffered' /\ IndexFollows' /\ IndexAgrees'
    BY <1>2, <1>3 DEF IndexPart, PollIsOfNow, ListedWasOffered, IndexFollows, IndexAgrees
<1>10. QED BY <1>8, <1>9 DEF IndexPart

\* The list is of one poll, and the poller waits for the index with the same one.
LEMMA WriteServersKeeps ==
    ASSUME IndexPart, WriteServers
    PROVE  IndexPart'
<1>1. PcFits /\ QueuesFit /\ DataFits /\ PollIsOfNow
    BY TypeParts DEF IndexPart
<1>2. /\ pc[Poller] = "servers" /\ Goes(Poller, "index")
      /\ servers' = entries /\ lastSeen' = nowSeen
      /\ serversLock' = Without(serversLock, Poller) /\ searchLock' = Writes(searchLock, Poller)
      /\ UNCHANGED <<actual, changes, polled, healthOk, entries, search, nowSeen>>
    BY DEF WriteServers, polling
<1>3. /\ PcFits' /\ pc'[Poller] = "index"
      /\ ListReaders' = ListReaders /\ IndexReaders' = IndexReaders
      /\ ListWriters' = {p \in {Poller} : "index" = "servers"}
      /\ IndexWriters' = {p \in {Poller} : "index" = "index"}
    BY <1>1, <1>2, PollerGoes
<1>4. /\ Poller \notin ListReaders /\ ListReaders \ {Poller} = ListReaders
      /\ ListWriters' = ListWriters \ {Poller}
      /\ Poller \notin IndexReaders /\ Poller \notin IndexWriters
      /\ IndexWriters' = IndexWriters \cup {Poller}
    BY <1>2, <1>3, Tasks DEF ListReaders, ListWriters, IndexReaders, IndexWriters
<1>5. IsQueue(serversLock', ListReaders \ {Poller}, ListWriters \ {Poller})
    BY <1>1, <1>2, Unqueues DEF QueuesFit
<1>6. IsQueue(searchLock', IndexReaders, IndexWriters \cup {Poller})
    BY <1>1, <1>2, <1>4, Queues DEF QueuesFit
<1>7. QueuesFit'
    BY <1>3, <1>4, <1>5, <1>6 DEF QueuesFit
<1>8. DataFits'
    <2>1. servers' \in [Names -> Offers \cup {Unpolled}] /\ lastSeen' \in [Names -> SUBSET Offers]
        BY <1>1, <1>2 DEF DataFits
    <2>2. QED BY <1>1, <1>2, <2>1 DEF DataFits
<1>9. IndexTypeOK'
    BY <1>3, <1>7, <1>8 DEF IndexTypeOK, PcFits, QueuesFit, DataFits, ListReaders, ListWriters,
                            IndexReaders, IndexWriters
<1>10. ListedWasOffered'
    <2>1. SUFFICES ASSUME NEW u \in Names PROVE entries[u] \in nowSeen[u]
        BY <1>2 DEF ListedWasOffered
    <2>2. PICK i \in 1..Len(Upstreams) : Upstreams[i] = u
        BY UpstreamAssumption, LenProperties DEF Names, ToSet
    <2>3. i \in 1..polled
        BY <1>1, <1>2 DEF PollIsOfNow
    <2>4. QED BY <1>1, <1>2, <2>2, <2>3 DEF PollIsOfNow
<1>11. PollIsOfNow' /\ IndexFollows' /\ IndexAgrees'
    BY <1>2, <1>3 DEF PollIsOfNow, IndexFollows, IndexAgrees
<1>12. QED BY <1>9, <1>10, <1>11 DEF IndexPart

\* The index is of the poll the list is of.
LEMMA WriteIndexKeeps ==
    ASSUME IndexPart, WriteIndex
    PROVE  IndexPart'
<1>1. PcFits /\ QueuesFit /\ DataFits /\ IndexFollows
    BY TypeParts DEF IndexPart
<1>2. /\ pc[Poller] = "index" /\ Goes(Poller, "sleeping")
      /\ search' = entries /\ searchLock' = Without(searchLock, Poller)
      /\ UNCHANGED <<actual, changes, polled, healthOk, entries, servers, serversLock,
                     lastSeen, nowSeen>>
    BY DEF WriteIndex, NewIndex, polling
<1>3. /\ PcFits' /\ pc'[Poller] = "sleeping"
      /\ ListReaders' = ListReaders /\ IndexReaders' = IndexReaders
      /\ ListWriters' = {p \in {Poller} : "sleeping" = "servers"}
      /\ IndexWriters' = {p \in {Poller} : "sleeping" = "index"}
    BY <1>1, <1>2, PollerGoes
<1>4. /\ ListWriters' = ListWriters /\ IndexWriters' = IndexWriters \ {Poller}
      /\ IndexReaders \ {Poller} = IndexReaders
    BY <1>2, <1>3, Tasks DEF ListWriters, IndexWriters, IndexReaders
<1>5. IsQueue(searchLock', IndexReaders \ {Poller}, IndexWriters \ {Poller})
    BY <1>1, <1>2, Unqueues DEF QueuesFit
<1>6. QueuesFit'
    BY <1>1, <1>2, <1>3, <1>4, <1>5 DEF QueuesFit
<1>7. DataFits'
    BY <1>1, <1>2 DEF DataFits
<1>8. IndexTypeOK'
    BY <1>3, <1>6, <1>7 DEF IndexTypeOK, PcFits, QueuesFit, DataFits, ListReaders, ListWriters,
                            IndexReaders, IndexWriters
<1>9. IndexAgrees'
    BY <1>1, <1>2 DEF IndexFollows, IndexAgrees
<1>10. PollIsOfNow' /\ ListedWasOffered' /\ IndexFollows'
    BY <1>2, <1>3 DEF IndexPart, PollIsOfNow, ListedWasOffered, IndexFollows
<1>11. QED BY <1>8, <1>9, <1>10 DEF IndexPart

\* What an upstream offers from now on has been seen by every poll that is not over.
LEMMA UpstreamChangesKeeps ==
    ASSUME IndexPart, NEW u \in Names, UpstreamChanges(u)
    PROVE  IndexPart'
<1>1. PcFits /\ QueuesFit /\ DataFits /\ PollIsOfNow
    BY TypeParts DEF IndexPart
<1>2. PICK offer \in {None, changes + 1} :
        /\ actual' = [actual EXCEPT ![u] = offer]
        /\ nowSeen' = [nowSeen EXCEPT ![u] = @ \cup {offer}]
        /\ lastSeen' = [lastSeen EXCEPT ![u] = @ \cup {offer}]
    BY DEF UpstreamChanges
<1>3. /\ changes < MaxChanges /\ changes' = changes + 1
      /\ UNCHANGED <<pc, polled, healthOk, entries, servers, serversLock, search, searchLock>>
    BY DEF UpstreamChanges, polling
<1>4. changes + 1 \in 0..MaxChanges /\ offer \in Offers
    BY <1>1, <1>2, <1>3, BoundAssumption DEF DataFits, Offers
<1>5. /\ actual' \in [Names -> Offers] /\ nowSeen' \in [Names -> SUBSET Offers]
      /\ lastSeen' \in [Names -> SUBSET Offers]
    BY <1>1, <1>2, <1>4 DEF DataFits
<1>6. DataFits'
    BY <1>1, <1>3, <1>4, <1>5 DEF DataFits
<1>7. PcFits' /\ QueuesFit'
    BY <1>1, <1>3 DEF PcFits, QueuesFit, ListReaders, ListWriters, IndexReaders, IndexWriters
<1>8. IndexTypeOK'
    BY <1>6, <1>7 DEF IndexTypeOK, PcFits, QueuesFit, DataFits, ListReaders, ListWriters,
                      IndexReaders, IndexWriters
<1>9. /\ \A v \in Names : nowSeen[v] \subseteq nowSeen'[v] /\ lastSeen[v] \subseteq lastSeen'[v]
      /\ \A v \in Names : actual[v] \in nowSeen[v] => actual'[v] \in nowSeen'[v]
    BY <1>1, <1>2 DEF DataFits
<1>10. PollIsOfNow'
    <2>1. \A i \in 1..polled : Upstreams[i] \in Names
        BY <1>1, UpstreamIsNamed DEF DataFits
    <2>2. QED BY <1>1, <1>3, <1>9, <2>1 DEF PollIsOfNow
<1>11. ListedWasOffered'
    BY <1>3, <1>9 DEF IndexPart, ListedWasOffered
<1>12. IndexFollows' /\ IndexAgrees'
    BY <1>3 DEF IndexPart, IndexFollows, IndexAgrees
<1>13. QED BY <1>8, <1>10, <1>11, <1>12 DEF IndexPart

\* What leaves the index alone leaves this alone.
LEMMA IndexStays ==
    ASSUME IndexPart, UNCHANGED catalog
    PROVE  IndexPart' /\ pc' = pc
<1>1. UNCHANGED <<actual, changes, pc, polled, healthOk, entries, servers, serversLock, search,
                  searchLock, lastSeen, nowSeen>>
    BY DEF catalog, polling
<1>2. QED BY <1>1 DEF IndexPart, IndexTypeOK, PollIsOfNow, ListedWasOffered, IndexFollows, IndexAgrees

-----------------------------------------------------------------------------
(* The theorems *)

Finding == stage # "none" <=> pc[Finder] \in {"searching", "filtering"}

\* The invariant is about the index, the filter, and the task they share.
LEMMA InductiveParts == Inductive <=> IndexPart /\ FilterPart /\ Finding
BY DEF Inductive, TypeOK, IndexPart, FilterPart, Finding

\* Those who do not find tools leave the finder where its filter is.
LEMMA OthersKeepFinding ==
    ASSUME IndexPart, Finding, Others, UNCHANGED filter
    PROVE  Finding'
<1>1. PcFits /\ Finder \in Searches
    BY TypeParts, FinderAssumption DEF IndexPart
<1>2. stage' = stage
    BY DEF filter
<1>3. ASSUME NEW p \in Requests \cup {Poller}, NEW to, Goes(p, to), p # Finder
      PROVE  pc'[Finder] = pc[Finder]
    BY <1>1, <1>3, Tasks DEF Goes, PcFits
<1>4. CASE Poll
    <2>1. pc'[Finder] = pc[Finder]
        BY <1>1, <1>3, <1>4, Tasks DEF Poll, PollStarts, PollHealth, PollTools, AwaitServers,
                                       WriteServers, WriteIndex
    <2>2. QED BY <1>2, <2>1 DEF Finding
<1>5. ASSUME NEW s \in Searches, SearchQueues(s) PROVE Finding'
    <2>1. CASE s = Finder
        <3>1. pc[Finder] = "idle" /\ pc'[Finder] = "waiting"
            BY <1>1, <1>5, <2>1, Tasks DEF SearchQueues, Goes, PcFits
        <3>2. QED BY <1>2, <3>1 DEF Finding
    <2>2. CASE s # Finder
        <3>1. pc'[Finder] = pc[Finder]
            BY <1>3, <1>5, <2>2, Tasks DEF SearchQueues
        <3>2. QED BY <1>2, <3>1 DEF Finding
    <2>3. QED BY <2>1, <2>2
<1>6. ASSUME NEW c \in Calls, CallQueues(c) \/ CallChecks(c) \/ Shows(c) \/ CallEnds(c)
      PROVE  Finding'
    <2>1. pc'[Finder] = pc[Finder]
        BY <1>1, <1>3, <1>6, Tasks DEF CallQueues, CallChecks, Shows, CallEnds
    <2>2. QED BY <1>2, <2>1 DEF Finding
<1>7. ASSUME NEW u \in Names, UpstreamChanges(u) PROVE Finding'
    BY <1>2, <1>7 DEF UpstreamChanges, Finding
<1>8. QED BY <1>4, <1>5, <1>6, <1>7 DEF Others

\* The inductive invariant.
THEOREM InductiveHolds == Spec => []Inductive
<1>1. Init => Inductive
    <2>1. SUFFICES ASSUME Init PROVE Inductive
        OBVIOUS
    <2>2. /\ actual \in [Names -> {0, None}] /\ changes = 0
          /\ pc = [p \in Requests \cup {Poller} |-> IF p = Poller THEN "sleeping" ELSE "idle"]
          /\ polled = 0 /\ healthOk = FALSE
          /\ entries = [u \in Names |-> None]
          /\ servers = [u \in Names |-> Unpolled] /\ serversLock = << >>
          /\ search = [u \in Names |-> None] /\ searchLock = << >>
          /\ lastSeen = [u \in Names |-> {}] /\ nowSeen = [u \in Names |-> {}]
        BY <2>1 DEF Init, IndexInit
    <2>3. /\ DOMAIN pc = Requests \cup {Poller} /\ pc[Poller] = "sleeping"
          /\ \A r \in Requests : pc[r] = "idle"
        BY <2>2, Tasks
    <2>4. PcFits
        BY <2>3, Tasks DEF PcFits
    <2>5. DataFits
        <3>1. 0 \in 0..MaxChanges /\ {0, None} \subseteq Offers /\ None \in Offers
            BY BoundAssumption DEF Offers
        <3>2. 0 \in 0..Len(Upstreams)
            BY UpstreamIsNamed
        <3>3. QED BY <2>2, <3>1, <3>2 DEF DataFits
    <2>6. QueuesFit
        <3>1. ListReaders = {} /\ ListWriters = {} /\ IndexReaders = {} /\ IndexWriters = {}
            BY <2>3, Tasks DEF ListReaders, ListWriters, IndexReaders, IndexWriters
        <3>2. IsQueue(<< >>, {}, {})
            <4>1. << >> \in Seq([who : Requests \cup {Poller}, kind : {"read", "write"}])
                OBVIOUS
            <4>2. DOMAIN << >> = {}
                OBVIOUS
            <4>3. Queued(<< >>, "read") = {} /\ Queued(<< >>, "write") = {}
                BY <4>2 DEF Queued, ToSet
            <4>4. QED BY <4>1, <4>2, <4>3 DEF IsQueue
        <3>3. QED BY <2>2, <3>1, <3>2 DEF QueuesFit
    <2>7. IndexTypeOK
        BY <2>4, <2>5, <2>6, TypeParts
    <2>8. PollIsOfNow /\ ListedWasOffered /\ IndexFollows /\ IndexAgrees
        BY <2>2, <2>3 DEF PollIsOfNow, ListedWasOffered, IndexFollows, IndexAgrees
    <2>9. FilterPart /\ stage = "none"
        <3>1. /\ stage = "none" /\ tools = << >> /\ next = 1
              /\ inFlight = {} /\ outcomes = << >> /\ result = << >>
            BY <2>1 DEF Init, NotCalled
        <3>2. Len(tools) = 0 /\ DOMAIN tools = {} /\ DOMAIN outcomes = {} /\ << >> \in Seq(Found)
            BY <3>1
        <3>3. outcomes \in [DOMAIN tools -> Verdicts \cup {"none"}] /\ next \in 1..(Len(tools) + 1)
            BY <3>1, <3>2
        <3>4. FilterTypeOK /\ FanOut /\ ListIsFiltered
            BY <3>1, <3>3 DEF FilterTypeOK, FanOut, ListIsFiltered
        <3>5. QED BY <3>1, <3>2, <3>4 DEF FilterPart
    <2>10. Finding
        BY <2>3, <2>9, FinderAssumption, Tasks DEF Finding
    <2>11. QED BY <2>7, <2>8, <2>9, <2>10, InductiveParts DEF IndexPart
<1>2. Inductive /\ [Next]_vars => Inductive'
    <2>1. SUFFICES ASSUME Inductive, [Next]_vars PROVE Inductive'
        OBVIOUS
    <2>2. IndexPart /\ FilterPart /\ Finding /\ Finder \in Searches
        BY <2>1, InductiveParts, FinderAssumption
    <2>3. SUFFICES IndexPart' /\ FilterPart' /\ Finding'
        BY DEF Inductive, TypeOK, IndexPart, FilterPart, Finding
    <2>4. CASE Others /\ UNCHANGED filter
        <3>1. IndexPart'
            BY <2>2, <2>4, PollStartsKeeps, PollOneKeeps, AwaitServersKeeps, WriteServersKeeps,
               WriteIndexKeeps, SearchQueuesKeeps, CallQueuesKeeps, CallSeesKeeps, CallEndsKeeps,
               UpstreamChangesKeeps DEF Others, Poll
        <3>2. QED BY <2>2, <2>4, <3>1, FilterStays, OthersKeepFinding
    <2>5. CASE ListQueues(Finder) /\ UNCHANGED filter
        <3>1. IndexPart'
            BY <2>2, <2>5, ListQueuesKeeps
        <3>2. FilterPart' /\ stage' = stage
            BY <2>2, <2>5, FilterStays
        <3>3. pc[Finder] = "idle" /\ pc'[Finder] = "listing"
            BY <2>2, <2>5, TypeParts, Tasks DEF IndexPart, PcFits, ListQueues, Goes
        <3>4. QED BY <2>2, <3>1, <3>2, <3>3 DEF Finding
    <2>6. CASE Find
        <3>1. search \in [Names -> Offers \cup {Unpolled}] /\ servers \in [Names -> Offers \cup {Unpolled}]
            BY <2>2, TypeParts DEF IndexPart, DataFits
        <3>2. CASE SearchReads(Finder) /\ \E found \in Searched(ToolsOf(search)) : Begins(found)
            <4>1. PICK found \in Searched(ToolsOf(search)) : Begins(found)
                BY <3>2
            <4>2. found \in Seq(Found)
                BY <3>1, ToolsAreFound, SearchedAreFound
            <4>3. FilterPart' /\ stage' # "none"
                BY <2>2, <4>1, <4>2, BeginsKeeps
            <4>4. IndexPart' /\ pc'[Finder] = "searching"
                BY <2>2, <3>2, SearchReadsKeeps
            <4>5. QED BY <4>3, <4>4 DEF Finding
        <3>3. CASE ListReads(Finder) /\ Begins(ToolsOf(servers))
            <4>1. FilterPart' /\ stage' # "none"
                BY <2>2, <3>1, <3>3, ToolsAreFound, BeginsKeeps
            <4>2. IndexPart' /\ pc'[Finder] = "filtering"
                BY <2>2, <3>3, ListReadsKeeps
            <4>3. QED BY <4>1, <4>2 DEF Finding
        <3>4. QED BY <2>6, <3>2, <3>3 DEF Find
    <2>7. CASE Answer
        <3>1. IndexPart' /\ pc'[Finder] = "idle"
            BY <2>2, <2>7, FilteredKeeps DEF Answer
        <3>2. FilterPart' /\ stage' = "none"
            BY <2>7, EndsKeeps DEF Answer
        <3>3. QED BY <3>1, <3>2 DEF Finding
    <2>8. ASSUME NEW s \in Searches \ {Finder}, Search(s)
          PROVE  IndexPart' /\ FilterPart' /\ Finding'
        <3>1. IndexPart'
            BY <2>2, <2>8, SearchReadsKeeps, FilteredKeeps DEF Search
        <3>2. FilterPart' /\ stage' = stage
            BY <2>2, <2>8, FilterStays DEF Search
        <3>3. pc'[Finder] = pc[Finder]
            BY <2>2, <2>8, TypeParts, Tasks DEF Search, SearchReads, Filtered, Goes, IndexPart, PcFits
        <3>4. QED BY <2>2, <3>1, <3>2, <3>3 DEF Finding
    <2>9. CASE Checks
        <3>1. IndexPart' /\ pc' = pc
            BY <2>2, <2>9, IndexStays DEF Checks
        <3>2. stage = "joining"
            BY <2>9 DEF Checks, Filters, Collects, Joins, JoinsPanic
        <3>3. FilterPart' /\ stage' # "none"
            BY <2>2, <2>9, JoinsKeeps, JoinsPanicKeeps, CollectsKeeps DEF Checks, Filters
        <3>4. QED BY <2>2, <3>1, <3>2, <3>3 DEF Finding
    <2>10. ASSUME NEW r \in Requests, Gone(r)
           PROVE  IndexPart' /\ FilterPart' /\ Finding'
        <3>1. IndexPart' /\ pc'[r] = "idle"
            BY <2>2, <2>10, DropKeeps DEF Gone
        <3>2. CASE r = Finder /\ stage # "none"
            <4>1. FilterPart' /\ stage' = "none"
                BY <2>10, <3>2, EndsKeeps DEF Gone
            <4>2. QED BY <3>1, <3>2, <4>1 DEF Finding
        <3>3. CASE ~(r = Finder /\ stage # "none")
            <4>1. FilterPart' /\ stage' = stage
                BY <2>2, <2>10, <3>3, FilterStays DEF Gone
            <4>2. CASE r = Finder
                BY <3>1, <3>3, <4>1, <4>2 DEF Finding
            <4>3. CASE r # Finder
                <5>1. pc'[Finder] = pc[Finder]
                    BY <2>2, <2>10, <4>3, TypeParts, Tasks DEF Gone, Drop, Goes, IndexPart, PcFits
                <5>2. QED BY <2>2, <3>1, <4>1, <5>1 DEF Finding
            <4>4. QED BY <4>2, <4>3
        <3>4. QED BY <3>2, <3>3
    <2>11. CASE UNCHANGED vars
        <3>1. UNCHANGED catalog /\ UNCHANGED filter
            BY <2>11 DEF vars
        <3>2. QED BY <2>2, <3>1, IndexStays, FilterStays DEF Finding
    <2>12. QED
        BY <2>1, <2>4, <2>5, <2>6, <2>7, <2>8, <2>9, <2>10, <2>11 DEF Next
<1>3. QED BY <1>1, <1>2, PTL DEF Spec

\* Every variable keeps its type, and each task in a lock's queue is at a point that
\* needs it.
THEOREM TypeCorrect == Spec => []TypeOK
BY InductiveHolds, PTL DEF Inductive

\* Nothing of an earlier poll survives in the list.
THEOREM ListsAreOfOnePoll == Spec => []ListedWasOffered
BY InductiveHolds, PTL DEF Inductive

\* The list and the index are of the same poll.
THEOREM IndexIsOfTheList == Spec => []IndexAgrees
BY InductiveHolds, PTL DEF Inductive

\* The filter uses the slots it has and no more.
THEOREM SlotsAreBounded == Spec => []FanOut
BY InductiveHolds, PTL DEF Inductive

\* The answer is what is allowed, in its order, or withheld.
THEOREM AnswersAreFiltered == Spec => []ListIsFiltered
BY InductiveHolds, PTL DEF Inductive
=============================================================================

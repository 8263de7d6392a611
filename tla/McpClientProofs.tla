--------------------------- MODULE McpClientProofs ---------------------------
(***************************************************************************)
(* McpClient, for any number of callers, any noise and any faults: a       *)
(* caller that waits for a line has one coming while no line is torn, and  *)
(* the client implements RpcContract.                                      *)
(***************************************************************************)
EXTENDS McpClient, SequenceTheorems, FiniteSetTheorems, FunctionTheorems, TLAPS

-----------------------------------------------------------------------------
(* Sequences: a mutex's queue, and the pipes *)

\* What is behind the entry that is removed moves up by one.
LEMMA Removed ==
    ASSUME NEW S, NEW s \in Seq(S), NEW k \in 1..Len(s)
    PROVE  /\ RemoveAt(s, k) \in Seq(S) /\ Len(RemoveAt(s, k)) = Len(s) - 1
           /\ \A i \in 1..(Len(s) - 1) :
                RemoveAt(s, k)[i] = IF i < k THEN s[i] ELSE s[i + 1]
<1>1. Len(s) \in Nat /\ \A i \in 1..Len(s) : s[i] \in S
    BY ElementOfSeq, LenProperties
<1>. DEFINE ahead == SubSeq(s, 1, k - 1)
            behind == SubSeq(s, k + 1, Len(s))
<1>2. ahead \in Seq(S) /\ Len(ahead) = k - 1 /\ \A i \in 1..(k - 1) : ahead[i] = s[i]
    <2>1. \A i \in 1..(k - 1) : s[i] \in S
        BY <1>1
    <2>2. /\ ahead \in Seq(S)
          /\ Len(ahead) = IF 1 <= k - 1 THEN (k - 1) - 1 + 1 ELSE 0
          /\ \A i \in 1..((k - 1) - 1 + 1) : ahead[i] = s[1 + i - 1]
        BY <1>1, <2>1, SubSeqProperties
    <2>3. QED BY <1>1, <2>2
<1>3. /\ behind \in Seq(S) /\ Len(behind) = Len(s) - k
      /\ \A i \in 1..(Len(s) - k) : behind[i] = s[k + i]
    <2>1. \A i \in (k + 1)..Len(s) : s[i] \in S
        BY <1>1
    <2>2. /\ behind \in Seq(S)
          /\ Len(behind) = IF k + 1 <= Len(s) THEN Len(s) - (k + 1) + 1 ELSE 0
          /\ \A i \in 1..(Len(s) - (k + 1) + 1) : behind[i] = s[(k + 1) + i - 1]
        BY <1>1, <2>1, SubSeqProperties
    <2>3. QED BY <1>1, <2>2
<1>4. /\ ahead \o behind \in Seq(S)
      /\ Len(ahead \o behind) = Len(ahead) + Len(behind)
      /\ \A i \in 1..(Len(ahead) + Len(behind)) :
            (ahead \o behind)[i] = IF i <= Len(ahead) THEN ahead[i] ELSE behind[i - Len(ahead)]
    BY <1>2, <1>3, ConcatProperties
<1>5. RemoveAt(s, k) = ahead \o behind
    BY DEF RemoveAt
<1>. HIDE DEF ahead, behind
<1>6. Len(ahead) + Len(behind) = Len(s) - 1
    BY <1>1, <1>2, <1>3
<1>7. ASSUME NEW i \in 1..(Len(s) - 1)
      PROVE  (ahead \o behind)[i] = IF i < k THEN s[i] ELSE s[i + 1]
    <2>1. (ahead \o behind)[i] = IF i <= Len(ahead) THEN ahead[i] ELSE behind[i - Len(ahead)]
        BY <1>4, <1>6
    <2>2. CASE i < k
        BY <1>1, <1>2, <2>1, <2>2
    <2>3. CASE ~(i < k)
        <3>1. i - (k - 1) \in 1..(Len(s) - k) /\ ~(i <= k - 1)
            BY <1>1, <2>3
        <3>2. behind[i - (k - 1)] = s[k + (i - (k - 1))] /\ k + (i - (k - 1)) = i + 1
            BY <1>1, <1>3, <3>1
        <3>3. QED BY <1>2, <2>1, <2>3, <3>1, <3>2
    <2>4. QED BY <2>2, <2>3
<1>8. QED BY <1>4, <1>5, <1>6, <1>7

\* What has no entry twice has none twice without one of them, and has the others.
LEMMA OneLess ==
    ASSUME NEW S, NEW s \in Seq(S), IsInjective(s), NEW k \in 1..Len(s)
    PROVE  /\ RemoveAt(s, k) \in Seq(S) /\ IsInjective(RemoveAt(s, k))
           /\ ToSet(RemoveAt(s, k)) = ToSet(s) \ {s[k]}
           /\ k # 1 => RemoveAt(s, k) # << >> /\ Head(RemoveAt(s, k)) = Head(s)
<1>. DEFINE t == RemoveAt(s, k)
<1>1. /\ t \in Seq(S) /\ Len(t) = Len(s) - 1
      /\ \A i \in 1..(Len(s) - 1) : t[i] = IF i < k THEN s[i] ELSE s[i + 1]
    BY Removed
<1>2. /\ DOMAIN s = 1..Len(s) /\ DOMAIN t = 1..(Len(s) - 1) /\ Len(s) \in Nat
      /\ \A i, j \in 1..Len(s) : s[i] = s[j] => i = j
    BY <1>1, LenProperties DEF IsInjective
<1>. HIDE DEF t
<1>3. IsInjective(t)
    BY <1>1, <1>2 DEF IsInjective
<1>4. ToSet(t) = ToSet(s) \ {s[k]}
    <2>1. ASSUME NEW i \in 1..(Len(s) - 1) PROVE t[i] \in ToSet(s) \ {s[k]}
        <3>1. CASE i < k
            BY <1>1, <1>2, <3>1 DEF ToSet
        <3>2. CASE ~(i < k)
            <4>1. i + 1 \in 1..Len(s) /\ i + 1 # k /\ t[i] = s[i + 1]
                BY <1>1, <1>2, <3>2
            <4>2. QED BY <1>2, <4>1 DEF ToSet
        <3>3. QED BY <3>1, <3>2
    <2>2. ASSUME NEW i \in 1..Len(s), i # k PROVE \E j \in 1..(Len(s) - 1) : t[j] = s[i]
        <3>1. CASE i < k
            <4>1. i \in 1..(Len(s) - 1) /\ t[i] = s[i]
                BY <1>1, <1>2, <3>1
            <4>2. QED BY <4>1
        <3>2. CASE ~(i < k)
            <4>1. i - 1 \in 1..(Len(s) - 1) /\ ~(i - 1 < k) /\ (i - 1) + 1 = i
                BY <1>2, <2>2, <3>2
            <4>2. t[i - 1] = s[i]
                BY <1>1, <4>1
            <4>3. QED BY <4>1, <4>2
        <3>3. QED BY <3>1, <3>2
    <2>3. ToSet(t) \subseteq ToSet(s) \ {s[k]}
        BY <1>2, <2>1 DEF ToSet
    <2>4. ASSUME NEW e \in ToSet(s) \ {s[k]} PROVE e \in ToSet(t)
        <3>1. PICK i \in 1..Len(s) : e = s[i]
            BY <1>2 DEF ToSet
        <3>2. PICK j \in 1..(Len(s) - 1) : t[j] = e
            BY <2>2, <2>4, <3>1
        <3>3. QED BY <1>2, <3>2 DEF ToSet
    <2>5. QED BY <2>3, <2>4
<1>5. k # 1 => t # << >> /\ Head(t) = Head(s)
    <2>1. ASSUME k # 1 PROVE 1 \in 1..(Len(s) - 1) /\ t[1] = s[1]
        BY <1>1, <1>2, <2>1
    <2>2. QED BY <1>1, <1>2, <2>1
<1>6. QED BY <1>1, <1>3, <1>4, <1>5 DEF t

\* A caller that is dropped leaves the queue of a mutex; the others stay.
LEMMA Dropped ==
    ASSUME NEW mutex \in Seq(Callers), IsInjective(mutex), NEW c
    PROVE  /\ Without(mutex, c) \in Seq(Callers) /\ IsInjective(Without(mutex, c))
           /\ ToSet(Without(mutex, c)) = ToSet(mutex) \ {c}
           /\ \A d : d # c /\ Holds(d, mutex) => Holds(d, Without(mutex, c))
<1>1. CASE c \notin ToSet(mutex)
    BY <1>1 DEF Without
<1>2. CASE c \in ToSet(mutex)
    <2>. DEFINE k == CHOOSE i \in DOMAIN mutex : mutex[i] = c
    <2>1. k \in DOMAIN mutex /\ mutex[k] = c
        BY <1>2 DEF ToSet
    <2>2. Without(mutex, c) = RemoveAt(mutex, k)
        BY <1>2 DEF Without
    <2>. HIDE DEF k
    <2>3. k \in 1..Len(mutex) /\ (mutex # << >> => Head(mutex) = mutex[1])
        BY <2>1, LenProperties
    <2>4. QED BY <2>1, <2>2, <2>3, OneLess DEF Holds
<1>3. QED BY <1>1, <1>2

\* Who releases a mutex is its head; the next one has it.
LEMMA Popped ==
    ASSUME NEW S, NEW s \in Seq(S), s # << >>
    PROVE  /\ Tail(s) \in Seq(S) /\ Len(Tail(s)) = Len(s) - 1 /\ Len(s) \in Nat \ {0}
           /\ Head(s) = s[1] /\ Head(s) \in S
           /\ DOMAIN s = 1..Len(s) /\ DOMAIN Tail(s) = 1..(Len(s) - 1)
           /\ \A i \in 1..(Len(s) - 1) : Tail(s)[i] = s[i + 1]
<1>1. Len(s) \in Nat /\ Len(s) # 0 /\ DOMAIN s = 1..Len(s)
    BY LenProperties, EmptySeq
<1>2. /\ Head(s) = s[1] /\ Head(s) \in S /\ Tail(s) \in Seq(S) /\ Len(Tail(s)) = Len(s) - 1
      /\ \A i \in 1..(Len(s) - 1) : Tail(s)[i] = s[i + 1]
    BY <1>1, HeadTailProperties
<1>3. DOMAIN Tail(s) = 1..(Len(s) - 1)
    BY <1>2, LenProperties
<1>4. QED BY <1>1, <1>2, <1>3

LEMMA Freed ==
    ASSUME NEW mutex \in Seq(Callers), IsInjective(mutex), NEW c, Holds(c, mutex)
    PROVE  /\ Released(mutex) \in Seq(Callers) /\ IsInjective(Released(mutex))
           /\ ToSet(Released(mutex)) = ToSet(mutex) \ {c}
<1>1. mutex # << >> /\ Head(mutex) = c /\ Released(mutex) = Tail(mutex)
    BY DEF Holds, Released
<1>2. /\ Tail(mutex) \in Seq(Callers) /\ Len(mutex) \in Nat \ {0}
      /\ mutex[1] = c
      /\ DOMAIN mutex = 1..Len(mutex) /\ DOMAIN Tail(mutex) = 1..(Len(mutex) - 1)
      /\ \A i \in 1..(Len(mutex) - 1) : Tail(mutex)[i] = mutex[i + 1]
    BY <1>1, Popped
<1>3. \A i, j \in 1..Len(mutex) : mutex[i] = mutex[j] => i = j
    BY <1>2 DEF IsInjective
<1>4. IsInjective(Tail(mutex))
    BY <1>2, <1>3 DEF IsInjective
<1>5. ToSet(Tail(mutex)) = ToSet(mutex) \ {c}
    <2>1. \A i \in 1..(Len(mutex) - 1) : i + 1 \in 1..Len(mutex) /\ i + 1 # 1
        BY <1>2
    <2>2. \A i \in 1..Len(mutex) : i = 1 \/ (i - 1 \in 1..(Len(mutex) - 1) /\ (i - 1) + 1 = i)
        BY <1>2
    <2>3. \A i \in 1..(Len(mutex) - 1) : Tail(mutex)[i] \in ToSet(mutex) \ {c}
        BY <1>2, <1>3, <2>1 DEF ToSet
    <2>4. \A i \in 1..Len(mutex) : mutex[i] = c \/ \E j \in 1..(Len(mutex) - 1) : Tail(mutex)[j] = mutex[i]
        BY <1>2, <2>2
    <2>5. ToSet(Tail(mutex)) \subseteq ToSet(mutex) \ {c}
        BY <1>2, <2>3 DEF ToSet
    <2>6. ASSUME NEW e \in ToSet(mutex) \ {c} PROVE e \in ToSet(Tail(mutex))
        <3>1. PICK i \in 1..Len(mutex) : e = mutex[i]
            BY <1>2 DEF ToSet
        <3>2. PICK j \in 1..(Len(mutex) - 1) : Tail(mutex)[j] = e
            BY <2>4, <2>6, <3>1
        <3>3. QED BY <1>2, <3>2 DEF ToSet
    <2>7. QED BY <2>5, <2>6
<1>6. QED BY <1>1, <1>2, <1>4, <1>5

\* Who was not in a queue joins it at its end.
LEMMA Added ==
    ASSUME NEW S, NEW s \in Seq(S), NEW e \in S
    PROVE  /\ Append(s, e) \in Seq(S) /\ Len(Append(s, e)) = Len(s) + 1 /\ Len(s) \in Nat
           /\ DOMAIN s = 1..Len(s) /\ DOMAIN Append(s, e) = 1..(Len(s) + 1)
           /\ \A i \in 1..Len(s) : Append(s, e)[i] = s[i]
           /\ Append(s, e)[Len(s) + 1] = e
           /\ ToSet(Append(s, e)) = ToSet(s) \cup {e}
           /\ IsInjective(s) /\ e \notin ToSet(s) => IsInjective(Append(s, e))
           /\ s # << >> => Append(s, e) # << >> /\ Head(Append(s, e)) = Head(s)
<1>. DEFINE t == Append(s, e)
<1>1. /\ t \in Seq(S) /\ Len(t) = Len(s) + 1
      /\ \A i \in 1..Len(s) : t[i] = s[i]
      /\ t[Len(s) + 1] = e
      /\ Len(s) \in Nat /\ DOMAIN s = 1..Len(s)
    BY AppendProperties, LenProperties
<1>. HIDE DEF t
<1>2. DOMAIN t = 1..(Len(s) + 1)
    BY <1>1, LenProperties
<1>3. \A i \in 1..(Len(s) + 1) : i \in 1..Len(s) \/ i = Len(s) + 1
    BY <1>1
<1>4. \A i \in 1..Len(s) : i \in 1..(Len(s) + 1)
    BY <1>1
<1>5. ToSet(t) = ToSet(s) \cup {e}
    <2>1. Len(s) + 1 \in 1..(Len(s) + 1)
        BY <1>1
    <2>2. QED BY <1>1, <1>2, <1>3, <1>4, <2>1 DEF ToSet
<1>6. ASSUME IsInjective(s), e \notin ToSet(s) PROVE IsInjective(t)
    <2>1. \A i \in 1..Len(s) : s[i] # e
        BY <1>1, <1>6 DEF ToSet
    <2>2. \A i, j \in 1..Len(s) : s[i] = s[j] => i = j
        BY <1>1, <1>6 DEF IsInjective
    <2>3. \A i, j \in 1..(Len(s) + 1) : t[i] = t[j] => i = j
        BY <1>1, <1>3, <2>1, <2>2
    <2>4. QED BY <1>2, <2>3 DEF IsInjective
<1>7. ASSUME s # << >> PROVE t # << >> /\ Head(t) = Head(s)
    <2>1. Len(s) # 0
        BY <1>7, EmptySeq
    <2>2. 1 \in 1..Len(s) /\ Head(s) = s[1]
        BY <1>1, <1>7, <2>1, Popped
    <2>3. t # << >>
        BY <1>1, EmptySeq
    <2>4. Head(t) = t[1]
        BY <1>1, <2>3, Popped
    <2>5. QED BY <1>1, <2>2, <2>3, <2>4
<1>8. QED BY <1>1, <1>2, <1>5, <1>6, <1>7 DEF t

\* A line that is written counts if it ends a call.
LEMMA AnswersGrow ==
    ASSUME NEW s \in Seq(Lines), NEW l \in Lines, IsFiniteSet(Answers(s))
    PROVE  /\ IsFiniteSet(Answers(Append(s, l)))
           /\ Cardinality(Answers(Append(s, l)))
                = Cardinality(Answers(s)) + (IF l.kind = "note" THEN 0 ELSE 1)
<1>1. /\ Len(s) \in Nat /\ DOMAIN s = 1..Len(s) /\ DOMAIN Append(s, l) = 1..(Len(s) + 1)
      /\ \A i \in 1..Len(s) : Append(s, l)[i] = s[i]
      /\ Append(s, l)[Len(s) + 1] = l
    BY Added
<1>2. Len(s) + 1 \notin Answers(s)
    BY <1>1 DEF Answers
<1>3. Answers(Append(s, l)) = Answers(s) \cup (IF l.kind = "note" THEN {} ELSE {Len(s) + 1})
    <2>1. \A i \in 1..(Len(s) + 1) : i \in 1..Len(s) \/ i = Len(s) + 1
        BY <1>1
    <2>2. 1..Len(s) \subseteq 1..(Len(s) + 1) /\ Len(s) + 1 \in 1..(Len(s) + 1)
        BY <1>1
    <2>3. QED BY <1>1, <2>1, <2>2 DEF Answers
<1>4. Cardinality(Answers(s)) \in Nat
    BY FS_CardinalityType
<1>5. CASE l.kind = "note"
    BY <1>3, <1>4, <1>5
<1>6. CASE l.kind # "note"
    <2>1. Answers(Append(s, l)) = Answers(s) \cup {Len(s) + 1}
        BY <1>3, <1>6
    <2>2. QED BY <1>2, <1>6, <2>1, FS_AddElement
<1>7. QED BY <1>5, <1>6

\* The lines behind the first are counted like the lines of the rest.
LEMMA AnswersShrink ==
    ASSUME NEW s \in Seq(Lines), s # << >>, IsFiniteSet(Answers(s))
    PROVE  /\ IsFiniteSet(Answers(Tail(s)))
           /\ Cardinality(Answers(s))
                = Cardinality(Answers(Tail(s))) + (IF Head(s).kind = "note" THEN 0 ELSE 1)
<1>1. /\ Len(s) \in Nat \ {0} /\ Head(s) = s[1]
      /\ DOMAIN s = 1..Len(s) /\ DOMAIN Tail(s) = 1..(Len(s) - 1)
      /\ \A i \in 1..(Len(s) - 1) : Tail(s)[i] = s[i + 1]
    BY Popped
<1>. DEFINE behind == Answers(s) \ {1}
            moved == [i \in Answers(Tail(s)) |-> i + 1]
<1>2. IsFiniteSet(behind)
    BY FS_Subset
<1>3. \A i \in Answers(Tail(s)) : i \in 1..(Len(s) - 1) /\ i + 1 \in behind
    <2>1. \A i \in 1..(Len(s) - 1) : i + 1 \in 1..Len(s) /\ i + 1 # 1
        BY <1>1
    <2>2. QED BY <1>1, <2>1 DEF Answers
<1>4. \A i \in behind : i - 1 \in Answers(Tail(s)) /\ (i - 1) + 1 = i
    <2>1. \A i \in 1..Len(s) : i # 1 => i - 1 \in 1..(Len(s) - 1) /\ (i - 1) + 1 = i
        BY <1>1
    <2>2. QED BY <1>1, <2>1 DEF Answers
<1>5. moved \in Bijection(Answers(Tail(s)), behind)
    <2>1. moved \in [Answers(Tail(s)) -> behind]
        BY <1>3
    <2>2. \A i, j \in Answers(Tail(s)) : moved[i] = moved[j] => i = j
        BY <1>3
    <2>3. \A i \in behind : \E j \in Answers(Tail(s)) : moved[j] = i
        BY <1>4
    <2>4. QED BY <2>1, <2>2, <2>3, Fun_IsBij
<1>6. ExistsBijection(behind, Answers(Tail(s)))
    BY <1>5, Fun_ExistsBijSymmetric DEF ExistsBijection
<1>7. IsFiniteSet(Answers(Tail(s))) /\ Cardinality(Answers(Tail(s))) = Cardinality(behind)
    BY <1>2, <1>6, FS_Bijection
<1>8. Cardinality(behind) \in Nat
    BY <1>2, FS_CardinalityType
<1>9. 1 \in DOMAIN s
    BY <1>1
<1>10. CASE Head(s).kind = "note"
    <2>1. behind = Answers(s)
        BY <1>1, <1>10 DEF Answers
    <2>. HIDE DEF behind
    <2>2. QED BY <1>7, <1>8, <1>10, <2>1
<1>11. CASE Head(s).kind # "note"
    <2>1. Answers(s) = behind \cup {1} /\ 1 \notin behind
        BY <1>1, <1>9, <1>11 DEF Answers
    <2>. HIDE DEF behind
    <2>2. Cardinality(Answers(s)) = Cardinality(behind) + 1
        BY <1>2, <2>1, FS_AddElement
    <2>3. QED BY <1>7, <1>8, <1>11, <2>2
<1>12. QED BY <1>10, <1>11

-----------------------------------------------------------------------------
(* What a step leaves as it is *)

\* Who has an id and has not yet sent its request
Unsent(c) == pc[c] \in {"numbered", "stdin", "writing"}

\* A step of one caller moves only that one.
LEMMA OneMoves ==
    ASSUME TypeOK, NEW c \in Callers, NEW to, pc' = [pc EXCEPT ![c] = to],
           to \in {"idle", "numbered", "stdin", "writing", "written", "stdout"} \cup Ended
    PROVE  /\ pc' \in [Callers -> {"idle", "numbered", "stdin", "writing", "written", "stdout"} \cup Ended]
           /\ pc'[c] = to /\ \A d \in Callers : d # c => pc'[d] = pc[d]
BY DEF TypeOK

LEMMA IdsStay ==
    ASSUME IdsFit, UNCHANGED <<nextId, id, got, alone>>,
           \A c \in Callers : (pc'[c] = "idle" <=> pc[c] = "idle") /\ (pc'[c] = "returned" <=> pc[c] = "returned")
    PROVE  IdsFit'
BY DEF IdsFit

LEMMA RequestsStay ==
    ASSUME RequestsFit, UNCHANGED <<nextId, id, toServer, pending, answered>>,
           \A c \in Callers : Unsent(c)' => Unsent(c)
    PROVE  RequestsFit'
<1>1. Requested' = Requested
    BY DEF Requested
<1>2. QED BY <1>1 DEF RequestsFit, Unsent

LEMMA AnswersStay ==
    ASSUME AnswersFit, UNCHANGED <<toClient, got, answered>>
    PROVE  AnswersFit'
BY DEF AnswersFit

LEMMA LinesStay ==
    ASSUME LinesAreWhole, UNCHANGED <<toServer, halfLine>>, intact' => intact
    PROVE  LinesAreWhole'
BY DEF LinesAreWhole

\* A caller that stops to wait leaves enough for the others.
LEMMA FewerWait ==
    ASSUME TypeOK, IsFiniteSet(Waiting), NobodyStarves, Waiting' \subseteq Waiting,
           UNCHANGED <<toServer, pending>>,
           alive' /\ intact' => alive /\ intact /\ toClient' = toClient
    PROVE  IsFiniteSet(Waiting') /\ NobodyStarves'
<1>1. IsFiniteSet(Waiting') /\ Cardinality(Waiting') <= Cardinality(Waiting)
    BY FS_Subset
<1>2. Cardinality(Waiting') \in Nat /\ Cardinality(Waiting) \in Nat
    BY <1>1, FS_CardinalityType
<1>3. ASSUME alive', intact' PROVE Cardinality(Waiting')
            <= Len(toServer') + Len(pending') + Cardinality(Answers(toClient'))
    <2>1. Cardinality(Waiting) <= Len(toServer) + Len(pending) + Cardinality(Answers(toClient))
        BY <1>3 DEF NobodyStarves
    <2>2. Len(toServer) \in Nat /\ Len(pending) \in Nat
        BY LenProperties DEF TypeOK
    <2>3. IsFiniteSet(Answers(toClient))
        <3>1. Len(toClient) \in Nat /\ DOMAIN toClient = 1..Len(toClient)
            BY LenProperties DEF TypeOK
        <3>2. IsFiniteSet(DOMAIN toClient)
            BY <3>1, FS_Interval
        <3>3. QED BY <3>2, FS_Subset DEF Answers
    <2>4. Cardinality(Answers(toClient)) \in Nat
        BY <2>3, FS_CardinalityType
    <2>5. toServer' = toServer /\ pending' = pending /\ toClient' = toClient
        BY <1>3
    <2>6. QED BY <1>1, <1>2, <2>1, <2>2, <2>4, <2>5
<1>4. QED BY <1>1, <1>3 DEF NobodyStarves

\* The lengths the pipes and the waiting callers are counted with
LEMMA Counted ==
    ASSUME TypeOK, IsFiniteSet(Waiting)
    PROVE  /\ Len(toServer) \in Nat /\ Len(pending) \in Nat
           /\ IsFiniteSet(Answers(toClient)) /\ Cardinality(Answers(toClient)) \in Nat
           /\ Cardinality(Waiting) \in Nat
<1>1. Len(toServer) \in Nat /\ Len(pending) \in Nat
      /\ Len(toClient) \in Nat /\ DOMAIN toClient = 1..Len(toClient)
    BY LenProperties DEF TypeOK
<1>2. IsFiniteSet(Answers(toClient))
    <2>1. IsFiniteSet(DOMAIN toClient)
        BY <1>1, FS_Interval
    <2>2. QED BY <2>1, FS_Subset DEF Answers
<1>3. QED BY <1>1, <1>2, FS_CardinalityType

-----------------------------------------------------------------------------
(* The steps of a caller *)

\* A new id is nowhere yet.
LEMMA BeginKeeps ==
    ASSUME Inductive, NEW c \in Callers, Begin(c)
    PROVE  Inductive'
<1>1. /\ TypeOK /\ MutexesFit /\ IdsFit /\ RequestsFit /\ AnswersFit /\ LinesAreWhole
      /\ IsFiniteSet(Waiting) /\ NobodyStarves
      /\ pc[c] = "idle" /\ nextId \in Nat \ {0} /\ nextId' = nextId + 1
      /\ UNCHANGED <<got, stdin, stdout, toServer, toClient, halfLine, pending, noise, alive,
                     answered, intact>>
    BY DEF Inductive, TypeOK, Begin
<1>2. /\ pc' \in [Callers -> {"idle", "numbered", "stdin", "writing", "written", "stdout"} \cup Ended]
      /\ pc'[c] = "numbered" /\ \A d \in Callers : d # c => pc'[d] = pc[d]
    BY <1>1, OneMoves DEF Begin
<1>3. /\ id' \in [Callers -> 0..nextId]
      /\ id'[c] = nextId /\ \A d \in Callers : d # c => id'[d] = id[d]
    <2>1. id \in [Callers -> 0..(nextId - 1)] /\ id' = [id EXCEPT ![c] = nextId]
        BY <1>1 DEF TypeOK, Begin
    <2>2. nextId \in 0..nextId /\ 0..(nextId - 1) \subseteq 0..nextId
        BY <1>1
    <2>3. QED BY <2>1, <2>2
<1>4. nextId' - 1 = nextId /\ nextId' - 2 = nextId - 1 /\ nextId' \in Nat \ {0}
      /\ 1..(nextId - 1) \subseteq 1..nextId /\ 0..(nextId - 1) \subseteq 0..nextId /\ nextId \notin 0..(nextId - 1)
    BY <1>1
<1>5. TypeOK'
    <2>1. alone' \in Callers \cup {None}
        BY DEF Begin
    <2>2. got' \in [Callers -> (0..nextId) \cup {None}] /\ answered' \subseteq 1..nextId
        BY <1>1, <1>4 DEF TypeOK
    <2>3. pending' \in Seq(1..nextId)
        BY <1>1, <1>4, SeqMonotonic DEF TypeOK
    <2>4. QED BY <1>1, <1>2, <1>3, <1>4, <2>1, <2>2, <2>3 DEF TypeOK
<1>6. MutexesFit'
    BY <1>1, <1>2 DEF MutexesFit, Holds
<1>7. IdsFit'
    <2>1. \A d \in Callers : id'[d] = 0 <=> pc'[d] = "idle"
        BY <1>1, <1>2, <1>3 DEF IdsFit
    <2>2. ASSUME NEW i \in 1..nextId PROVE \E d \in Callers : id'[d] = i
        <3>1. CASE i = nextId
            BY <1>3, <3>1
        <3>2. CASE i # nextId
            <4>1. i \in 1..(nextId - 1) /\ i # 0
                BY <1>1, <3>2
            <4>2. PICK d \in Callers : id[d] = i
                BY <1>1, <4>1 DEF IdsFit
            <4>3. d # c
                BY <1>1, <4>1, <4>2 DEF IdsFit
            <4>4. QED BY <1>3, <4>2, <4>3
        <3>3. QED BY <3>1, <3>2
    <2>3. \A d \in Callers : id[d] \in 0..(nextId - 1)
        BY <1>1 DEF TypeOK
    <2>4. \A d, e \in Callers : id'[d] = id'[e] /\ id'[d] # 0 => d = e
        BY <1>1, <1>3, <1>4, <2>3 DEF IdsFit
    <2>5. \A d \in Callers : got'[d] # None <=> pc'[d] = "returned"
        BY <1>1, <1>2 DEF IdsFit
    <2>6. alone' # None =>
            id'[alone'] = nextId /\ \A i \in 1..(nextId - 1) : \E d \in Callers : got'[d] = i
        BY <1>1, <1>3 DEF Begin, NoneIsOut
    <2>7. QED BY <1>4, <2>1, <2>2, <2>4, <2>5, <2>6 DEF IdsFit
<1>8. RequestsFit'
    <2>1. Requested' = Requested
        BY <1>1 DEF Requested
    <2>2. ToSet(pending) \subseteq 1..(nextId - 1) /\ answered \subseteq 1..(nextId - 1)
          /\ Requested \subseteq 1..(nextId - 1)
        BY <1>1, ElementOfSeq, LenProperties DEF TypeOK, ToSet, RequestsFit
    <2>3. nextId \notin 1..(nextId - 1)
        BY <1>1
    <2>4. \A d \in Callers : Unsent(d)' => id'[d] \notin Requested \cup ToSet(pending) \cup answered
        BY <1>1, <1>2, <1>3, <2>2, <2>3 DEF RequestsFit, Unsent
    <2>5. Requested \subseteq 1..nextId
        BY <1>4, <2>2
    <2>6. QED BY <1>1, <1>4, <2>1, <2>4, <2>5 DEF RequestsFit, Unsent
<1>9. AnswersFit' /\ LinesAreWhole'
    BY <1>1, AnswersStay, LinesStay
<1>10. IsFiniteSet(Waiting') /\ NobodyStarves'
    <2>1. Waiting' \subseteq Waiting
        BY <1>2 DEF Waiting
    <2>2. QED BY <1>1, <2>1, FewerWait
<1>11. QED BY <1>5, <1>6, <1>7, <1>8, <1>9, <1>10 DEF Inductive

LEMMA AwaitStdinKeeps ==
    ASSUME Inductive, NEW c \in Callers, AwaitStdin(c)
    PROVE  Inductive'
<1>1. /\ TypeOK /\ MutexesFit /\ IdsFit /\ RequestsFit /\ AnswersFit /\ LinesAreWhole
      /\ IsFiniteSet(Waiting) /\ NobodyStarves
      /\ pc[c] = "numbered" /\ stdin' = Append(stdin, c)
      /\ UNCHANGED <<nextId, id, got, stdout, toServer, toClient, halfLine, pending, noise, alive,
                     answered, alone, intact>>
    BY DEF Inductive, AwaitStdin
<1>2. /\ pc' \in [Callers -> {"idle", "numbered", "stdin", "writing", "written", "stdout"} \cup Ended]
      /\ pc'[c] = "stdin" /\ \A d \in Callers : d # c => pc'[d] = pc[d]
    BY <1>1, OneMoves DEF AwaitStdin
<1>3. /\ stdin' \in Seq(Callers) /\ IsInjective(stdin') /\ ToSet(stdin') = ToSet(stdin) \cup {c}
      /\ \A d : Holds(d, stdin) => Holds(d, stdin')
    <2>1. stdin \in Seq(Callers) /\ IsInjective(stdin) /\ c \notin ToSet(stdin)
        BY <1>1 DEF TypeOK, MutexesFit
    <2>2. QED BY <1>1, <2>1, Added DEF Holds
<1>4. TypeOK'
    BY <1>1, <1>2, <1>3 DEF TypeOK
<1>5. MutexesFit'
    BY <1>1, <1>2, <1>3 DEF MutexesFit, Holds
<1>6. IdsFit' /\ RequestsFit' /\ AnswersFit' /\ LinesAreWhole'
    BY <1>1, <1>2, IdsStay, RequestsStay, AnswersStay, LinesStay DEF Unsent
<1>7. IsFiniteSet(Waiting') /\ NobodyStarves'
    <2>1. Waiting' \subseteq Waiting
        BY <1>1, <1>2 DEF Waiting
    <2>2. QED BY <1>1, <2>1, FewerWait
<1>8. QED BY <1>4, <1>5, <1>6, <1>7 DEF Inductive

LEMMA StartWriteKeeps ==
    ASSUME Inductive, NEW c \in Callers, StartWrite(c)
    PROVE  Inductive'
<1>1. /\ TypeOK /\ MutexesFit /\ IdsFit /\ RequestsFit /\ AnswersFit /\ LinesAreWhole
      /\ IsFiniteSet(Waiting) /\ NobodyStarves
      /\ pc[c] = "stdin" /\ Holds(c, stdin)
      /\ UNCHANGED <<nextId, id, got, stdin, stdout, toServer, toClient, halfLine, pending, noise, alive,
                     answered, alone, intact>>
    BY DEF Inductive, StartWrite
<1>2. /\ pc' \in [Callers -> {"idle", "numbered", "stdin", "writing", "written", "stdout"} \cup Ended]
      /\ pc'[c] = "writing" /\ \A d \in Callers : d # c => pc'[d] = pc[d]
    BY <1>1, OneMoves DEF StartWrite
<1>3. TypeOK'
    BY <1>1, <1>2 DEF TypeOK
<1>4. MutexesFit'
    BY <1>1, <1>2 DEF MutexesFit, Holds
<1>5. IdsFit' /\ RequestsFit' /\ AnswersFit' /\ LinesAreWhole'
    BY <1>1, <1>2, IdsStay, RequestsStay, AnswersStay, LinesStay DEF Unsent
<1>6. IsFiniteSet(Waiting') /\ NobodyStarves'
    <2>1. Waiting' \subseteq Waiting
        BY <1>1, <1>2 DEF Waiting
    <2>2. QED BY <1>1, <2>1, FewerWait
<1>7. QED BY <1>3, <1>4, <1>5, <1>6 DEF Inductive

\* Who has written waits for a line, and one more is on its way.
LEMMA FinishWriteKeeps ==
    ASSUME Inductive, NEW c \in Callers, FinishWrite(c)
    PROVE  Inductive'
<1>. DEFINE line == Line(IF halfLine THEN "torn" ELSE "request", id[c])
<1>1. /\ TypeOK /\ MutexesFit /\ IdsFit /\ RequestsFit /\ AnswersFit /\ LinesAreWhole
      /\ IsFiniteSet(Waiting) /\ NobodyStarves
      /\ pc[c] = "writing" /\ alive /\ halfLine' = FALSE
      /\ toServer' = Append(toServer, line) /\ stdin' = Released(stdin)
      /\ UNCHANGED <<nextId, id, got, stdout, toClient, pending, noise, alive,
                     answered, alone, intact>>
    BY DEF Inductive, FinishWrite
<1>2. /\ pc' \in [Callers -> {"idle", "numbered", "stdin", "writing", "written", "stdout"} \cup Ended]
      /\ pc'[c] = "written" /\ \A d \in Callers : d # c => pc'[d] = pc[d]
    BY <1>1, OneMoves DEF FinishWrite
<1>3. /\ stdin' \in Seq(Callers) /\ IsInjective(stdin') /\ ToSet(stdin') = ToSet(stdin) \ {c}
      /\ \A d \in Callers : pc[d] = "writing" => d = c
    BY <1>1, Freed DEF TypeOK, MutexesFit, Holds
<1>4. /\ id[c] \in 1..(nextId - 1) /\ id[c] \in Nat
      /\ id[c] \notin Requested \cup ToSet(pending) \cup answered
    BY <1>1 DEF TypeOK, IdsFit, RequestsFit
<1>5. /\ line \in Lines /\ line.id = id[c]
      /\ (line.kind = "request" /\ ~halfLine) \/ (line.kind = "torn" /\ halfLine)
    <2>1. CASE halfLine
        BY <1>4, <2>1 DEF Line, Lines
    <2>2. CASE ~halfLine
        BY <1>4, <2>2 DEF Line, Lines
    <2>3. QED BY <2>1, <2>2
<1>. HIDE DEF line
<1>6. /\ toServer' \in Seq(Lines) /\ Len(toServer') = Len(toServer) + 1 /\ Len(toServer) \in Nat
      /\ DOMAIN toServer = 1..Len(toServer) /\ DOMAIN toServer' = 1..(Len(toServer) + 1)
      /\ \A i \in 1..Len(toServer) : toServer'[i] = toServer[i]
      /\ toServer'[Len(toServer) + 1] = line
      /\ \A i \in DOMAIN toServer' : i \in DOMAIN toServer \/ i = Len(toServer) + 1
    BY <1>1, <1>5, Added DEF TypeOK
<1>7. TypeOK'
    BY <1>1, <1>2, <1>3, <1>6 DEF TypeOK
<1>8. MutexesFit'
    BY <1>1, <1>2, <1>3 DEF MutexesFit
<1>9. IdsFit' /\ AnswersFit'
    BY <1>1, <1>2, IdsStay, AnswersStay
<1>10. RequestsFit'
    <2>1. Requested' \subseteq Requested \cup {id[c]}
        <3>1. ASSUME NEW i \in DOMAIN toServer', toServer'[i].kind = "request"
              PROVE  toServer'[i].id \in Requested \cup {id[c]}
            BY <1>5, <1>6, <3>1 DEF Requested
        <3>2. QED BY <3>1 DEF Requested
    <2>2. \A i \in DOMAIN toServer : toServer[i].kind = "request" => toServer[i].id # id[c]
        BY <1>4 DEF Requested
    <2>3. \A i, j \in DOMAIN toServer' :
            toServer'[i].kind = "request" /\ toServer'[j] = toServer'[i] => i = j
        BY <1>1, <1>5, <1>6, <2>2 DEF RequestsFit
    <2>4. \A d \in Callers : Unsent(d)' => Unsent(d) /\ id[d] # id[c]
        BY <1>1, <1>2, <1>4 DEF IdsFit, Unsent
    <2>5. /\ Requested \subseteq 1..(nextId - 1) /\ IsInjective(pending)
          /\ ToSet(pending) \cap (Requested \cup answered) = {} /\ Requested \cap answered = {}
        BY <1>1 DEF RequestsFit
    <2>6. /\ Requested' \subseteq 1..(nextId - 1) /\ Requested' \cap answered = {}
          /\ ToSet(pending) \cap (Requested' \cup answered) = {}
        BY <1>4, <2>1, <2>5
    <2>7. ASSUME NEW d \in Callers, Unsent(d)'
          PROVE  id[d] \notin Requested' \cup ToSet(pending) \cup answered
        <3>1. id[d] \notin Requested \cup ToSet(pending) \cup answered /\ id[d] # id[c]
            BY <1>1, <2>4, <2>7 DEF RequestsFit, Unsent
        <3>2. QED BY <2>1, <3>1
    <2>8. QED BY <1>1, <2>3, <2>5, <2>6, <2>7 DEF RequestsFit, Unsent
<1>11. LinesAreWhole'
    <2>1. intact => ~halfLine
        BY <1>1 DEF LinesAreWhole
    <2>2. \A i \in DOMAIN toServer' :
            toServer'[i].kind = "request" \/ (toServer'[i].kind = "torn" /\ ~intact)
        <3>1. line.kind = "request" \/ (line.kind = "torn" /\ ~intact)
            BY <1>5, <2>1
        <3>2. \A i \in DOMAIN toServer :
                toServer[i].kind = "request" \/ (toServer[i].kind = "torn" /\ ~intact)
            BY <1>1 DEF LinesAreWhole
        <3>3. QED BY <1>6, <3>1, <3>2
    <2>3. QED BY <1>1, <2>2 DEF LinesAreWhole
<1>12. IsFiniteSet(Waiting') /\ NobodyStarves'
    <2>1. Waiting' = Waiting \cup {c} /\ c \notin Waiting
        BY <1>1, <1>2 DEF Waiting
    <2>2. IsFiniteSet(Waiting') /\ Cardinality(Waiting') = Cardinality(Waiting) + 1
        BY <1>1, <2>1, FS_AddElement
    <2>3. /\ Len(pending) \in Nat /\ Cardinality(Answers(toClient)) \in Nat /\ Cardinality(Waiting) \in Nat
        BY <1>1, Counted
    <2>4. QED BY <1>1, <1>6, <2>2, <2>3 DEF NobodyStarves
<1>13. QED BY <1>7, <1>8, <1>9, <1>10, <1>11, <1>12 DEF Inductive

LEMMA WriteFailsKeeps ==
    ASSUME Inductive, NEW c \in Callers, WriteFails(c)
    PROVE  Inductive'
<1>1. /\ TypeOK /\ MutexesFit /\ IdsFit /\ RequestsFit /\ AnswersFit /\ LinesAreWhole
      /\ IsFiniteSet(Waiting) /\ NobodyStarves
      /\ pc[c] = "writing" /\ stdin' = Released(stdin)
      /\ UNCHANGED <<nextId, id, got, stdout, toServer, toClient, halfLine, pending, noise, alive,
                     answered, alone, intact>>
    BY DEF Inductive, WriteFails
<1>2. /\ pc' \in [Callers -> {"idle", "numbered", "stdin", "writing", "written", "stdout"} \cup Ended]
      /\ pc'[c] = "failed" /\ \A d \in Callers : d # c => pc'[d] = pc[d]
    BY <1>1, OneMoves DEF WriteFails, Ended
<1>3. /\ stdin' \in Seq(Callers) /\ IsInjective(stdin') /\ ToSet(stdin') = ToSet(stdin) \ {c}
      /\ \A d \in Callers : pc[d] = "writing" => d = c
    BY <1>1, Freed DEF TypeOK, MutexesFit, Holds
<1>4. TypeOK'
    BY <1>1, <1>2, <1>3 DEF TypeOK
<1>5. MutexesFit'
    BY <1>1, <1>2, <1>3 DEF MutexesFit
<1>6. IdsFit' /\ RequestsFit' /\ AnswersFit' /\ LinesAreWhole'
    BY <1>1, <1>2, IdsStay, RequestsStay, AnswersStay, LinesStay DEF Unsent
<1>7. IsFiniteSet(Waiting') /\ NobodyStarves'
    <2>1. Waiting' \subseteq Waiting
        BY <1>1, <1>2 DEF Waiting
    <2>2. QED BY <1>1, <2>1, FewerWait
<1>8. QED BY <1>4, <1>5, <1>6, <1>7 DEF Inductive

LEMMA AwaitStdoutKeeps ==
    ASSUME Inductive, NEW c \in Callers, AwaitStdout(c)
    PROVE  Inductive'
<1>1. /\ TypeOK /\ MutexesFit /\ IdsFit /\ RequestsFit /\ AnswersFit /\ LinesAreWhole
      /\ IsFiniteSet(Waiting) /\ NobodyStarves
      /\ pc[c] = "written" /\ stdout' = Append(stdout, c)
      /\ UNCHANGED <<nextId, id, got, stdin, toServer, toClient, halfLine, pending, noise, alive,
                     answered, alone, intact>>
    BY DEF Inductive, AwaitStdout
<1>2. /\ pc' \in [Callers -> {"idle", "numbered", "stdin", "writing", "written", "stdout"} \cup Ended]
      /\ pc'[c] = "stdout" /\ \A d \in Callers : d # c => pc'[d] = pc[d]
    BY <1>1, OneMoves DEF AwaitStdout
<1>3. stdout' \in Seq(Callers) /\ IsInjective(stdout') /\ ToSet(stdout') = ToSet(stdout) \cup {c}
    <2>1. stdout \in Seq(Callers) /\ IsInjective(stdout) /\ c \notin ToSet(stdout)
        BY <1>1 DEF TypeOK, MutexesFit
    <2>2. QED BY <1>1, <2>1, Added
<1>4. TypeOK'
    BY <1>1, <1>2, <1>3 DEF TypeOK
<1>5. MutexesFit'
    BY <1>1, <1>2, <1>3 DEF MutexesFit, Holds
<1>6. IdsFit' /\ RequestsFit' /\ AnswersFit' /\ LinesAreWhole'
    BY <1>1, <1>2, IdsStay, RequestsStay, AnswersStay, LinesStay DEF Unsent
<1>7. IsFiniteSet(Waiting') /\ NobodyStarves'
    <2>1. Waiting' \subseteq Waiting
        BY <1>1, <1>2 DEF Waiting
    <2>2. QED BY <1>1, <2>1, FewerWait
<1>8. QED BY <1>4, <1>5, <1>6, <1>7 DEF Inductive

\* Who returns or fails has used up the line it ends with; a notification is nobody's.
LEMMA ReadLineKeeps ==
    ASSUME Inductive, NEW c \in Callers, ReadLine(c)
    PROVE  Inductive'
<1>. DEFINE line == Head(toClient)
            to == IF line.kind = "note" THEN "written"
                  ELSE IF line.kind = "torn" THEN "failed" ELSE "returned"
<1>1. /\ TypeOK /\ MutexesFit /\ IdsFit /\ RequestsFit /\ AnswersFit /\ LinesAreWhole
      /\ IsFiniteSet(Waiting) /\ NobodyStarves
      /\ pc[c] = "stdout" /\ Holds(c, stdout) /\ toClient # << >>
      /\ toClient' = Tail(toClient) /\ stdout' = Released(stdout)
      /\ UNCHANGED <<nextId, id, stdin, toServer, halfLine, pending, noise, alive,
                     answered, alone, intact>>
    BY DEF Inductive, ReadLine, Rest
<1>2. /\ pc' = [pc EXCEPT ![c] = to]
      /\ to # "returned" => got' = got
      /\ to = "returned" => got' = [got EXCEPT ![c] = line.id]
    BY DEF ReadLine, KeepsReading
<1>3. /\ toClient \in Seq(Lines) /\ toClient' \in Seq(Lines) /\ Len(toClient) \in Nat \ {0}
      /\ line = toClient[1] /\ line \in Lines
      /\ DOMAIN toClient = 1..Len(toClient) /\ DOMAIN toClient' = 1..(Len(toClient) - 1)
      /\ \A i \in DOMAIN toClient' :
            toClient'[i] = toClient[i + 1] /\ i + 1 \in DOMAIN toClient /\ i + 1 # 1
      /\ 1 \in DOMAIN toClient
    <2>1. toClient \in Seq(Lines)
        BY <1>1 DEF TypeOK
    <2>2. /\ Tail(toClient) \in Seq(Lines) /\ Len(toClient) \in Nat \ {0}
          /\ line = toClient[1] /\ line \in Lines
          /\ DOMAIN toClient = 1..Len(toClient) /\ DOMAIN Tail(toClient) = 1..(Len(toClient) - 1)
          /\ \A i \in 1..(Len(toClient) - 1) : Tail(toClient)[i] = toClient[i + 1]
        BY <1>1, <2>1, Popped
    <2>. HIDE DEF line
    <2>3. /\ \A i \in 1..(Len(toClient) - 1) : i + 1 \in 1..Len(toClient) /\ i + 1 # 1
          /\ 1 \in 1..Len(toClient)
        BY <2>2
    <2>4. QED BY <1>1, <2>1, <2>2, <2>3
<1>4. to = "returned" =>
        \/ line.kind = "answer" /\ line.id \in answered /\ \A d \in Callers : got[d] # line.id
        \/ line.kind = "ask" /\ line.id = 0
    <2>1. line.kind \in {"request", "answer", "note", "ask", "torn"}
        BY <1>3 DEF Lines
    <2>2. QED BY <1>1, <1>3, <2>1 DEF AnswersFit
<1>. HIDE DEF line
<1>5. to \in {"written", "failed", "returned"}
    OBVIOUS
<1>6. /\ pc' \in [Callers -> {"idle", "numbered", "stdin", "writing", "written", "stdout"} \cup Ended]
      /\ pc'[c] = to /\ \A d \in Callers : d # c => pc'[d] = pc[d]
    BY <1>1, <1>2, <1>5, OneMoves DEF Ended
<1>7. answered \subseteq 1..(nextId - 1) /\ nextId \in Nat \ {0} /\ 0 \notin answered /\ None \notin answered
      /\ None # 0
    <2>1. answered \subseteq 1..(nextId - 1) /\ nextId \in Nat \ {0}
        BY <1>1 DEF TypeOK
    <2>2. answered \subseteq Nat /\ 0 \notin answered
        BY <2>1
    <2>3. None \notin Nat /\ None # 0
        BY NoneAssumption
    <2>4. None \notin answered
        BY <2>2, <2>3
    <2>5. QED BY <2>1, <2>2, <2>3, <2>4
<1>8. /\ got' \in [Callers -> (0..(nextId - 1)) \cup {None}]
      /\ to # "returned" => got'[c] = got[c]
      /\ to = "returned" => got'[c] = line.id
      /\ \A d \in Callers : d # c => got'[d] = got[d]
      /\ got[c] = None
    <2>1. got \in [Callers -> (0..(nextId - 1)) \cup {None}] /\ 0 \in 0..(nextId - 1)
        BY <1>1, <1>7 DEF TypeOK
    <2>2. got[c] = None
        BY <1>1 DEF IdsFit
    <2>3. to = "returned" => line.id \in 0..(nextId - 1)
        <3>1. answered \subseteq 0..(nextId - 1)
            BY <1>7
        <3>2. QED BY <1>4, <2>1, <3>1
    <2>4. QED BY <1>2, <2>1, <2>2, <2>3
<1>. HIDE DEF to
<1>9. /\ stdout' \in Seq(Callers) /\ IsInjective(stdout') /\ ToSet(stdout') = ToSet(stdout) \ {c}
    BY <1>1, Freed DEF TypeOK
<1>10. TypeOK'
    BY <1>1, <1>3, <1>6, <1>8, <1>9 DEF TypeOK
<1>11. MutexesFit'
    BY <1>1, <1>5, <1>6, <1>9 DEF MutexesFit, Holds
<1>12. IdsFit'
    <2>1. \A d \in Callers : (id[d] = 0 <=> pc'[d] = "idle")
        BY <1>1, <1>5, <1>6 DEF IdsFit
    <2>2. \A d \in Callers : got'[d] # None <=> pc'[d] = "returned"
        <3>1. got'[c] # None <=> pc'[c] = "returned"
            BY <1>4, <1>6, <1>7, <1>8
        <3>2. QED BY <1>1, <1>6, <1>8, <3>1 DEF IdsFit
    <2>3. ASSUME alone # None, NEW i \in 1..(nextId - 2) PROVE \E d \in Callers : got'[d] = i
        <3>1. PICK d \in Callers : got[d] = i
            BY <1>1, <2>3 DEF IdsFit
        <3>2. i \in Nat
            BY <1>7
        <3>3. d # c
            BY <1>8, <3>1, <3>2, NoneAssumption
        <3>4. QED BY <1>8, <3>1, <3>3
    <2>4. QED BY <1>1, <2>1, <2>2, <2>3 DEF IdsFit
<1>13. RequestsFit' /\ LinesAreWhole'
    BY <1>1, <1>5, <1>6, RequestsStay, LinesStay DEF Unsent
<1>14. AnswersFit'
    <2>1. \A i, j \in DOMAIN toClient : toClient[i].kind = "answer" /\ toClient[j] = toClient[i] => i = j
        BY <1>1 DEF AnswersFit
    <2>2. \A i \in DOMAIN toClient : toClient[i] = Line(toClient[i].kind, toClient[i].id)
        <3>1. \A i \in DOMAIN toClient : toClient[i] \in Lines
            BY <1>3, ElementOfSeq
        <3>2. QED BY <3>1 DEF Lines, Line
    <2>3. \A i, j \in DOMAIN toClient' :
            toClient'[i].kind = "answer" /\ toClient'[j] = toClient'[i] => i = j
        <3>1. \A i, j \in DOMAIN toClient' : i + 1 = j + 1 => i = j
            BY <1>3
        <3>2. QED BY <1>3, <2>1, <3>1
    <2>4. ASSUME NEW i \in DOMAIN toClient', toClient'[i].kind = "answer", NEW d \in Callers
          PROVE  toClient'[i].id \in answered /\ got'[d] # toClient'[i].id
        <3>1. i + 1 \in DOMAIN toClient /\ i + 1 # 1 /\ toClient'[i] = toClient[i + 1]
              /\ toClient[i + 1].kind = "answer"
            BY <1>3, <2>4
        <3>2. toClient'[i].id \in answered /\ got[d] # toClient'[i].id
            BY <1>1, <3>1 DEF AnswersFit
        <3>3. ASSUME line.kind = "answer" PROVE line.id # toClient'[i].id
            BY <1>3, <2>1, <2>2, <3>1, <3>3
        <3>4. ASSUME d = c, to = "returned" PROVE got'[d] # toClient'[i].id
            BY <1>4, <1>7, <1>8, <3>2, <3>3, <3>4
        <3>5. QED BY <1>8, <3>2, <3>4
    <2>5. \A i \in DOMAIN toClient' :
            toClient'[i].kind # "request" /\ (toClient'[i].kind = "ask" => toClient'[i].id = 0)
        BY <1>1, <1>3 DEF AnswersFit
    <2>6. \A d \in Callers : got'[d] \in answered \cup {0, None}
        BY <1>1, <1>4, <1>8 DEF AnswersFit
    <2>7. QED BY <1>1, <2>3, <2>4, <2>5, <2>6 DEF AnswersFit
<1>15. IsFiniteSet(Waiting') /\ NobodyStarves'
    <2>1. /\ Len(toServer) \in Nat /\ Len(pending) \in Nat
          /\ IsFiniteSet(Answers(toClient)) /\ Cardinality(Answers(toClient)) \in Nat
          /\ Cardinality(Waiting) \in Nat
        BY <1>1, Counted
    <2>2. /\ IsFiniteSet(Answers(toClient'))
          /\ Cardinality(Answers(toClient))
                = Cardinality(Answers(toClient')) + (IF line.kind = "note" THEN 0 ELSE 1)
        BY <1>1, <1>3, <2>1, AnswersShrink DEF line
    <2>3. Cardinality(Answers(toClient')) \in Nat
        BY <2>2, FS_CardinalityType
    <2>4. CASE line.kind = "note"
        <3>1. to = "written"
            BY <2>4 DEF to
        <3>2. Waiting' = Waiting
            BY <1>1, <1>6, <3>1 DEF Waiting
        <3>3. QED BY <1>1, <2>1, <2>2, <2>3, <2>4, <3>2 DEF NobodyStarves
    <2>5. CASE line.kind # "note"
        <3>1. to \in {"failed", "returned"}
            BY <2>5 DEF to
        <3>2. Waiting' = Waiting \ {c} /\ c \in Waiting
            BY <1>1, <1>6, <3>1 DEF Waiting
        <3>3. IsFiniteSet(Waiting') /\ Cardinality(Waiting') = Cardinality(Waiting) - 1
            BY <1>1, <3>2, FS_RemoveElement
        <3>4. QED BY <1>1, <2>1, <2>2, <2>3, <2>5, <3>3 DEF NobodyStarves
    <2>6. QED BY <2>4, <2>5
<1>16. QED BY <1>10, <1>11, <1>12, <1>13, <1>14, <1>15 DEF Inductive

LEMMA ReadEofKeeps ==
    ASSUME Inductive, NEW c \in Callers, ReadEof(c)
    PROVE  Inductive'
<1>1. /\ TypeOK /\ MutexesFit /\ IdsFit /\ RequestsFit /\ AnswersFit /\ LinesAreWhole
      /\ IsFiniteSet(Waiting) /\ NobodyStarves
      /\ pc[c] = "stdout" /\ Holds(c, stdout) /\ stdout' = Released(stdout)
      /\ UNCHANGED <<nextId, id, got, stdin, toServer, toClient, halfLine, pending, noise, alive,
                     answered, alone, intact>>
    BY DEF Inductive, ReadEof
<1>2. /\ pc' \in [Callers -> {"idle", "numbered", "stdin", "writing", "written", "stdout"} \cup Ended]
      /\ pc'[c] = "failed" /\ \A d \in Callers : d # c => pc'[d] = pc[d]
    BY <1>1, OneMoves DEF ReadEof, Ended
<1>3. stdout' \in Seq(Callers) /\ IsInjective(stdout') /\ ToSet(stdout') = ToSet(stdout) \ {c}
    BY <1>1, Freed DEF TypeOK
<1>4. TypeOK'
    BY <1>1, <1>2, <1>3 DEF TypeOK
<1>5. MutexesFit'
    BY <1>1, <1>2, <1>3 DEF MutexesFit, Holds
<1>6. IdsFit' /\ RequestsFit' /\ AnswersFit' /\ LinesAreWhole'
    BY <1>1, <1>2, IdsStay, RequestsStay, AnswersStay, LinesStay DEF Unsent
<1>7. IsFiniteSet(Waiting') /\ NobodyStarves'
    <2>1. Waiting' \subseteq Waiting
        BY <1>2 DEF Waiting
    <2>2. QED BY <1>1, <2>1, FewerWait
<1>8. QED BY <1>4, <1>5, <1>6, <1>7 DEF Inductive

\* A dropped caller leaves the mutexes, and may leave a torn line.
LEMMA CancelKeeps ==
    ASSUME Inductive, NEW c \in Callers, Cancel(c)
    PROVE  Inductive'
<1>1. /\ TypeOK /\ MutexesFit /\ IdsFit /\ RequestsFit /\ AnswersFit /\ LinesAreWhole
      /\ IsFiniteSet(Waiting) /\ NobodyStarves
      /\ pc[c] \notin Ended \cup {"idle"}
      /\ stdin' = Without(stdin, c) /\ stdout' = Without(stdout, c)
      /\ UNCHANGED <<nextId, id, got, toServer, pending, noise, alive, answered, alone>>
    BY DEF Inductive, Cancel, InProgress
<1>2. /\ pc' \in [Callers -> {"idle", "numbered", "stdin", "writing", "written", "stdout"} \cup Ended]
      /\ pc'[c] = "cancelled" /\ \A d \in Callers : d # c => pc'[d] = pc[d]
    BY <1>1, OneMoves DEF Cancel, Ended
<1>3. \/ UNCHANGED <<halfLine, toClient, intact>>
      \/ halfLine' = TRUE /\ intact' = FALSE /\ toClient' = toClient
      \/ /\ toClient # << >> /\ intact' = FALSE /\ halfLine' = halfLine
         /\ toClient' = <<Line("torn", Head(toClient).id)>> \o Tail(toClient)
    BY DEF Cancel
<1>4. /\ stdin' \in Seq(Callers) /\ IsInjective(stdin') /\ ToSet(stdin') = ToSet(stdin) \ {c}
      /\ \A d : d # c /\ Holds(d, stdin) => Holds(d, stdin')
    BY <1>1, Dropped DEF TypeOK
<1>5. stdout' \in Seq(Callers) /\ IsInjective(stdout') /\ ToSet(stdout') = ToSet(stdout) \ {c}
    BY <1>1, Dropped DEF TypeOK
<1>6. /\ toClient' \in Seq(Lines) /\ DOMAIN toClient' = DOMAIN toClient
      /\ \A i \in DOMAIN toClient : toClient'[i] = toClient[i] \/ toClient'[i].kind = "torn"
    <2>1. toClient \in Seq(Lines)
        BY <1>1 DEF TypeOK
    <2>2. CASE toClient' = toClient
        BY <2>1, <2>2
    <2>3. CASE toClient # << >> /\ toClient' = <<Line("torn", Head(toClient).id)>> \o Tail(toClient)
        <3>. DEFINE first == Line("torn", Head(toClient).id)
        <3>1. /\ Tail(toClient) \in Seq(Lines) /\ Len(Tail(toClient)) = Len(toClient) - 1
              /\ Len(toClient) \in Nat \ {0} /\ Head(toClient) \in Lines
              /\ DOMAIN toClient = 1..Len(toClient)
              /\ \A i \in 1..(Len(toClient) - 1) : Tail(toClient)[i] = toClient[i + 1]
            BY <2>1, <2>3, Popped
        <3>2. first \in Lines /\ first.kind = "torn"
            BY <3>1 DEF Lines, Line
        <3>. HIDE DEF first
        <3>3. /\ <<first>> \in Seq(Lines) /\ Len(<<first>>) = 1 /\ <<first>>[1] = first
            BY <3>2
        <3>4. /\ <<first>> \o Tail(toClient) \in Seq(Lines)
              /\ Len(<<first>> \o Tail(toClient)) = Len(<<first>>) + Len(Tail(toClient))
              /\ \A i \in 1..(Len(<<first>>) + Len(Tail(toClient))) :
                    (<<first>> \o Tail(toClient))[i] =
                        IF i <= Len(<<first>>) THEN <<first>>[i] ELSE Tail(toClient)[i - Len(<<first>>)]
            BY <3>1, <3>3, ConcatProperties
        <3>5. toClient' = <<first>> \o Tail(toClient)
            BY <2>3 DEF first
        <3>6. /\ toClient' \in Seq(Lines) /\ Len(toClient') = Len(toClient)
              /\ \A i \in 1..Len(toClient) :
                    toClient'[i] = IF i <= 1 THEN <<first>>[i] ELSE Tail(toClient)[i - 1]
            BY <3>1, <3>3, <3>4, <3>5
        <3>7. \A i \in 1..Len(toClient) : ~(i <= 1) => Tail(toClient)[i - 1] = toClient[i]
            <4>1. \A i \in 1..Len(toClient) : ~(i <= 1) => i - 1 \in 1..(Len(toClient) - 1) /\ (i - 1) + 1 = i
                BY <3>1
            <4>2. QED BY <3>1, <4>1
        <3>8. \A i \in 1..Len(toClient) : i <= 1 => i = 1
            BY <3>1
        <3>9. DOMAIN toClient' = 1..Len(toClient)
            BY <3>6, LenProperties
        <3>10. QED BY <3>1, <3>2, <3>3, <3>6, <3>7, <3>8, <3>9
    <2>4. QED BY <1>3, <2>2, <2>3
<1>7. TypeOK'
    <2>1. halfLine' \in BOOLEAN /\ intact' \in BOOLEAN
        BY <1>1, <1>3 DEF TypeOK
    <2>2. QED BY <1>1, <1>2, <1>4, <1>5, <1>6, <2>1 DEF TypeOK
<1>8. MutexesFit'
    BY <1>1, <1>2, <1>4, <1>5 DEF MutexesFit
<1>9. IdsFit' /\ RequestsFit'
    BY <1>1, <1>2, IdsStay, RequestsStay DEF Unsent, Ended
<1>10. AnswersFit'
    <2>1. \A i, j \in DOMAIN toClient' :
            toClient'[i].kind = "answer" /\ toClient'[j] = toClient'[i] => i = j
        BY <1>1, <1>6 DEF AnswersFit
    <2>2. ASSUME NEW i \in DOMAIN toClient'
          PROVE  /\ toClient'[i].kind # "request"
                 /\ toClient'[i].kind = "answer" =>
                        toClient'[i].id \in answered /\ \A d \in Callers : got[d] # toClient'[i].id
                 /\ toClient'[i].kind = "ask" => toClient'[i].id = 0
        <3>1. CASE toClient'[i] = toClient[i]
            BY <1>1, <1>6, <3>1 DEF AnswersFit
        <3>2. CASE toClient'[i].kind = "torn"
            BY <3>2
        <3>3. QED BY <1>6, <3>1, <3>2
    <2>3. \A d \in Callers : got[d] \in answered \cup {0, None}
        BY <1>1 DEF AnswersFit
    <2>4. QED BY <1>1, <2>1, <2>2, <2>3 DEF AnswersFit
<1>11. LinesAreWhole'
    BY <1>1, <1>3 DEF LinesAreWhole, TypeOK
<1>12. IsFiniteSet(Waiting') /\ NobodyStarves'
    <2>1. Waiting' \subseteq Waiting
        BY <1>2 DEF Waiting
    <2>2. alive' /\ intact' => alive /\ intact /\ toClient' = toClient
        BY <1>1, <1>3
    <2>3. QED BY <1>1, <2>1, <2>2, FewerWait
<1>13. QED BY <1>7, <1>8, <1>9, <1>10, <1>11, <1>12 DEF Inductive

-----------------------------------------------------------------------------
(* The steps of the server *)

\* A request that is read is no longer on its way; an unreadable line is lost.
LEMMA ServerReadsKeeps ==
    ASSUME Inductive, ServerReads
    PROVE  Inductive'
<1>. DEFINE line == Head(toServer)
<1>1. /\ TypeOK /\ MutexesFit /\ IdsFit /\ RequestsFit /\ AnswersFit /\ LinesAreWhole
      /\ IsFiniteSet(Waiting) /\ NobodyStarves
      /\ alive /\ toServer # << >> /\ toServer' = Tail(toServer)
      /\ pending' = IF line.kind = "torn" THEN pending ELSE Append(pending, line.id)
      /\ UNCHANGED <<nextId, pc, id, got, stdin, stdout, toClient, halfLine, noise, alive,
                     answered, alone, intact>>
    BY DEF Inductive, ServerReads
<1>2. /\ toServer' \in Seq(Lines) /\ Len(toServer) \in Nat \ {0} /\ Len(toServer') = Len(toServer) - 1
      /\ line = toServer[1] /\ 1 \in DOMAIN toServer
      /\ \A i \in DOMAIN toServer' :
            toServer'[i] = toServer[i + 1] /\ i + 1 \in DOMAIN toServer /\ i + 1 # 1
      /\ \A i, j \in DOMAIN toServer' : i + 1 = j + 1 => i = j
    <2>1. /\ Tail(toServer) \in Seq(Lines) /\ Len(Tail(toServer)) = Len(toServer) - 1
          /\ Len(toServer) \in Nat \ {0} /\ line = toServer[1]
          /\ DOMAIN toServer = 1..Len(toServer) /\ DOMAIN Tail(toServer) = 1..(Len(toServer) - 1)
          /\ \A i \in 1..(Len(toServer) - 1) : Tail(toServer)[i] = toServer[i + 1]
        BY <1>1, Popped DEF TypeOK
    <2>. HIDE DEF line
    <2>2. /\ \A i \in 1..(Len(toServer) - 1) : i + 1 \in 1..Len(toServer) /\ i + 1 # 1
          /\ 1 \in 1..Len(toServer)
          /\ \A i, j \in 1..(Len(toServer) - 1) : i + 1 = j + 1 => i = j
        BY <2>1
    <2>3. QED BY <1>1, <2>1, <2>2
<1>. HIDE DEF line
<1>3. line.kind = "request" \/ (line.kind = "torn" /\ ~intact)
    BY <1>1, <1>2 DEF LinesAreWhole
<1>4. /\ Requested' \subseteq Requested
      /\ line.kind = "request" => line.id \in Requested /\ line.id \notin Requested'
    <2>1. Requested' \subseteq Requested
        BY <1>2 DEF Requested
    <2>2. line.kind = "request" => line.id \in Requested
        BY <1>2 DEF Requested
    <2>3. ASSUME line.kind = "request", line.id \in Requested' PROVE FALSE
        <3>1. PICK i \in DOMAIN toServer' : toServer'[i].kind = "request" /\ toServer'[i].id = line.id
            BY <2>3 DEF Requested
        <3>2. i + 1 \in DOMAIN toServer /\ toServer[i + 1].kind = "request" /\ toServer[i + 1].id = line.id
            BY <1>2, <3>1
        <3>3. \A k \in DOMAIN toServer : toServer[k] \in Lines
            BY <1>1, ElementOfSeq, LenProperties DEF TypeOK
        <3>4. toServer[i + 1] = line
            <4>1. \A k \in DOMAIN toServer : toServer[k] = Line(toServer[k].kind, toServer[k].id)
                BY <3>3 DEF Lines, Line
            <4>2. QED BY <1>2, <2>3, <3>2, <4>1
        <3>5. i + 1 = 1
            BY <1>1, <1>2, <2>3, <3>2, <3>4 DEF RequestsFit
        <3>6. QED BY <1>2, <3>1, <3>5
    <2>4. QED BY <2>1, <2>2, <2>3
<1>5. /\ Requested \subseteq 1..(nextId - 1) /\ IsInjective(pending) /\ pending \in Seq(1..(nextId - 1))
      /\ ToSet(pending) \cap (Requested \cup answered) = {} /\ Requested \cap answered = {}
    BY <1>1 DEF RequestsFit, TypeOK
<1>6. /\ pending' \in Seq(1..(nextId - 1)) /\ IsInjective(pending')
      /\ ToSet(pending') = ToSet(pending) \cup (IF line.kind = "request" THEN {line.id} ELSE {})
      /\ line.kind = "request" => Len(pending') = Len(pending) + 1
    <2>1. CASE line.kind = "request"
        <3>1. line.id \in 1..(nextId - 1) /\ line.id \notin ToSet(pending)
            BY <1>4, <1>5, <2>1
        <3>2. pending' = Append(pending, line.id)
            BY <1>1, <2>1
        <3>. DEFINE S == 1..(nextId - 1)
        <3>. HIDE DEF S
        <3>3. pending \in Seq(S) /\ line.id \in S
            BY <1>5, <3>1 DEF S
        <3>4. /\ Append(pending, line.id) \in Seq(S)
              /\ IsInjective(Append(pending, line.id))
              /\ ToSet(Append(pending, line.id)) = ToSet(pending) \cup {line.id}
              /\ Len(Append(pending, line.id)) = Len(pending) + 1
            BY <1>5, <3>1, <3>3, Added
        <3>5. QED BY <2>1, <3>2, <3>4 DEF S
    <2>2. CASE line.kind # "request"
        BY <1>1, <1>3, <1>5, <2>2
    <2>3. QED BY <2>1, <2>2
<1>7. TypeOK'
    BY <1>1, <1>2, <1>6 DEF TypeOK
<1>8. MutexesFit' /\ IdsFit' /\ AnswersFit'
    BY <1>1, IdsStay, AnswersStay DEF MutexesFit, Holds
<1>9. RequestsFit'
    <2>1. \A i, j \in DOMAIN toServer' :
            toServer'[i].kind = "request" /\ toServer'[j] = toServer'[i] => i = j
        <3>1. \A i, j \in DOMAIN toServer' :
                toServer'[i].kind = "request" /\ toServer'[j] = toServer'[i] => i + 1 = j + 1
            BY <1>1, <1>2 DEF RequestsFit
        <3>2. QED BY <1>2, <3>1
    <2>2. /\ Requested' \subseteq 1..(nextId - 1) /\ Requested' \cap answered = {}
          /\ ToSet(pending') \cap (Requested' \cup answered) = {}
        BY <1>4, <1>5, <1>6
    <2>3. ASSUME NEW d \in Callers, Unsent(d)
          PROVE  id[d] \notin Requested' \cup ToSet(pending') \cup answered
        <3>1. id[d] \notin Requested \cup ToSet(pending) \cup answered
            BY <1>1, <2>3 DEF RequestsFit, Unsent
        <3>2. QED BY <1>4, <1>6, <3>1
    <2>4. QED BY <1>1, <1>6, <2>1, <2>2, <2>3 DEF RequestsFit, Unsent
<1>10. LinesAreWhole'
    BY <1>1, <1>2 DEF LinesAreWhole
<1>11. IsFiniteSet(Waiting') /\ NobodyStarves'
    <2>1. Waiting' = Waiting
        BY <1>1 DEF Waiting
    <2>2. Len(pending) \in Nat /\ Cardinality(Answers(toClient)) \in Nat /\ Cardinality(Waiting) \in Nat
        BY <1>1, Counted
    <2>3. QED BY <1>1, <1>2, <1>3, <1>6, <2>1, <2>2 DEF NobodyStarves
<1>12. QED BY <1>7, <1>8, <1>9, <1>10, <1>11 DEF Inductive

\* A line that the server writes is behind the others.
LEMMA Written ==
    ASSUME TypeOK, NEW l \in Lines, toClient' = Append(toClient, l)
    PROVE  /\ toClient' \in Seq(Lines)
           /\ \A i \in DOMAIN toClient : i \in DOMAIN toClient' /\ toClient'[i] = toClient[i]
           /\ \A i \in DOMAIN toClient' \ DOMAIN toClient : toClient'[i] = l
           /\ \A i, j \in DOMAIN toClient' \ DOMAIN toClient : i = j
<1>1. /\ toClient' \in Seq(Lines) /\ Len(toClient) \in Nat
      /\ DOMAIN toClient = 1..Len(toClient) /\ DOMAIN toClient' = 1..(Len(toClient) + 1)
      /\ \A i \in 1..Len(toClient) : toClient'[i] = toClient[i]
      /\ toClient'[Len(toClient) + 1] = l
    BY Added DEF TypeOK
<1>2. \A i \in (1..(Len(toClient) + 1)) \ (1..Len(toClient)) : i = Len(toClient) + 1
    BY <1>1
<1>3. 1..Len(toClient) \subseteq 1..(Len(toClient) + 1)
    BY <1>1
<1>4. QED BY <1>1, <1>2, <1>3

LEMMA ServerAnswersKeeps ==
    ASSUME Inductive, ServerAnswers
    PROVE  Inductive'
<1>1. PICK k \in DOMAIN pending :
        /\ toClient' = Append(toClient, Line("answer", pending[k]))
        /\ pending' = RemoveAt(pending, k)
        /\ answered' = answered \cup {pending[k]}
    BY DEF ServerAnswers
<1>. DEFINE i0 == pending[k]
<1>2. /\ TypeOK /\ MutexesFit /\ IdsFit /\ RequestsFit /\ AnswersFit /\ LinesAreWhole
      /\ IsFiniteSet(Waiting) /\ NobodyStarves
      /\ UNCHANGED <<nextId, pc, id, got, stdin, stdout, toServer, halfLine, noise, alive,
                     alone, intact>>
    BY DEF Inductive, ServerAnswers
<1>3. /\ Requested \subseteq 1..(nextId - 1) /\ IsInjective(pending) /\ pending \in Seq(1..(nextId - 1))
      /\ ToSet(pending) \cap (Requested \cup answered) = {} /\ Requested \cap answered = {}
      /\ nextId \in Nat \ {0}
    BY <1>2 DEF RequestsFit, TypeOK
<1>4. /\ DOMAIN pending = 1..Len(pending) /\ Len(pending) \in Nat /\ i0 \in 1..(nextId - 1)
      /\ i0 \in ToSet(pending)
    BY <1>3, ElementOfSeq, LenProperties DEF ToSet
<1>5. /\ pending' \in Seq(1..(nextId - 1)) /\ IsInjective(pending')
      /\ ToSet(pending') = ToSet(pending) \ {i0}
    BY <1>1, <1>3, <1>4, OneLess
<1>6. Len(pending') = Len(pending) - 1
    BY <1>1, <1>3, <1>4, Removed
<1>. DEFINE line == Line("answer", i0)
<1>7. line \in Lines /\ line.kind = "answer" /\ line.id = i0 /\ i0 # 0
    BY <1>3, <1>4 DEF Line, Lines
<1>8. toClient' = Append(toClient, line) /\ answered' = answered \cup {i0}
    BY <1>1
<1>. HIDE DEF line, i0
<1>9. /\ toClient' \in Seq(Lines)
      /\ \A i \in DOMAIN toClient : i \in DOMAIN toClient' /\ toClient'[i] = toClient[i]
      /\ \A i \in DOMAIN toClient' \ DOMAIN toClient : toClient'[i] = line
      /\ \A i, j \in DOMAIN toClient' \ DOMAIN toClient : i = j
    BY <1>2, <1>7, <1>8, Written
<1>10. TypeOK'
    BY <1>2, <1>3, <1>4, <1>5, <1>8, <1>9 DEF TypeOK
<1>11. MutexesFit' /\ IdsFit' /\ LinesAreWhole'
    BY <1>2, IdsStay, LinesStay DEF MutexesFit, Holds
<1>12. RequestsFit'
    <2>1. Requested' = Requested
        BY <1>2 DEF Requested
    <2>2. /\ Requested \cap answered' = {} /\ ToSet(pending') \cap (Requested \cup answered') = {}
        BY <1>3, <1>4, <1>5, <1>8
    <2>3. ASSUME NEW d \in Callers, Unsent(d)
          PROVE  id[d] \notin Requested \cup ToSet(pending') \cup answered'
        <3>1. id[d] \notin Requested \cup ToSet(pending) \cup answered
            BY <1>2, <2>3 DEF RequestsFit, Unsent
        <3>2. QED BY <1>4, <1>5, <1>8, <3>1
    <2>4. QED BY <1>2, <1>5, <2>1, <2>2, <2>3 DEF RequestsFit, Unsent
<1>13. AnswersFit'
    <2>1. i0 \notin answered
        BY <1>3, <1>4
    <2>2. \A d \in Callers : got[d] \in answered \cup {0, None}
        BY <1>2 DEF AnswersFit
    <2>3. \A d \in Callers : got[d] # i0
        <3>1. i0 \in Nat
            BY <1>3, <1>4
        <3>2. QED BY <1>7, <2>1, <2>2, <3>1, NoneAssumption
    <2>4. \A i \in DOMAIN toClient : toClient[i].kind = "answer" => toClient[i] # line
        BY <1>2, <1>7, <2>1 DEF AnswersFit
    <2>5. ASSUME NEW i \in DOMAIN toClient', NEW j \in DOMAIN toClient',
                 toClient'[i].kind = "answer", toClient'[j] = toClient'[i]
          PROVE  i = j
        <3>1. CASE i \in DOMAIN toClient /\ j \in DOMAIN toClient
            BY <1>2, <1>9, <2>5, <3>1 DEF AnswersFit
        <3>2. CASE i \notin DOMAIN toClient /\ j \notin DOMAIN toClient
            BY <1>9, <3>2
        <3>3. CASE i \in DOMAIN toClient /\ j \notin DOMAIN toClient
            BY <1>9, <2>4, <2>5, <3>3
        <3>4. CASE i \notin DOMAIN toClient /\ j \in DOMAIN toClient
            BY <1>9, <2>4, <2>5, <3>4
        <3>5. QED BY <3>1, <3>2, <3>3, <3>4
    <2>6. ASSUME NEW i \in DOMAIN toClient'
          PROVE  /\ toClient'[i].kind # "request"
                 /\ toClient'[i].kind = "answer" =>
                        toClient'[i].id \in answered' /\ \A d \in Callers : got[d] # toClient'[i].id
                 /\ toClient'[i].kind = "ask" => toClient'[i].id = 0
        <3>1. CASE i \in DOMAIN toClient
            BY <1>2, <1>8, <1>9, <3>1 DEF AnswersFit
        <3>2. CASE i \notin DOMAIN toClient
            <4>1. toClient'[i] = line
                BY <1>9, <3>2
            <4>2. QED BY <1>7, <1>8, <2>3, <4>1
        <3>3. QED BY <3>1, <3>2
    <2>7. QED BY <1>2, <1>8, <2>2, <2>5, <2>6 DEF AnswersFit
<1>14. IsFiniteSet(Waiting') /\ NobodyStarves'
    <2>1. Waiting' = Waiting
        BY <1>2 DEF Waiting
    <2>2. /\ Len(toServer) \in Nat /\ IsFiniteSet(Answers(toClient))
          /\ Cardinality(Answers(toClient)) \in Nat /\ Cardinality(Waiting) \in Nat
        BY <1>2, Counted
    <2>3. Cardinality(Answers(toClient')) = Cardinality(Answers(toClient)) + 1
        <3>1. toClient \in Seq(Lines) /\ line.kind # "note"
            BY <1>2, <1>7 DEF TypeOK
        <3>2. QED BY <1>7, <1>8, <2>2, <3>1, AnswersGrow
    <2>4. QED BY <1>2, <1>4, <1>6, <2>1, <2>2, <2>3 DEF NobodyStarves
<1>15. QED BY <1>10, <1>11, <1>12, <1>13, <1>14 DEF Inductive

LEMMA ServerTalksKeeps ==
    ASSUME Inductive, ServerTalks
    PROVE  Inductive'
<1>1. PICK kind \in Noise : toClient' = Append(toClient, Line(kind, 0))
    BY DEF ServerTalks
<1>. DEFINE line == Line(kind, 0)
<1>2. /\ TypeOK /\ MutexesFit /\ IdsFit /\ RequestsFit /\ AnswersFit /\ LinesAreWhole
      /\ IsFiniteSet(Waiting) /\ NobodyStarves
      /\ noise < MaxNoise /\ noise' = noise + 1
      /\ UNCHANGED <<nextId, pc, id, got, stdin, stdout, toServer, halfLine, pending, alive,
                     answered, alone, intact>>
    BY DEF Inductive, ServerTalks
<1>3. line \in Lines /\ line.kind \in {"note", "ask", "torn"} /\ line.id = 0
    BY NoiseAssumption DEF Line, Lines
<1>4. toClient' = Append(toClient, line)
    BY <1>1
<1>. HIDE DEF line
<1>5. /\ toClient' \in Seq(Lines)
      /\ \A i \in DOMAIN toClient : i \in DOMAIN toClient' /\ toClient'[i] = toClient[i]
      /\ \A i \in DOMAIN toClient' \ DOMAIN toClient : toClient'[i] = line
    BY <1>2, <1>3, <1>4, Written
<1>6. TypeOK'
    <2>1. noise' \in 0..MaxNoise
        BY <1>2, NoiseAssumption DEF TypeOK
    <2>2. QED BY <1>2, <1>5, <2>1 DEF TypeOK
<1>7. MutexesFit' /\ IdsFit' /\ RequestsFit' /\ LinesAreWhole'
    BY <1>2, IdsStay, RequestsStay, LinesStay DEF MutexesFit, Holds, Unsent
<1>8. AnswersFit'
    <2>1. ASSUME NEW i \in DOMAIN toClient', NEW j \in DOMAIN toClient',
                 toClient'[i].kind = "answer", toClient'[j] = toClient'[i]
          PROVE  i = j
        <3>1. i \in DOMAIN toClient /\ j \in DOMAIN toClient
            BY <1>3, <1>5, <2>1
        <3>2. QED BY <1>2, <1>5, <2>1, <3>1 DEF AnswersFit
    <2>2. ASSUME NEW i \in DOMAIN toClient'
          PROVE  /\ toClient'[i].kind # "request"
                 /\ toClient'[i].kind = "answer" =>
                        toClient'[i].id \in answered /\ \A d \in Callers : got[d] # toClient'[i].id
                 /\ toClient'[i].kind = "ask" => toClient'[i].id = 0
        <3>1. CASE i \in DOMAIN toClient
            BY <1>2, <1>5, <3>1 DEF AnswersFit
        <3>2. CASE i \notin DOMAIN toClient
            <4>1. toClient'[i] = line
                BY <1>5, <3>2
            <4>2. QED BY <1>3, <4>1
        <3>3. QED BY <3>1, <3>2
    <2>3. \A d \in Callers : got[d] \in answered \cup {0, None}
        BY <1>2 DEF AnswersFit
    <2>4. QED BY <1>2, <2>1, <2>2, <2>3 DEF AnswersFit
<1>9. IsFiniteSet(Waiting') /\ NobodyStarves'
    <2>1. Waiting' = Waiting
        BY <1>2 DEF Waiting
    <2>2. /\ Len(toServer) \in Nat /\ Len(pending) \in Nat /\ IsFiniteSet(Answers(toClient))
          /\ Cardinality(Answers(toClient)) \in Nat /\ Cardinality(Waiting) \in Nat
        BY <1>2, Counted
    <2>3. Cardinality(Answers(toClient')) \in
            {Cardinality(Answers(toClient)), Cardinality(Answers(toClient)) + 1}
        <3>1. toClient \in Seq(Lines)
            BY <1>2 DEF TypeOK
        <3>2. Cardinality(Answers(toClient'))
                = Cardinality(Answers(toClient)) + (IF line.kind = "note" THEN 0 ELSE 1)
            BY <1>3, <1>4, <2>2, <3>1, AnswersGrow
        <3>3. QED BY <2>2, <3>2
    <2>4. QED BY <1>2, <2>1, <2>2, <2>3 DEF NobodyStarves
<1>10. QED BY <1>6, <1>7, <1>8, <1>9 DEF Inductive

LEMMA ServerExitsKeeps ==
    ASSUME Inductive, ServerExits
    PROVE  Inductive'
<1>1. /\ TypeOK /\ MutexesFit /\ IdsFit /\ RequestsFit /\ AnswersFit /\ LinesAreWhole
      /\ IsFiniteSet(Waiting) /\ NobodyStarves /\ alive' = FALSE
      /\ UNCHANGED <<nextId, pc, id, got, stdin, stdout, toServer, toClient, halfLine, pending, noise,
                     answered, alone, intact>>
    BY DEF Inductive, ServerExits
<1>2. TypeOK'
    BY <1>1 DEF TypeOK
<1>3. MutexesFit' /\ IdsFit' /\ RequestsFit' /\ AnswersFit' /\ LinesAreWhole'
    BY <1>1, IdsStay, RequestsStay, AnswersStay, LinesStay DEF MutexesFit, Holds, Unsent
<1>4. IsFiniteSet(Waiting') /\ NobodyStarves'
    <2>1. Waiting' \subseteq Waiting
        BY <1>1 DEF Waiting
    <2>2. QED BY <1>1, <2>1, FewerWait
<1>5. QED BY <1>2, <1>3, <1>4 DEF Inductive

-----------------------------------------------------------------------------
(* Theorems *)

LEMMA InitFits == Init => Inductive
<1>. SUFFICES ASSUME Init PROVE Inductive
    OBVIOUS
<1>1. /\ nextId = 1 /\ nextId - 1 = 0 /\ 1..(nextId - 1) = {} /\ 1..(nextId - 2) = {} /\ 0 \in 0..(nextId - 1)
      /\ None # 0
    BY NoneAssumption DEF Init
<1>2. /\ << >> \in Seq(Callers) /\ << >> \in Seq(Lines) /\ << >> \in Seq(1..(nextId - 1))
      /\ DOMAIN << >> = {} /\ Len(<< >>) = 0 /\ IsInjective(<< >>) /\ ToSet(<< >>) = {}
    BY DEF IsInjective, ToSet
<1>3. TypeOK
    <2>1. nextId \in Nat \ {0} /\ noise \in 0..MaxNoise
        BY <1>1, NoiseAssumption DEF Init
    <2>2. /\ pc \in [Callers -> {"idle", "numbered", "stdin", "writing", "written", "stdout"} \cup Ended]
          /\ id \in [Callers -> 0..(nextId - 1)]
          /\ got \in [Callers -> (0..(nextId - 1)) \cup {None}]
        BY <1>1 DEF Init
    <2>3. /\ stdin \in Seq(Callers) /\ IsInjective(stdin)
          /\ stdout \in Seq(Callers) /\ IsInjective(stdout)
          /\ toServer \in Seq(Lines) /\ toClient \in Seq(Lines)
          /\ pending \in Seq(1..(nextId - 1))
        BY <1>2 DEF Init
    <2>4. /\ halfLine \in BOOLEAN /\ alive \in BOOLEAN /\ intact \in BOOLEAN
          /\ answered \subseteq 1..(nextId - 1) /\ alone \in Callers \cup {None}
        BY DEF Init
    <2>5. QED BY <2>1, <2>2, <2>3, <2>4 DEF TypeOK
<1>4. MutexesFit
    BY <1>2 DEF Init, MutexesFit
<1>5. IdsFit
    BY <1>1 DEF Init, IdsFit
<1>6. Requested = {}
    BY <1>2 DEF Init, Requested
<1>7. RequestsFit
    BY <1>1, <1>2, <1>6 DEF Init, RequestsFit
<1>8. AnswersFit
    BY <1>1, <1>2 DEF Init, AnswersFit
<1>9. LinesAreWhole
    BY <1>2 DEF Init, LinesAreWhole
<1>10. Waiting = {} /\ Answers(toClient) = {}
    BY <1>2 DEF Init, Waiting, Answers
<1>11. IsFiniteSet(Waiting) /\ NobodyStarves
    <2>1. IsFiniteSet({}) /\ Cardinality({}) = 0
        BY FS_EmptySet
    <2>2. toServer = << >> /\ pending = << >>
        BY DEF Init
    <2>3. QED BY <1>2, <1>10, <2>1, <2>2 DEF NobodyStarves
<1>12. QED BY <1>3, <1>4, <1>5, <1>7, <1>8, <1>9, <1>11 DEF Inductive

LEMMA StepKeeps == Inductive /\ [Next]_vars => Inductive'
<1>. SUFFICES ASSUME Inductive, [Next]_vars PROVE Inductive'
    OBVIOUS
<1>1. ASSUME NEW c \in Callers, Begin(c) PROVE Inductive'
    BY <1>1, BeginKeeps
<1>2. ASSUME NEW c \in Callers, Step(c) PROVE Inductive'
    BY <1>2, AwaitStdinKeeps, StartWriteKeeps, FinishWriteKeeps, WriteFailsKeeps, AwaitStdoutKeeps,
       ReadLineKeeps, ReadEofKeeps DEF Step
<1>3. ASSUME NEW c \in Callers, Cancel(c) PROVE Inductive'
    BY <1>3, CancelKeeps
<1>4. CASE ServerReads
    BY <1>4, ServerReadsKeeps
<1>5. CASE ServerAnswers
    BY <1>5, ServerAnswersKeeps
<1>6. CASE ServerTalks
    BY <1>6, ServerTalksKeeps
<1>7. CASE ServerExits
    BY <1>7, ServerExitsKeeps
<1>8. CASE UNCHANGED vars
    <2>1. Requested' = Requested /\ Waiting' = Waiting
        BY <1>8 DEF Requested, Waiting, vars
    <2>2. TypeOK' /\ MutexesFit' /\ IdsFit' /\ AnswersFit' /\ LinesAreWhole' /\ NobodyStarves'
        BY <1>8, <2>1 DEF Inductive, vars, TypeOK, MutexesFit, Holds, IdsFit, AnswersFit, LinesAreWhole,
            NobodyStarves
    <2>3. RequestsFit'
        BY <1>8, <2>1 DEF Inductive, vars, RequestsFit
    <2>4. QED BY <2>1, <2>2, <2>3 DEF Inductive
<1>9. QED BY <1>1, <1>2, <1>3, <1>4, <1>5, <1>6, <1>7, <1>8 DEF Next, Finished

\* The inductive invariant: who queues for which mutex, where each request and each
\* answer is, and how many lines there are for those who wait (mcp_client.rs:202-255).
THEOREM InductiveHolds == Spec => []Inductive
<1>1. QED BY InitFits, StepKeeps, PTL DEF Spec

\* Every variable keeps its type, and no caller queues twice for a mutex.
THEOREM TypeCorrect == Spec => []TypeOK
<1>1. Inductive => TypeOK
    BY DEF Inductive
<1>2. QED BY <1>1, InductiveHolds, PTL

\* For any number of callers, any noise and any faults: while the server lives and no
\* line was torn, there is a line on its way for every caller that waits for one
\* (mcp_client.rs:223-254).
THEOREM NobodyStarvesHolds == Spec => []NobodyStarves
<1>1. Inductive => NobodyStarves
    BY DEF Inductive
<1>2. QED BY <1>1, InductiveHolds, PTL

-----------------------------------------------------------------------------
(* The client implements the contract *)

\* Each id that was given has one caller.
LEMMA IdsHaveCallers ==
    ASSUME TypeOK, IdsFit
    PROVE  /\ \A i \in 1..(nextId - 1) : CallerOf(i) \in Callers /\ id[CallerOf(i)] = i
           /\ \A i \in 1..(nextId - 1), c \in Callers : CallerOf(i) = c <=> id[c] = i
<1>1. ASSUME NEW i \in 1..(nextId - 1) PROVE CallerOf(i) \in Callers /\ id[CallerOf(i)] = i
    BY DEF IdsFit, CallerOf
<1>2. ASSUME NEW i \in 1..(nextId - 1), NEW c \in Callers PROVE CallerOf(i) = c <=> id[c] = i
    <2>1. i # 0
        BY DEF TypeOK
    <2>2. CallerOf(i) \in Callers /\ id[CallerOf(i)] = i
        BY <1>1
    <2>3. QED BY <2>1, <2>2 DEF IdsFit
<1>3. QED BY <1>1, <1>2

\* The names in the contract stay the same while ids stay.
LEMMA SameCallers ==
    ASSUME id' = id
    PROVE  \A i : CallerOf(i)' = CallerOf(i)
BY DEF CallerOf

LEMMA NamesDiffer ==
    ASSUME TypeOK, IdsFit, AnswersFit, NEW c \in Callers
    PROVE  /\ Outcome[c] \in Callers <=> pc[c] = "returned" /\ got[c] # 0
           /\ pc[c] = "returned" /\ got[c] # 0 =>
                got[c] \in 1..(nextId - 1) /\ got[c] \in answered /\ Outcome[c] = CallerOf(got[c])
           /\ Outcome[c] = None <=> pc[c] \notin Ended
           /\ ~(pc[c] = "returned" /\ got[c] # 0) /\ pc[c] \in Ended => Outcome[c] = "error"
<1>1. answered \subseteq 1..(nextId - 1)
    BY DEF TypeOK
<1>2. pc[c] = "returned" /\ got[c] # 0 => got[c] \in answered
    BY DEF IdsFit, AnswersFit
<1>3. None \notin Callers /\ "error" \notin Callers
    BY NoneAssumption
<1>4. ASSUME pc[c] = "returned", got[c] # 0 PROVE CallerOf(got[c]) \in Callers
    BY <1>1, <1>2, <1>4, IdsHaveCallers
<1>5. /\ pc[c] = "returned" /\ got[c] # 0 => Outcome[c] = CallerOf(got[c])
      /\ ~(pc[c] = "returned" /\ got[c] # 0) /\ pc[c] \in Ended => Outcome[c] = "error"
      /\ ~(pc[c] = "returned" /\ got[c] # 0) /\ pc[c] \notin Ended => Outcome[c] = None
    BY DEF Outcome
<1>6. "returned" \in Ended
    BY DEF Ended
<1>7. None # "error"
    BY NoneAssumption
<1>8. QED BY <1>1, <1>2, <1>3, <1>4, <1>5, <1>6, <1>7

LEMMA OutcomesStay ==
    ASSUME id' = id, got' = got,
           \A c \in Callers : (pc'[c] = "returned" <=> pc[c] = "returned") /\ (pc'[c] \in Ended <=> pc[c] \in Ended)
    PROVE  Outcome' = Outcome
<1>1. \A i : CallerOf(i)' = CallerOf(i)
    BY SameCallers
<1>2. QED BY <1>1 DEF Outcome

LEMMA Stutters ==
    ASSUME UNCHANGED <<id, got, answered, alone>>,
           \A c \in Callers : /\ pc'[c] = "returned" <=> pc[c] = "returned"
                              /\ pc'[c] \in Ended <=> pc[c] \in Ended
                              /\ pc'[c] = "idle" <=> pc[c] = "idle"
    PROVE  UNCHANGED Rpc!rvars
<1>1. Outcome' = Outcome
    BY OutcomesStay
<1>2. Served' = Served
    BY SameCallers DEF Served
<1>3. Asked' = Asked
    BY DEF Asked
<1>4. QED BY <1>1, <1>2, <1>3 DEF Rpc!rvars

\* A call that ends without an answer
LEMMA Fails ==
    ASSUME TypeOK, IdsFit, AnswersFit, NEW c \in Callers,
           pc[c] \notin Ended \cup {"idle"}, UNCHANGED <<id, answered, alone>>,
           \A d \in Callers : d # c => pc'[d] = pc[d] /\ got'[d] = got[d],
           pc'[c] \in Ended, pc'[c] = "returned" => got'[c] = 0
    PROVE  Rpc!RNext
<1>1. \A i : CallerOf(i)' = CallerOf(i)
    BY SameCallers
<1>2. Outcome[c] = None
    BY NamesDiffer
<1>3. Outcome' = [Outcome EXCEPT ![c] = "error"]
    <2>1. \A d \in Callers : Outcome'[d] = IF d = c THEN "error" ELSE Outcome[d]
        BY <1>1 DEF Outcome
    <2>2. Outcome' = [d \in Callers |-> Outcome'[d]] /\ Outcome = [d \in Callers |-> Outcome[d]]
        BY DEF Outcome
    <2>3. QED BY <2>1, <2>2
<1>4. Served' = Served
    BY <1>1 DEF Served
<1>5. Asked' = Asked /\ c \in Asked
    BY DEF Asked, Ended
<1>6. Rpc!Fail(c)
    BY <1>2, <1>3, <1>4, <1>5 DEF Rpc!Fail
<1>7. QED BY <1>6 DEF Rpc!RNext

\* Who asks has the client to itself if everyone before has been answered.
LEMMA BeginAsks ==
    ASSUME Inductive, Inductive', NEW c \in Callers, Begin(c)
    PROVE  Rpc!RNext
<1>1. /\ TypeOK /\ IdsFit /\ AnswersFit /\ TypeOK' /\ IdsFit'
      /\ pc[c] = "idle" /\ nextId' = nextId + 1 /\ nextId \in Nat \ {0}
      /\ UNCHANGED <<got, answered>>
    BY DEF Inductive, Begin, TypeOK
<1>2. /\ pc'[c] = "numbered" /\ \A d \in Callers : d # c => pc'[d] = pc[d]
      /\ id'[c] = nextId /\ \A d \in Callers : d # c => id'[d] = id[d]
    BY <1>1 DEF Begin, TypeOK
<1>3. \A i \in 1..(nextId - 1) : CallerOf(i)' = CallerOf(i)
    <2>1. ASSUME NEW i \in 1..(nextId - 1) PROVE CallerOf(i)' = CallerOf(i)
        <3>1. i \in 1..(nextId' - 1) /\ i # nextId /\ i # 0
            BY <1>1
        <3>2. CallerOf(i) \in Callers /\ id[CallerOf(i)] = i
            BY <1>1, IdsHaveCallers
        <3>3. CallerOf(i) # c
            BY <1>1, <3>1, <3>2 DEF IdsFit
        <3>4. id'[CallerOf(i)] = i
            BY <1>2, <3>2, <3>3
        <3>5. CallerOf(i)' \in Callers /\ id'[CallerOf(i)'] = i
            BY <1>1, <3>1 DEF IdsFit, CallerOf
        <3>6. QED BY <1>1, <3>1, <3>2, <3>4, <3>5 DEF IdsFit
    <2>2. QED BY <2>1
<1>4. \A d \in Callers : pc[d] = "returned" /\ got[d] # 0 => got[d] \in 1..(nextId - 1)
    BY <1>1, NamesDiffer
<1>5. Outcome' = Outcome
    <2>1. \A d \in Callers : Outcome'[d] = Outcome[d]
        BY <1>1, <1>2, <1>3, <1>4 DEF Outcome, Ended
    <2>2. Outcome' = [d \in Callers |-> Outcome'[d]] /\ Outcome = [d \in Callers |-> Outcome[d]]
        BY DEF Outcome
    <2>3. QED BY <2>1, <2>2
<1>6. Served' = Served
    <2>1. answered \subseteq 1..(nextId - 1)
        BY <1>1 DEF TypeOK
    <2>2. QED BY <1>1, <1>3, <2>1 DEF Served
<1>7. Asked' = Asked \cup {c} /\ c \notin Asked
    BY <1>1, <1>2 DEF Asked
<1>8. NoneIsOut <=> \A d \in Asked : Rpc!HandedOut(d)
    <2>1. ASSUME NoneIsOut, NEW d \in Asked PROVE Rpc!HandedOut(d)
        <3>1. d \in Callers /\ id[d] \in 1..(nextId - 1) /\ id[d] # 0
            <4>1. d \in Callers /\ pc[d] # "idle"
                BY DEF Asked
            <4>2. id[d] # 0 /\ id[d] \in 0..(nextId - 1)
                BY <1>1, <4>1 DEF IdsFit, TypeOK
            <4>3. QED BY <1>1, <4>1, <4>2
        <3>2. PICK e \in Callers : got[e] = id[d]
            BY <2>1, <3>1 DEF NoneIsOut
        <3>3. pc[e] = "returned"
            BY <1>1, <3>1, <3>2, NoneAssumption DEF IdsFit
        <3>4. Outcome[e] = CallerOf(id[d]) /\ CallerOf(id[d]) = d
            BY <1>1, <3>1, <3>2, <3>3, NamesDiffer, IdsHaveCallers
        <3>5. QED BY <3>4 DEF Rpc!HandedOut
    <2>2. ASSUME \A d \in Asked : Rpc!HandedOut(d), NEW i \in 1..(nextId - 1)
          PROVE  \E e \in Callers : got[e] = i
        <3>1. CallerOf(i) \in Callers /\ id[CallerOf(i)] = i /\ i # 0
            BY <1>1, IdsHaveCallers
        <3>2. CallerOf(i) \in Asked
            BY <1>1, <3>1 DEF Asked, IdsFit
        <3>3. PICK e \in Callers : Outcome[e] = CallerOf(i)
            BY <2>2, <3>2 DEF Rpc!HandedOut
        <3>4. got[e] \in 1..(nextId - 1) /\ CallerOf(got[e]) = CallerOf(i)
            BY <1>1, <3>1, <3>3, NamesDiffer
        <3>5. got[e] = i
            BY <1>1, <3>1, <3>4, IdsHaveCallers
        <3>6. QED BY <3>5
    <2>3. QED BY <2>1, <2>2 DEF NoneIsOut
<1>9. alone' = IF \A d \in Asked : Rpc!HandedOut(d) THEN c ELSE None
    BY <1>8 DEF Begin
<1>10. Rpc!Ask(c)
    BY <1>5, <1>6, <1>7, <1>9 DEF Rpc!Ask
<1>11. QED BY <1>10 DEF Rpc!RNext

LEMMA ServerAnswersServes ==
    ASSUME Inductive, ServerAnswers
    PROVE  Rpc!RNext
<1>1. /\ TypeOK /\ IdsFit /\ AnswersFit /\ RequestsFit
      /\ UNCHANGED <<nextId, pc, id, got, alone>>
    BY DEF Inductive, ServerAnswers
<1>2. PICK k \in DOMAIN pending : answered' = answered \cup {pending[k]}
    BY DEF ServerAnswers
<1>3. pending[k] \in 1..(nextId - 1) /\ pending[k] \notin answered /\ answered \subseteq 1..(nextId - 1)
    <2>1. pending \in Seq(1..(nextId - 1)) /\ answered \subseteq 1..(nextId - 1)
        BY <1>1 DEF TypeOK
    <2>2. pending[k] \in 1..(nextId - 1) /\ pending[k] \in ToSet(pending)
        BY <2>1, ElementOfSeq, LenProperties DEF ToSet
    <2>3. QED BY <1>1, <2>1, <2>2 DEF RequestsFit
<1>. DEFINE i0 == pending[k]
            c == CallerOf(i0)
<1>4. c \in Callers /\ id[c] = i0 /\ i0 # 0
    BY <1>1, <1>3, IdsHaveCallers
<1>5. \A i : CallerOf(i)' = CallerOf(i)
    BY <1>1, SameCallers
<1>6. Served' = Served \cup {c}
    BY <1>2, <1>5 DEF Served
<1>7. c \notin Served
    <2>1. ASSUME NEW i \in answered, CallerOf(i) = c PROVE FALSE
        <3>1. id[c] = i
            BY <1>1, <1>3, <2>1, IdsHaveCallers
        <3>2. QED BY <1>3, <1>4, <2>1, <3>1
    <2>2. QED BY <2>1 DEF Served
<1>8. c \in Asked
    BY <1>1, <1>4 DEF Asked, IdsFit
<1>9. Asked' = Asked
    BY <1>1 DEF Asked
<1>10. Outcome' = Outcome
    BY <1>1, OutcomesStay
<1>. HIDE DEF c
<1>11. Rpc!Serve(c)
    BY <1>1, <1>6, <1>7, <1>8, <1>9, <1>10 DEF Rpc!Serve
<1>12. QED BY <1>4, <1>11 DEF Rpc!RNext

\* An answer that is read was asked for, and nobody has it yet; who is alone gets its own.
LEMMA ReadLineReturns ==
    ASSUME Inductive, NEW c \in Callers, ReadLine(c)
    PROVE  Rpc!RNext \/ UNCHANGED Rpc!rvars
<1>. DEFINE line == Head(toClient)
<1>1. /\ TypeOK /\ IdsFit /\ AnswersFit /\ pc[c] = "stdout"
      /\ UNCHANGED <<nextId, id, answered, alone>>
    BY DEF Inductive, ReadLine
<1>2. line = toClient[1] /\ 1 \in DOMAIN toClient
    <2>1. toClient \in Seq(Lines) /\ toClient # << >>
        BY <1>1 DEF TypeOK, ReadLine
    <2>2. Len(toClient) \in Nat \ {0} /\ line = toClient[1] /\ DOMAIN toClient = 1..Len(toClient)
        BY <2>1, Popped
    <2>3. QED BY <2>2
<1>3. CASE line.kind = "note"
    <2>1. got' = got /\ pc'[c] = "written" /\ \A d \in Callers : d # c => pc'[d] = pc[d]
        BY <1>1, <1>3 DEF ReadLine, KeepsReading, TypeOK
    <2>2. UNCHANGED Rpc!rvars
        BY <1>1, <2>1, Stutters DEF Ended
    <2>3. QED BY <2>2
<1>4. CASE line.kind = "torn"
    <2>1. got' = got /\ pc'[c] = "failed" /\ \A d \in Callers : d # c => pc'[d] = pc[d]
        BY <1>1, <1>4 DEF ReadLine, KeepsReading, TypeOK
    <2>2. QED BY <1>1, <2>1, Fails DEF Ended
<1>5. CASE line.kind \notin {"note", "torn"}
    <2>1. /\ pc'[c] = "returned" /\ got'[c] = line.id
          /\ \A d \in Callers : d # c => pc'[d] = pc[d] /\ got'[d] = got[d]
        BY <1>1, <1>5 DEF ReadLine, KeepsReading, TypeOK
    <2>2. CASE line.id = 0
        BY <1>1, <2>1, <2>2, Fails DEF Ended
    <2>3. CASE line.id # 0
        <3>1. line.kind = "answer"
            <4>1. line \in Lines
                BY <1>1, <1>2, ElementOfSeq, LenProperties DEF TypeOK
            <4>2. line.kind \in {"answer", "ask"} /\ (line.kind = "ask" => line.id = 0)
                BY <1>1, <1>2, <1>5, <4>1 DEF Lines, AnswersFit
            <4>3. QED BY <2>3, <4>2
        <3>2. line.id \in answered /\ \A d \in Callers : got[d] # line.id
            BY <1>1, <1>2, <3>1 DEF AnswersFit
        <3>. DEFINE i0 == line.id
                    owner == CallerOf(i0)
        <3>. HIDE DEF line
        <3>3. i0 \in 1..(nextId - 1) /\ nextId \in Nat \ {0}
            BY <1>1, <3>2 DEF TypeOK
        <3>4. owner \in Callers /\ id[owner] = i0
            BY <1>1, <3>3, IdsHaveCallers
        <3>5. \A i : CallerOf(i)' = CallerOf(i)
            BY <1>1, SameCallers
        <3>6. owner \in Served
            BY <3>2 DEF Served
        <3>7. ~Rpc!HandedOut(owner)
            <4>1. ASSUME NEW e \in Callers, Outcome[e] = owner PROVE FALSE
                <5>1. got[e] \in 1..(nextId - 1) /\ CallerOf(got[e]) = owner
                    BY <1>1, <3>4, <4>1, NamesDiffer
                <5>2. got[e] = i0
                    BY <1>1, <3>4, <5>1, IdsHaveCallers
                <5>3. QED BY <3>2, <5>2
            <4>2. QED BY <4>1 DEF Rpc!HandedOut
        <3>8. alone = c => owner = c
            <4>1. ASSUME alone = c PROVE id[c] = i0
                <5>1. /\ id[c] = nextId - 1
                      /\ \A i \in 1..(nextId - 2) : \E d \in Callers : got[d] = i
                    BY <1>1, <4>1, NoneAssumption DEF IdsFit
                <5>2. i0 \notin 1..(nextId - 2)
                    BY <3>2, <5>1
                <5>3. QED BY <3>3, <5>1, <5>2
            <4>2. QED BY <1>1, <3>3, <4>1, IdsHaveCallers
        <3>9. Outcome[c] = None
            BY <1>1, NamesDiffer DEF Ended
        <3>10. Outcome' = [Outcome EXCEPT ![c] = owner]
            <4>1. \A d \in Callers : Outcome'[d] = IF d = c THEN owner ELSE Outcome[d]
                BY <2>1, <2>3, <3>5 DEF Outcome
            <4>2. Outcome' = [d \in Callers |-> Outcome'[d]] /\ Outcome = [d \in Callers |-> Outcome[d]]
                BY DEF Outcome
            <4>3. QED BY <4>1, <4>2
        <3>11. Served' = Served
            BY <1>1, <3>5 DEF Served
        <3>12. Asked' = Asked /\ c \in Asked
            BY <1>1, <2>1 DEF Asked
        <3>. HIDE DEF owner
        <3>13. Rpc!Return(c, owner)
            BY <1>1, <3>6, <3>7, <3>8, <3>9, <3>10, <3>11, <3>12 DEF Rpc!Return
        <3>14. QED BY <3>4, <3>13 DEF Rpc!RNext
    <2>4. QED BY <2>2, <2>3
<1>6. QED BY <1>3, <1>4, <1>5

LEMMA InitRefines == Init => Rpc!RInit
<1>. SUFFICES ASSUME Init PROVE Rpc!RInit
    OBVIOUS
<1>1. Asked = {} /\ Served = {} /\ Outcome = [c \in Callers |-> None]
    BY DEF Init, Asked, Served, Outcome, Ended
<1>2. QED BY <1>1 DEF Init, Rpc!RInit

LEMMA StepRefines ==
    ASSUME Inductive, Inductive', [Next]_vars
    PROVE  Rpc!RNext \/ UNCHANGED Rpc!rvars
<1>1. TypeOK /\ IdsFit /\ AnswersFit
    BY DEF Inductive
<1>2. ASSUME NEW c \in Callers, Begin(c) PROVE Rpc!RNext
    BY <1>2, BeginAsks
<1>3. ASSUME NEW c \in Callers, AwaitStdin(c) \/ StartWrite(c) \/ FinishWrite(c) \/ AwaitStdout(c)
      PROVE  UNCHANGED Rpc!rvars
    <2>1. /\ UNCHANGED <<id, got, answered, alone>>
          /\ pc[c] \in {"numbered", "stdin", "writing", "written"}
          /\ pc'[c] \in {"stdin", "writing", "written", "stdout"}
          /\ \A d \in Callers : d # c => pc'[d] = pc[d]
        BY <1>1, <1>3 DEF AwaitStdin, StartWrite, FinishWrite, AwaitStdout, TypeOK
    <2>2. QED BY <2>1, Stutters DEF Ended
<1>4. ASSUME NEW c \in Callers, WriteFails(c) \/ ReadEof(c) \/ Cancel(c) PROVE Rpc!RNext
    <2>1. /\ UNCHANGED <<id, got, answered, alone>>
          /\ pc[c] \notin Ended \cup {"idle"} /\ pc'[c] \in {"failed", "cancelled"}
          /\ \A d \in Callers : d # c => pc'[d] = pc[d]
        BY <1>1, <1>4 DEF WriteFails, ReadEof, Cancel, InProgress, Ended, TypeOK
    <2>2. QED BY <1>1, <2>1, Fails DEF Ended
<1>5. ASSUME NEW c \in Callers, ReadLine(c) PROVE Rpc!RNext \/ UNCHANGED Rpc!rvars
    BY <1>5, ReadLineReturns
<1>6. CASE ServerAnswers
    BY <1>6, ServerAnswersServes
<1>7. CASE ServerReads \/ ServerTalks \/ ServerExits \/ UNCHANGED vars
    <2>1. UNCHANGED <<pc, id, got, answered, alone>>
        BY <1>7 DEF ServerReads, ServerTalks, ServerExits, vars
    <2>2. QED BY <2>1, Stutters
<1>8. QED BY <1>2, <1>3, <1>4, <1>5, <1>6, <1>7 DEF Next, Step, Finished

\* Whatever callers overlap or are dropped, and whatever else the server writes: an
\* answer is returned at most once and after it was asked for, and a call that has the
\* client to itself, with no answer left over, returns its own (mcp_client.rs:202-255).
THEOREM ClientImplementsRpc == Spec => ImplementsRpc
<1>1. Inductive /\ Inductive' /\ [Next]_vars => [Rpc!RNext]_(Rpc!rvars)
    BY StepRefines
<1>2. QED BY <1>1, InitRefines, InductiveHolds, PTL DEF Spec, ImplementsRpc, Rpc!RSpec
=============================================================================

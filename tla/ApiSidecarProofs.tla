-------------------------- MODULE ApiSidecarProofs ---------------------------
(***************************************************************************)
(* The snapshot of an API sidecar, for any number of reloads, calls, paths *)
(* and changes: it is as new as the last reload that ran by itself, and a  *)
(* search passes over no path that is valid throughout.  Each lemma is one *)
(* action and has one step for each conjunct of Inductive.                 *)
(*                                                                         *)
(* Then what the sidecar compiles of any document, and the CLI before it:  *)
(* first what the operators of the compiler return, then what an operation *)
(* and its tool, and a request and its arguments have to do with each      *)
(* other, in the end the steps.                                            *)
(***************************************************************************)
EXTENDS ApiSidecar, SmithCli, FiniteSetTheorems, TLAPS

\* The start of the process, reloads and calls have names of their own, and a search
\* begins with the first path.
LEMMA NamesDiffer ==
    /\ Main \in Loads /\ Main \notin Reloads /\ Main \notin Calls /\ Main \notin Requests
    /\ Reloads \subseteq Loads /\ Reloads \cap Calls = {} /\ Requests = Reloads \cup Calls
    /\ \A r \in Loads : r \in Reloads \/ r = Main
    /\ 1 \in Paths /\ \A p \in Paths : p \in Nat /\ p >= 1 /\ p <= Candidates
    /\ None \notin Documents /\ None \notin 0..MaxChanges
BY NameAssumption, BoundAssumption DEF Loads, Requests, Paths

\* The paths are in order, and a search goes to the next one.
LEMMA PathOrder ==
    \A p, q \in Paths :
        /\ p < Candidates => p + 1 \in Paths
        /\ p = Candidates /\ q >= p => q = p
        /\ q >= p /\ q # p => q >= p + 1
BY BoundAssumption DEF Paths

\* Versions are numbers.
LEMMA Versions ==
    ASSUME TypeOK
    PROVE  changes \in Nat /\ changes <= changes /\ \A q \in Loads : doc[q] # None => doc[q].version \in Nat
BY BoundAssumption DEF TypeOK, Documents

\* The process starts, or starts again: it has no snapshot and looks for one.
LEMMA StartsKeeps ==
    ASSUME Inductive, Starts
    PROVE  Inductive'
<1>. USE DEF Inductive, TypeOK, Starts, Begins, Goes
<1>1. TypeOK'
    <2>1. pc' \in [Loads \cup Calls -> {"idle", "probing", "compiling", "calling", "serving"} \cup Ended]
        BY NamesDiffer DEF Ended
    <2>2. at' \in [Loads -> Paths] /\ steady' \in [Loads -> SUBSET Paths]
        BY NamesDiffer, BoundAssumption DEF Paths
    <2>3. compiled' = None /\ ~Up'
        BY NamesDiffer DEF Up, Ended
    <2>4. /\ \A q \in Loads : pc'[q] \in {"compiling", "reloaded", "serving"} => doc'[q] # None
        BY NamesDiffer DEF Ended
    <2>5. /\ \A q \in Requests : pc'[q] \notin Ended \cup {"idle"} => Up'
        BY NamesDiffer DEF Up, Ended
    <2>6. QED BY <2>1, <2>2, <2>3, <2>4, <2>5
<1>2. SeesReload'
    BY NamesDiffer DEF SeesReload, NoneIsOlder, SeenHaveEnded
<1>3. ProbeFindsValid'
    BY NamesDiffer DEF ProbeFindsValid, SearchIsAhead, Valid
<1>4. OverlapIsKnown'
    BY NamesDiffer DEF OverlapIsKnown, InProgress, Ended
<1>5. SearchIsAhead'
    BY NamesDiffer DEF SearchIsAhead, Valid
<1>6. NoneIsOlder'
    BY NamesDiffer DEF NoneIsOlder, OverlapIsKnown, InProgress, Ended, Documents
<1>7. SeenHaveEnded'
    <2>1. \A q \in Reloads : pc[q] = "reloaded" => pc'[q] = "reloaded"
        BY NamesDiffer DEF Ended
    <2>2. \A c \in Calls : after'[c] = after[c] /\ snap'[c] = snap[c] /\ after[c] \subseteq Reloads
        OBVIOUS
    <2>3. QED BY <2>1, <2>2 DEF SeenHaveEnded
<1>8. QED BY <1>1, <1>2, <1>3, <1>4, <1>5, <1>6, <1>7

\* A reload that begins beside another is known to overlap it.
LEMMA ReloadStartsKeeps ==
    ASSUME Inductive, NEW r \in Reloads, ReloadStarts(r)
    PROVE  Inductive'
<1>. USE DEF Inductive, TypeOK, ReloadStarts, Begins, Goes
<1>1. TypeOK'
    <2>1. pc' \in [Loads \cup Calls -> {"idle", "probing", "compiling", "calling", "serving"} \cup Ended]
        BY NamesDiffer DEF Ended
    <2>2. steady' \in [Loads -> SUBSET Paths] /\ overlapped' \subseteq Reloads
        OBVIOUS
    <2>3. Up' <=> Up
        BY NamesDiffer DEF Up, Ended
    <2>4. /\ \A q \in Loads : pc'[q] \in {"compiling", "reloaded", "serving"} => doc'[q] # None
        BY NamesDiffer DEF Ended
    <2>5. /\ \A q \in Requests : pc'[q] \notin Ended \cup {"idle"} => Up'
        BY NamesDiffer DEF Up, Ended
    <2>6. QED BY <2>1, <2>2, <2>3, <2>4, <2>5
<1>2. SeesReload'
    BY NamesDiffer DEF SeesReload, NoneIsOlder, SeenHaveEnded
<1>3. ProbeFindsValid'
    <2>1. \A q \in Loads : q # r => pc'[q] = pc[q] /\ steady'[q] = steady[q]
        BY NamesDiffer
    <2>2. \A p \in steady'[r] : p >= at'[r]
        <3>1. r \in Loads /\ at[r] = 1 /\ at' = at
            BY NamesDiffer DEF SearchIsAhead
        <3>2. steady' \in [Loads -> SUBSET Paths]
            OBVIOUS
        <3>3. steady'[r] \subseteq Paths
            BY <3>1, <3>2
        <3>. QED BY <3>1, <3>3, NamesDiffer
    <2>3. pc'[r] # "not found"
        BY NamesDiffer
    <2>. QED BY <2>1, <2>2, <2>3 DEF ProbeFindsValid
<1>4. OverlapIsKnown'
    <2>1. \A q \in Reloads : q # r => (InProgress(q)' <=> InProgress(q))
        BY NamesDiffer DEF InProgress
    <2>2. ~InProgress(r)
        BY DEF InProgress, Ended
    <2>3. \A q \in Reloads : InProgress(q) => q \in overlapped' /\ r \in overlapped'
        BY DEF InProgress
    <2>4. overlapped \subseteq overlapped'
        OBVIOUS
    <2>5. QED BY <2>1, <2>2, <2>3, <2>4 DEF OverlapIsKnown
<1>5. SearchIsAhead'
    <2>1. \A q \in Loads : q # r => pc'[q] = pc[q] /\ steady'[q] = steady[q]
        BY NamesDiffer
    <2>2. at[r] = 1 /\ r \in Loads
        BY NamesDiffer DEF SearchIsAhead
    <2>3. pc'[r] = "probing" => steady'[r] = {p \in Paths : Valid(p)}
        BY NamesDiffer DEF Ended
    <2>4. pc'[r] # "idle"
        BY NamesDiffer
    <2>5. \A p \in Paths : Valid(p)' <=> Valid(p)
        BY DEF Valid
    <2>6. pc'[r] = "probing" => \A p \in steady'[r] : Valid(p)' /\ p >= at'[r]
        BY <2>2, <2>3, <2>5, NamesDiffer
    <2>7. QED BY <2>1, <2>2, <2>3, <2>4, <2>5, <2>6, NamesDiffer DEF SearchIsAhead
<1>6. NoneIsOlder'
    <2>1. /\ pc'[r] # "reloaded" /\ pc'[r] # "compiling"
          /\ \A q \in Loads : q # r => pc'[q] = pc[q]
        BY NamesDiffer DEF Ended
    <2>2. UNCHANGED <<doc, changes, compiled>> /\ overlapped \subseteq overlapped'
        OBVIOUS
    <2>3. ASSUME NEW p \in Reloads \ overlapped', pc'[p] = "reloaded"
          PROVE  /\ p \in Reloads \ overlapped /\ pc[p] = "reloaded"
                 /\ \A q \in Loads : pc'[q] = "compiling" => pc[q] = "compiling"
        BY <2>1, <2>2, <2>3, NamesDiffer
    <2>4. /\ \A q \in Loads : doc[q] # None => doc[q].version <= changes
          /\ \A p \in Reloads \ overlapped : pc[p] = "reloaded" =>
                /\ compiled # None => compiled.version >= doc[p].version
                /\ \A q \in Loads : pc[q] = "compiling" => doc[q].version >= doc[p].version
        BY DEF NoneIsOlder
    <2>5. \A q \in Loads : doc'[q] # None => doc'[q].version <= changes'
        BY <2>2, <2>4
    <2>6. ASSUME NEW p \in Reloads \ overlapped', pc'[p] = "reloaded"
          PROVE  /\ compiled' # None => compiled'.version >= doc'[p].version
                 /\ \A q \in Loads : pc'[q] = "compiling" => doc'[q].version >= doc'[p].version
        <3>1. /\ compiled # None => compiled.version >= doc[p].version
              /\ \A q \in Loads : pc[q] = "compiling" => doc[q].version >= doc[p].version
            BY <2>3, <2>4, <2>6
        <3>2. QED BY <2>2, <2>3, <2>6, <3>1
    <2>7. QED BY <2>5, <2>6 DEF NoneIsOlder
<1>7. SeenHaveEnded'
    <2>1. \A q \in Reloads : pc[q] = "reloaded" => pc'[q] = "reloaded"
        BY NamesDiffer DEF Ended
    <2>2. \A c \in Calls : after'[c] = after[c] /\ snap'[c] = snap[c] /\ after[c] \subseteq Reloads
        OBVIOUS
    <2>3. QED BY <2>1, <2>2 DEF SeenHaveEnded
<1>8. QED BY <1>1, <1>2, <1>3, <1>4, <1>5, <1>6, <1>7

\* A path is probed: a document is as new as the site, and what is passed over was not valid.
LEMMA ProbeKeeps ==
    ASSUME Inductive, NEW r \in Loads, Probe(r)
    PROVE  Inductive'
<1>. USE DEF Inductive, TypeOK, Probe, NextPath, Goes
<1>1. TypeOK'
    <2>1. pc' \in [Loads \cup Calls -> {"idle", "probing", "compiling", "calling", "serving"} \cup Ended]
        BY NamesDiffer DEF Ended
    <2>2. at[r] \in Paths
        OBVIOUS
    <2>3. at[r] < Candidates => at[r] + 1 \in Paths
        BY <2>2, PathOrder
    <2>4. at' \in [Loads -> Paths]
        BY <2>3, NamesDiffer
    <2>5. [page |-> site[at[r]], version |-> changes] \in Documents
        BY NamesDiffer DEF Documents
    <2>6. doc' \in [Loads -> Documents \cup {None}]
        BY <2>5
    <2>7. Up' <=> Up
        BY NamesDiffer DEF Up, Ended
    <2>8. /\ \A q \in Loads : pc'[q] \in {"compiling", "reloaded", "serving"} => doc'[q] # None
        BY <2>5, NamesDiffer DEF Ended
    <2>9. /\ \A q \in Requests : pc'[q] \notin Ended \cup {"idle"} => Up'
        BY NamesDiffer DEF Up, Ended
    <2>10. QED BY <2>1, <2>2, <2>3, <2>4, <2>5, <2>6, <2>7, <2>8, <2>9
<1>2. SeesReload'
    BY NamesDiffer DEF SeesReload, NoneIsOlder, SeenHaveEnded
<1>3. ProbeFindsValid'
    <2>1. \A q \in Loads : q # r => pc'[q] = pc[q] /\ doc'[q] = doc[q] /\ at'[q] = at[q]
        BY NamesDiffer
    <2>2. \A p \in steady[r] : p \in Paths /\ p >= at[r] /\ Valid(p)
        BY DEF SearchIsAhead
    <2>3. pc'[r] = "not found" => steady[r] = {}
        <3>. SUFFICES ASSUME pc'[r] = "not found" PROVE steady[r] = {}
            OBVIOUS
        <3>1. at[r] = Candidates /\ ~Valid(at[r])
            BY DEF Valid
        <3>. QED BY <2>2, <3>1, PathOrder
    <2>4. \A p \in steady[r] : p >= at'[r]
        <3>1. at'[r] = at[r] \/ (at'[r] = at[r] + 1 /\ ~Valid(at[r]))
            BY DEF Valid
        <3>. QED BY <2>2, <3>1, PathOrder
    <2>. QED BY <2>1, <2>3, <2>4 DEF ProbeFindsValid
<1>4. OverlapIsKnown'
    BY NamesDiffer DEF OverlapIsKnown, InProgress, Ended
<1>5. SearchIsAhead'
    <2>1. \A q \in Loads : q # r => pc'[q] = pc[q] /\ at'[q] = at[q]
        BY NamesDiffer
    <2>2. pc'[r] # "idle"
        BY NamesDiffer
    <2>3. \A p \in steady[r] : p \in Paths /\ p >= at[r] /\ Valid(p)
        BY DEF SearchIsAhead
    <2>4. \A p \in steady[r] : p >= at'[r]
        <3>1. at'[r] = at[r] \/ (at'[r] = at[r] + 1 /\ ~Valid(at[r]))
            BY DEF Valid
        <3>. QED BY <2>3, <3>1, PathOrder
    <2>5. \A p \in Paths : Valid(p)' <=> Valid(p)
        BY DEF Valid
    <2>. QED BY <2>1, <2>2, <2>4, <2>5, NamesDiffer DEF SearchIsAhead
<1>6. NoneIsOlder'
    <2>1. \A q \in Loads : doc[q] # None => doc[q].version \in Nat
        BY Versions
    <2>2. changes \in Nat
        BY Versions
    <2>3. [page |-> site[at[r]], version |-> changes] \in Documents
        BY DEF Documents
    <2>4. doc'[r] = doc[r] \/ doc'[r] = [page |-> site[at[r]], version |-> changes]
        OBVIOUS
    <2>5. \A q \in Loads : q # r => pc'[q] = pc[q] /\ doc'[q] = doc[q]
        BY NamesDiffer
    <2>6. pc'[r] # "reloaded"
        BY NamesDiffer
    <2>7. pc'[r] = "compiling" => doc'[r] = [page |-> site[at[r]], version |-> changes]
        BY NamesDiffer
    <2>8. [page |-> site[at[r]], version |-> changes].version = changes
        OBVIOUS
    <2>9. \A q \in Loads : doc'[q] # None => doc'[q].version <= changes'
        <3>1. doc'[r] = doc[r] \/ doc'[r].version = changes
            BY <2>4, <2>8
        <3>2. changes' = changes /\ changes <= changes
            BY Versions
        <3>3. QED BY <2>5, <3>1, <3>2 DEF NoneIsOlder
    <2>10. ASSUME NEW q \in Reloads \ overlapped, pc'[q] = "reloaded"
          PROVE  /\ compiled' # None => compiled'.version >= doc'[q].version
                 /\ \A p \in Loads : pc'[p] = "compiling" => doc'[p].version >= doc'[q].version
        <3>1. q # r /\ pc[q] = "reloaded" /\ doc'[q] = doc[q] /\ doc[q] # None
            BY <2>5, <2>6, <2>10, NamesDiffer
        <3>2. doc[q].version <= changes /\ doc[q].version \in Nat
            BY <3>1, <2>1, NamesDiffer DEF NoneIsOlder
        <3>3. QED
            BY <3>1, <3>2, <2>2, <2>5, <2>7, <2>8, <2>10 DEF NoneIsOlder
    <2>11. QED BY <2>9, <2>10 DEF NoneIsOlder
<1>7. SeenHaveEnded'
    <2>1. \A q \in Reloads : pc[q] = "reloaded" => pc'[q] = "reloaded"
        BY NamesDiffer DEF Ended
    <2>2. \A c \in Calls : after'[c] = after[c] /\ snap'[c] = snap[c] /\ after[c] \subseteq Reloads
        OBVIOUS
    <2>3. QED BY <2>1, <2>2 DEF SeenHaveEnded
<1>8. QED BY <1>1, <1>2, <1>3, <1>4, <1>5, <1>6, <1>7

\* A document is compiled: nothing else that is being compiled, or was, is newer unless it overlaps.
LEMMA CompileKeeps ==
    ASSUME Inductive, NEW r \in Loads, Compile(r)
    PROVE  Inductive'
<1>. USE DEF Inductive, TypeOK, Compile, Swapped, Goes
<1>1. TypeOK'
    <2>1. pc' \in [Loads \cup Calls -> {"idle", "probing", "compiling", "calling", "serving"} \cup Ended]
        BY NamesDiffer DEF Ended
    <2>2. compiled' \in Documents \cup {None} /\ doc[r] # None
        OBVIOUS
    <2>3. compiled' # None <=> Up'
        BY NamesDiffer DEF Up, Ended
    <2>4. /\ \A q \in Loads : pc'[q] \in {"compiling", "reloaded", "serving"} => doc'[q] # None
        BY NamesDiffer DEF Ended
    <2>5. /\ \A q \in Requests : pc'[q] \notin Ended \cup {"idle"} => Up'
        BY NamesDiffer DEF Up, Ended
    <2>6. QED BY <2>1, <2>2, <2>3, <2>4, <2>5
<1>2. SeesReload'
    BY NamesDiffer DEF SeesReload, NoneIsOlder, SeenHaveEnded
<1>3. ProbeFindsValid'
    BY NamesDiffer DEF ProbeFindsValid, SearchIsAhead, Valid
<1>4. OverlapIsKnown'
    BY NamesDiffer DEF OverlapIsKnown, InProgress, Ended
<1>5. SearchIsAhead'
    BY NamesDiffer DEF SearchIsAhead, Valid
<1>6. NoneIsOlder'
    <2>1. \A q \in Loads : doc[q] # None => doc[q].version \in Nat
        BY NamesDiffer, BoundAssumption DEF Documents
    <2>2. doc[r] # None /\ compiled' \in {compiled, doc[r]}
        OBVIOUS
    <2>3. \A q \in Loads : q # r => pc'[q] = pc[q]
        BY NamesDiffer
    <2>4. pc'[r] # "compiling"
        BY NamesDiffer
    <2>5. \A q \in Loads : ~(pc'[r] = "reloaded" /\ r \notin overlapped /\ q # r /\ pc[q] = "compiling")
        BY NamesDiffer DEF OverlapIsKnown, InProgress, Ended, Up
    <2>6. pc'[r] = "reloaded" => compiled' = doc[r]
        BY NamesDiffer
    <2>7. QED BY <2>1, <2>2, <2>3, <2>4, <2>5, <2>6, NamesDiffer DEF NoneIsOlder
<1>7. SeenHaveEnded'
    <2>1. \A q \in Reloads : pc[q] = "reloaded" => pc'[q] = "reloaded"
        BY NamesDiffer DEF Ended
    <2>2. \A c \in Calls : after'[c] = after[c] /\ snap'[c] = snap[c] /\ after[c] \subseteq Reloads
        OBVIOUS
    <2>3. QED BY <2>1, <2>2 DEF SeenHaveEnded
<1>8. QED BY <1>1, <1>2, <1>3, <1>4, <1>5, <1>6, <1>7

\* The process ends: nothing is served and no request goes on.
LEMMA AbortsKeeps ==
    ASSUME Inductive, NEW r \in Loads, Aborts(r)
    PROVE  Inductive'
<1>. USE DEF Inductive, TypeOK, Aborts
<1>1. TypeOK'
    BY NamesDiffer DEF Ended, Up
<1>2. SeesReload'
    BY NamesDiffer DEF SeesReload, NoneIsOlder, SeenHaveEnded
<1>3. ProbeFindsValid'
    BY NamesDiffer DEF ProbeFindsValid, SearchIsAhead, Valid
<1>4. OverlapIsKnown'
    BY NamesDiffer DEF OverlapIsKnown, InProgress, Ended
<1>5. SearchIsAhead'
    BY NamesDiffer DEF SearchIsAhead, Valid
<1>6. NoneIsOlder'
    BY NamesDiffer DEF NoneIsOlder, OverlapIsKnown, InProgress, Ended, Documents
<1>7. SeenHaveEnded'
    <2>1. \A q \in Reloads : pc[q] = "reloaded" => pc'[q] = "reloaded"
        BY NamesDiffer DEF Ended
    <2>2. \A c \in Calls : after'[c] = after[c] /\ snap'[c] = snap[c] /\ after[c] \subseteq Reloads
        OBVIOUS
    <2>3. QED BY <2>1, <2>2 DEF SeenHaveEnded
<1>8. QED BY <1>1, <1>2, <1>3, <1>4, <1>5, <1>6, <1>7

\* A call takes the snapshot, which is as new as what ended before.
LEMMA CallStartsKeeps ==
    ASSUME Inductive, NEW c \in Calls, CallStarts(c)
    PROVE  Inductive'
<1>. USE DEF Inductive, TypeOK, CallStarts, Goes
<1>1. TypeOK'
    <2>1. pc' \in [Loads \cup Calls -> {"idle", "probing", "compiling", "calling", "serving"} \cup Ended]
        BY NamesDiffer DEF Ended
    <2>2. compiled # None /\ compiled.version \in 0..MaxChanges
        BY NamesDiffer DEF Documents, Up
    <2>3. snap' \in [Calls -> 0..MaxChanges \cup {None}] /\ after' \in [Calls -> SUBSET Reloads]
        BY <2>2
    <2>4. Up' <=> Up
        BY NamesDiffer DEF Up, Ended
    <2>5. /\ \A q \in Loads : pc'[q] \in {"compiling", "reloaded", "serving"} => doc'[q] # None
        BY NamesDiffer DEF Ended
    <2>6. /\ \A q \in Requests : pc'[q] \notin Ended \cup {"idle"} => Up'
        BY NamesDiffer DEF Up, Ended
    <2>7. QED BY <2>1, <2>2, <2>3, <2>4, <2>5, <2>6
<1>2. SeesReload'
    BY NamesDiffer DEF SeesReload, NoneIsOlder, SeenHaveEnded
<1>3. ProbeFindsValid'
    BY NamesDiffer DEF ProbeFindsValid, SearchIsAhead, Valid
<1>4. OverlapIsKnown'
    <2>1. \A q \in Reloads : InProgress(q)' <=> InProgress(q)
        BY NamesDiffer DEF InProgress, Ended
    <2>2. QED BY <2>1 DEF OverlapIsKnown
<1>5. SearchIsAhead'
    BY NamesDiffer DEF SearchIsAhead, Valid
<1>6. NoneIsOlder'
    BY NamesDiffer DEF NoneIsOlder, OverlapIsKnown, InProgress, Ended, Documents
<1>7. SeenHaveEnded'
    <2>1. compiled # None /\ compiled.version # None
        BY NamesDiffer DEF Documents, Up
    <2>2. \A q \in Reloads : pc'[q] = pc[q]
        BY NamesDiffer
    <2>3. QED BY <2>1, <2>2 DEF SeenHaveEnded
<1>8. QED BY <1>1, <1>2, <1>3, <1>4, <1>5, <1>6, <1>7

\* A call ends.
LEMMA CallEndsKeeps ==
    ASSUME Inductive, NEW c \in Calls, CallEnds(c)
    PROVE  Inductive'
<1>. USE DEF Inductive, TypeOK, CallEnds, Goes
<1>1. TypeOK'
    BY NamesDiffer DEF Ended, Up
<1>2. SeesReload'
    BY NamesDiffer DEF SeesReload, NoneIsOlder, SeenHaveEnded
<1>3. ProbeFindsValid'
    BY NamesDiffer DEF ProbeFindsValid, SearchIsAhead, Valid
<1>4. OverlapIsKnown'
    BY NamesDiffer DEF OverlapIsKnown, InProgress, Ended
<1>5. SearchIsAhead'
    BY NamesDiffer DEF SearchIsAhead, Valid
<1>6. NoneIsOlder'
    BY NamesDiffer DEF NoneIsOlder, OverlapIsKnown, InProgress, Ended, Documents
<1>7. SeenHaveEnded'
    BY NamesDiffer DEF SeenHaveEnded, Ended
<1>8. QED BY <1>1, <1>2, <1>3, <1>4, <1>5, <1>6, <1>7

\* A request is dropped.
LEMMA DropKeeps ==
    ASSUME Inductive, NEW r \in Requests, Drop(r)
    PROVE  Inductive'
<1>. USE DEF Inductive, TypeOK, Drop, Goes
<1>1. TypeOK'
    BY NamesDiffer DEF Ended, Up
<1>2. SeesReload'
    BY NamesDiffer DEF SeesReload, NoneIsOlder, SeenHaveEnded
<1>3. ProbeFindsValid'
    BY NamesDiffer DEF ProbeFindsValid, SearchIsAhead, Valid
<1>4. OverlapIsKnown'
    BY NamesDiffer DEF OverlapIsKnown, InProgress, Ended
<1>5. SearchIsAhead'
    BY NamesDiffer DEF SearchIsAhead, Valid
<1>6. NoneIsOlder'
    BY NamesDiffer DEF NoneIsOlder, OverlapIsKnown, InProgress, Ended, Documents
<1>7. SeenHaveEnded'
    <2>1. \A q \in Reloads : pc[q] = "reloaded" => pc'[q] = "reloaded"
        BY NamesDiffer DEF Ended
    <2>2. \A c \in Calls : after'[c] = after[c] /\ snap'[c] = snap[c] /\ after[c] \subseteq Reloads
        OBVIOUS
    <2>3. QED BY <2>1, <2>2 DEF SeenHaveEnded
<1>8. QED BY <1>1, <1>2, <1>3, <1>4, <1>5, <1>6, <1>7

\* A path answers otherwise from now on: it is steady no more if it is not valid.
LEMMA SiteChangesKeeps ==
    ASSUME Inductive, NEW p \in Paths, SiteChanges(p)
    PROVE  Inductive'
<1>. USE DEF Inductive, TypeOK, SiteChanges
<1>1. TypeOK'
    <2>1. site' \in [Paths -> Pages]
        OBVIOUS
    <2>2. changes' \in 0..MaxChanges
        BY BoundAssumption
    <2>3. steady' \in [Loads -> SUBSET Paths]
        OBVIOUS
    <2>4. Up' <=> Up
        BY NamesDiffer DEF Up, Ended
    <2>5. QED BY <2>1, <2>2, <2>3, <2>4
<1>2. SeesReload'
    BY NamesDiffer DEF SeesReload, NoneIsOlder, SeenHaveEnded
<1>3. ProbeFindsValid'
    BY NamesDiffer DEF ProbeFindsValid, SearchIsAhead, Valid
<1>4. OverlapIsKnown'
    BY NamesDiffer DEF OverlapIsKnown, InProgress, Ended
<1>5. SearchIsAhead'
    BY NamesDiffer DEF SearchIsAhead, Valid
<1>6. NoneIsOlder'
    <2>1. \A q \in Loads : doc[q] # None => doc[q].version \in Nat /\ changes \in Nat /\ changes' = changes + 1
        BY NamesDiffer, BoundAssumption DEF Documents
    <2>2. QED BY <2>1 DEF NoneIsOlder
<1>7. SeenHaveEnded'
    BY NamesDiffer DEF SeenHaveEnded, Ended
<1>8. QED BY <1>1, <1>2, <1>3, <1>4, <1>5, <1>6, <1>7

\* The inductive invariant.
THEOREM InductiveHolds == Spec => []Inductive
<1>1. Init => Inductive
    <2>. USE NameAssumption, BoundAssumption DEF Init
    <2>1. Init => TypeOK
        <3>1. 1 \in Paths /\ 0 \in 0..MaxChanges
            BY DEF Paths
        <3>2. QED BY <3>1 DEF TypeOK, Ended, Up, Loads, Requests
    <2>2. Init => SeesReload /\ ProbeFindsValid
        BY DEF SeesReload, ProbeFindsValid, Loads
    <2>3. Init => OverlapIsKnown /\ SearchIsAhead /\ NoneIsOlder /\ SeenHaveEnded
        BY DEF OverlapIsKnown, SearchIsAhead, NoneIsOlder, SeenHaveEnded, InProgress, Ended, Loads
    <2>4. QED BY <2>1, <2>2, <2>3 DEF Inductive
<1>2. Inductive /\ [Next]_vars => Inductive'
    <2> SUFFICES ASSUME Inductive, [Next]_vars PROVE Inductive'
        OBVIOUS
    <2>1. CASE UNCHANGED vars
        BY <2>1 DEF vars, Inductive, TypeOK, SeesReload, ProbeFindsValid, OverlapIsKnown,
            SearchIsAhead, NoneIsOlder, SeenHaveEnded, InProgress, Up, Valid
    <2>2. QED
        BY <2>1, StartsKeeps, ReloadStartsKeeps, ProbeKeeps, CompileKeeps, AbortsKeeps, CallStartsKeeps,
           CallEndsKeeps, DropKeeps, SiteChangesKeeps DEF Next
<1>3. QED BY <1>1, <1>2, PTL DEF Spec

\* Every variable keeps its type; there is a snapshot exactly while the process serves.
THEOREM TypeCorrect == Spec => []TypeOK
BY InductiveHolds, PTL DEF Inductive

\* A call that starts when a reload by itself has ended runs with nothing older.
THEOREM ReloadsAreSeen == Spec => []SeesReload
BY InductiveHolds, PTL DEF Inductive

\* No search is in vain while a path is valid throughout.
THEOREM ValidIsFound == Spec => []ProbeFindsValid
BY InductiveHolds, PTL DEF Inductive
-----------------------------------------------------------------------------
(* Operators of the compiler *)

\* The list of a finite set of numbers in order has each of them once.
LEMMA SortedInOrder ==
    ASSUME NEW S \in SUBSET Nat, IsFiniteSet(S)
    PROVE  /\ Sorted(S) \in Seq(Nat) /\ ToSet(Sorted(S)) = S /\ IsInjective(Sorted(S))
           /\ \A i, j \in DOMAIN Sorted(S) : i < j => Sorted(S)[i] < Sorted(S)[j]
<1>. DEFINE UpTo(n) == {m \in S : m <= n}
            rank == [n \in S |-> Cardinality(UpTo(n))]
            size == Cardinality(S)
<1>1. size \in Nat
    BY FS_CardinalityType
<1>2. \A n \in S : IsFiniteSet(UpTo(n)) /\ Cardinality(UpTo(n)) \in 1..size
    <2>. SUFFICES ASSUME NEW n \in S PROVE IsFiniteSet(UpTo(n)) /\ Cardinality(UpTo(n)) \in 1..size
        OBVIOUS
    <2>1. IsFiniteSet(UpTo(n)) /\ Cardinality(UpTo(n)) <= size
        BY FS_Subset
    <2>2. Cardinality(UpTo(n)) \in Nat
        BY <2>1, FS_CardinalityType
    <2>3. Cardinality(UpTo(n)) # 0
        <3>1. n \in UpTo(n)
            OBVIOUS
        <3>. QED BY <2>1, <3>1, FS_EmptySet
    <2>. QED BY <1>1, <2>1, <2>2, <2>3
<1>3. \A n, k \in S : n < k => Cardinality(UpTo(n)) < Cardinality(UpTo(k))
    <2>. SUFFICES ASSUME NEW n \in S, NEW k \in S, n < k PROVE Cardinality(UpTo(n)) < Cardinality(UpTo(k))
        OBVIOUS
    <2>1. UpTo(n) \in SUBSET UpTo(k) /\ k \in UpTo(k) /\ k \notin UpTo(n)
        <3>1. n \in Nat /\ k \in Nat /\ \A m \in S : m \in Nat
            OBVIOUS
        <3>2. \A m \in S : m <= n => m <= k
            BY <3>1
        <3>3. ~(k <= n)
            BY <3>1
        <3>4. k <= k
            BY <3>1
        <3>. QED BY <3>2, <3>3, <3>4
    <2>2. UpTo(k) # UpTo(n)
        BY <2>1
    <2>3. Cardinality(UpTo(n)) <= Cardinality(UpTo(k)) /\ Cardinality(UpTo(k)) # Cardinality(UpTo(n))
        BY <1>2, <2>1, <2>2, FS_Subset
    <2>. QED BY <1>2, <2>3
<1>4. rank \in Injection(S, 1..size)
    <2>1. rank \in [S -> 1..size]
        BY <1>2
    <2>2. IsInjective(rank)
        <3>1. \A n, k \in S : n < k \/ k < n \/ n = k
            OBVIOUS
        <3>. QED BY <1>2, <1>3, <3>1 DEF IsInjective
    <2>. QED BY <2>1, <2>2 DEF Injection
<1>5. rank \in Surjection(S, 1..size)
    <2>1. IsFiniteSet(1..size) /\ Cardinality(1..size) = size
        BY <1>1, FS_Interval
    <2>. QED BY <1>4, <2>1, FS_Injection
<1>6. \A i \in 1..size : \E n \in S : Cardinality(UpTo(n)) = i
    BY <1>5 DEF Surjection
<1>7. DOMAIN Sorted(S) = 1..size /\ \A i \in 1..size : Sorted(S)[i] \in S /\ rank[Sorted(S)[i]] = i
    BY <1>6 DEF Sorted
<1>8. \A n \in S : rank[n] \in 1..size /\ Sorted(S)[rank[n]] = n
    <2>1. \A n, k \in S : rank[n] = rank[k] => n = k
        BY <1>4 DEF Injection, IsInjective
    <2>2. \A n \in S : rank[n] \in 1..size
        BY <1>2
    <2>. HIDE DEF rank
    <2>. QED BY <1>7, <2>1, <2>2
<1>9. \A n, k \in S : n < k => rank[n] < rank[k]
    BY <1>3
<1>. HIDE DEF rank
<1>10. Sorted(S) \in Seq(Nat)
    <2>. DEFINE pick(i) == CHOOSE n \in S : Cardinality({m \in S : m <= n}) = i
    <2>1. Sorted(S) = [i \in 1..size |-> pick(i)]
        BY DEF Sorted
    <2>. HIDE DEF pick, size
    <2>2. \A i \in 1..size : pick(i) \in Nat
        BY <1>7, <2>1
    <2>. QED BY <1>1, <2>1, <2>2
<1>11. ToSet(Sorted(S)) = S
    BY <1>7, <1>8 DEF ToSet
<1>12. IsInjective(Sorted(S))
    BY <1>7 DEF IsInjective
<1>13. ASSUME NEW i \in 1..size, NEW j \in 1..size, i < j PROVE Sorted(S)[i] < Sorted(S)[j]
    <2>1. Sorted(S)[i] \in Nat /\ Sorted(S)[j] \in Nat
        BY <1>7
    <2>2. rank[Sorted(S)[i]] = i /\ rank[Sorted(S)[j]] = j /\ i < j /\ i \in Nat /\ j \in Nat
        BY <1>1, <1>7, <1>13
    <2>3. ~(Sorted(S)[j] < Sorted(S)[i])
        <3>1. Sorted(S)[j] < Sorted(S)[i] => j < i
            BY <1>7, <1>9, <2>2
        <3>. QED BY <2>2, <3>1
    <2>4. Sorted(S)[i] # Sorted(S)[j]
        BY <2>2
    <2>. QED BY <2>1, <2>3, <2>4
<1>. QED BY <1>7, <1>10, <1>11, <1>12, <1>13

\* What is merged has the fields of all members, each as its member has it.
LEMMA MergedFields ==
    ASSUME NEW parts \in Seq(Member), Mergeable(parts)
    PROVE  /\ Fields(parts) \in Maps
           /\ DOMAIN Fields(parts) = UNION {DOMAIN parts[i].fields : i \in DOMAIN parts}
           /\ \A i \in DOMAIN parts : \A n \in DOMAIN parts[i].fields : Fields(parts)[n] = parts[i].fields[n]
           /\ Required(parts) \in SUBSET Names
<1>1. \A i \in DOMAIN parts : parts[i] \in Object /\ parts[i].fields \in Maps /\ parts[i].required \in SUBSET Names
    BY DEF Mergeable, Member, Object
<1>. DEFINE maps == {parts[i].fields : i \in DOMAIN parts}
            all == UNION {DOMAIN parts[i].fields : i \in DOMAIN parts}
<1>2. Fields(parts) = [n \in all |-> (CHOOSE f \in maps : n \in DOMAIN f)[n]]
    <2>1. UNION {DOMAIN f : f \in maps} = all
        OBVIOUS
    <2>. QED BY <2>1 DEF Fields, Together
<1>3. \A i \in DOMAIN parts : \A n \in DOMAIN parts[i].fields : Fields(parts)[n] = parts[i].fields[n]
    <2>. SUFFICES ASSUME NEW i \in DOMAIN parts, NEW n \in DOMAIN parts[i].fields
                  PROVE  Fields(parts)[n] = parts[i].fields[n]
        OBVIOUS
    <2>. DEFINE f == CHOOSE g \in maps : n \in DOMAIN g
    <2>1. f \in maps /\ n \in DOMAIN f
        OBVIOUS
    <2>2. PICK j \in DOMAIN parts : f = parts[j].fields
        BY <2>1
    <2>3. i = j
        BY <2>1, <2>2 DEF Mergeable
    <2>. QED BY <1>2, <2>2, <2>3
<1>4. Fields(parts) \in Maps
    <2>1. all \in SUBSET Names
        BY <1>1 DEF Maps
    <2>2. \A n \in all : Fields(parts)[n] \in Types
        BY <1>1, <1>3 DEF Maps
    <2>3. Fields(parts) \in [all -> Types]
        BY <1>2, <2>2
    <2>. QED BY <2>1, <2>3 DEF Maps
<1>5. Required(parts) \in SUBSET Names
    BY <1>1 DEF Required
<1>. QED BY <1>2, <1>3, <1>4, <1>5

-----------------------------------------------------------------------------
(* A tool and its operation *)

\* What the body adds to a tool's fields
Body(op) == IF op.body = Null THEN [fields |-> << >>, required |-> {}] ELSE Merged(op.body)

\* Nothing is a function of no names.
LEMMA EmptyIsMap == << >> \in Maps /\ DOMAIN << >> = {}
<1>1. << >> = [n \in {} |-> n]
    OBVIOUS
<1>. QED BY <1>1 DEF Maps

\* The parameters of a tool have names of their own, and go where they can be sent.
LEMMA ParametersApart ==
    ASSUME NEW op \in Operation, Supported(op)
    PROVE  /\ \A p \in Parameters(op) :
                /\ p \in Parameter /\ p.name \in Names /\ p.type \in Types
                /\ p.in \in {"path", "query", "header"}
                /\ p.name \notin DOMAIN Body(op).fields
           /\ \A p, q \in Parameters(op) : p.name = q.name => p = q
<1>1. Parameters(op) \subseteq Parameter
    BY DEF Parameters, Collected, Operation
<1>2. \A p \in Parameters(op) : p.in \in {"path", "query", "header"}
    BY DEF Supported
<1>3. \A p, q \in Parameters(op) : p.name = q.name => p = q
    BY DEF Supported, NoCollision
<1>4. \A p \in Parameters(op) : p.name \notin DOMAIN Body(op).fields
    <2>1. CASE op.body = Null
        BY <2>1, EmptyIsMap DEF Body
    <2>2. CASE op.body # Null
        BY <2>2 DEF Body, Supported, NoCollision
    <2>. QED BY <2>1, <2>2
<1>. QED BY <1>1, <1>2, <1>3, <1>4 DEF Parameter

\* The body of a tool has fields with types, and requires names.
LEMMA BodyIsObject ==
    ASSUME NEW op \in Operation, Supported(op)
    PROVE  Body(op).fields \in Maps /\ Body(op).required \in SUBSET Names
<1>1. CASE op.body = Null
    BY <1>1, EmptyIsMap DEF Body
<1>2. CASE op.body # Null /\ op.body.kind # "allOf"
    <2>1. op.body \in Object
        BY <1>2 DEF Operation, Schema, Member, Supported, Compiles
    <2>. QED BY <1>2, <2>1 DEF Body, Merged, Object
<1>3. CASE op.body # Null /\ op.body.kind = "allOf"
    <2>1. /\ op.body.parts \in Seq(Member) /\ op.body.fields \in {Null} \cup Maps
          /\ op.body.required \in {Null} \cup SUBSET Names
        BY <1>3 DEF Operation, Schema, Member, Object
    <2>2. Mergeable(op.body.parts)
        BY <1>3 DEF Supported, Compiles
    <2>. QED BY <1>3, <2>1, <2>2, MergedFields DEF Body, Merged
<1>. QED BY <1>1, <1>2, <1>3

\* A tool has the fields of its parameters and of its body, each with its type.
LEMMA ToolHasFields ==
    ASSUME NEW op \in Operation, Supported(op)
    PROVE  /\ Tool(op).parameters = Parameters(op) /\ Tool(op).path = op.path /\ Tool(op).whole = op.whole
           /\ Tool(op).hasBody = (op.body # Null) /\ Tool(op).body = DOMAIN Body(op).fields
           /\ Tool(op).required = {p.name : p \in {q \in Parameters(op) : q.required}} \cup Body(op).required
           /\ DOMAIN Tool(op).fields = {p.name : p \in Parameters(op)} \cup DOMAIN Body(op).fields
           /\ \A p \in Parameters(op) : Tool(op).fields[p.name] = p.type
           /\ \A n \in DOMAIN Body(op).fields : Tool(op).fields[n] = Body(op).fields[n]
           /\ Tool(op).fields \in Maps
<1>. DEFINE all == {p.name : p \in Parameters(op)} \cup DOMAIN Body(op).fields
            type(n) == IF n \in DOMAIN Body(op).fields THEN Body(op).fields[n]
                       ELSE (CHOOSE p \in Parameters(op) : p.name = n).type
<1>1. Tool(op) = [fields |-> [n \in all |-> type(n)],
                  required |-> {p.name : p \in {q \in Parameters(op) : q.required}} \cup Body(op).required,
                  parameters |-> Parameters(op), path |-> op.path, whole |-> op.whole,
                  hasBody |-> op.body # Null, body |-> DOMAIN Body(op).fields]
    BY DEF Tool, Body
<1>2. \A p \in Parameters(op) : type(p.name) = p.type
    BY ParametersApart
<1>3. \A n \in all : type(n) \in Types
    <2>1. \A n \in DOMAIN Body(op).fields : type(n) \in Types
        BY BodyIsObject DEF Maps
    <2>. QED BY <1>2, <2>1, ParametersApart
<1>4. all \in SUBSET Names
    BY ParametersApart, BodyIsObject DEF Maps
<1>5. \A n \in DOMAIN Body(op).fields : type(n) = Body(op).fields[n]
    OBVIOUS
<1>. HIDE DEF type
<1>6. [n \in all |-> type(n)] \in Maps
    <2>. HIDE DEF all
    <2>1. [n \in all |-> type(n)] \in [all -> Types]
        BY <1>3
    <2>. QED BY <1>4, <2>1 DEF Maps
<1>. QED BY <1>1, <1>2, <1>5, <1>6

\* The placeholders are the parameters in the path, which are required.
LEMMA PathIsParameters ==
    ASSUME NEW op \in Operation, Supported(op), WellDeclared(op)
    PROVE  /\ op.path = {p.name : p \in {q \in Parameters(op) : q.in = "path"}}
           /\ \A p \in Parameters(op) : p.in = "path" => p.required
<1>. DEFINE placed == {p \in op.own \cup op.shared : p.in = "path"}
<1>1. op.path = {p.name : p \in placed} /\ \A p \in placed : p.required
    BY DEF WellDeclared
<1>2. Parameters(op) \subseteq op.own \cup op.shared
    BY DEF Parameters, Collected
<1>3. \A p \in placed : \E q \in Parameters(op) : q.in = "path" /\ q.name = p.name
    BY DEF Parameters, Collected
<1>. QED BY <1>1, <1>2, <1>3

-----------------------------------------------------------------------------
(* A request and its arguments *)

\* Types are values of themselves, and a function of types is one of arguments.
LEMMA MapsAreArguments ==
    /\ \A f \in Maps : f \in Arguments
    /\ \A type \in Types : TypeOf(type) = type
<1>1. ASSUME NEW f \in Maps PROVE f \in Arguments
    <2>1. PICK D \in SUBSET Names : f \in [D -> Types]
        BY DEF Maps
    <2>2. f \in [D -> Values]
        BY <2>1 DEF Values
    <2>. QED BY <2>2 DEF Arguments
<1>. QED BY <1>1, DotsAssumption DEF TypeOf

\* Where a parameter or a field of the body goes
NamesAt(op, place) ==
    IF place = "body" THEN DOMAIN Body(op).fields
    ELSE {p.name : p \in {q \in Parameters(op) : q.in = place}}

\* Each place of a request has the arguments that go there, but a path in which dots
\* are a step has none.
LEMMA SentHasArguments ==
    ASSUME NEW op \in Operation, Supported(op), WellDeclared(op),
           NEW args \in Arguments, ValidPayload(Tool(op), args), Renders(Tool(op), args)
    PROVE  LET r == Sent(Tool(op), args) IN
           /\ r \in Request
           /\ (r.body = Null) = (op.body = Null)
           /\ (r.path = Null <=> Stepped(op, args))
           /\ r.secret = Secret
           /\ Stepped(op, args) => Given(r, "path") = << >>
           /\ \A place \in Places : ~(place = "path" /\ Stepped(op, args)) =>
                /\ DOMAIN Given(r, place) = NamesAt(op, place) \cap DOMAIN args
                /\ \A n \in DOMAIN Given(r, place) : Given(r, place)[n] = args[n]
<1>. DEFINE r == Sent(Tool(op), args)
            Part(ns) == Restrict(args, ns \cap DOMAIN args)
<1>1. /\ r.path = IF Stepped(op, args) THEN Null ELSE Restrict(args, op.path)
      /\ r.query = Part(NamesAt(op, "query")) /\ r.header = Part(NamesAt(op, "header"))
      /\ r.body = IF op.body # Null THEN Part(NamesAt(op, "body")) ELSE Null
      /\ r.secret = Secret
      /\ r = [path |-> r.path, query |-> r.query, header |-> r.header, body |-> r.body, secret |-> r.secret]
    <2>1. Dissolves(Tool(op), args) = Stepped(op, args)
        BY ToolHasFields DEF Dissolves, Stepped
    <2>. QED BY <2>1, ToolHasFields DEF Sent, NamesAt
<1>2. op.path \subseteq DOMAIN args /\ NamesAt(op, "path") = op.path
    BY ToolHasFields, PathIsParameters DEF Renders, NamesAt
<1>3. \A ns : Part(ns) \in Arguments /\ DOMAIN Part(ns) = ns \cap DOMAIN args /\ \A n \in DOMAIN Part(ns) : Part(ns)[n] = args[n]
    <2>. SUFFICES ASSUME NEW ns
                  PROVE  /\ Part(ns) \in Arguments /\ DOMAIN Part(ns) = ns \cap DOMAIN args
                         /\ \A n \in DOMAIN Part(ns) : Part(ns)[n] = args[n]
        OBVIOUS
    <2>1. DOMAIN args \in SUBSET Names /\ \A n \in DOMAIN args : args[n] \in Values
        BY DEF Arguments
    <2>2. Part(ns) = [n \in ns \cap DOMAIN args |-> args[n]]
        BY DEF Restrict
    <2>. HIDE DEF Part
    <2>3. Part(ns) \in [ns \cap DOMAIN args -> Values] /\ ns \cap DOMAIN args \in SUBSET Names
        BY <2>1, <2>2
    <2>. QED BY <2>2, <2>3 DEF Arguments
<1>4. r.path = IF Stepped(op, args) THEN Null ELSE Part(op.path)
    BY <1>1, <1>2 DEF Restrict
<1>. HIDE DEF r, Part
<1>5. Null \notin Arguments
    BY NullAssumption
<1>6. (r.body = Null) = (op.body = Null) /\ (r.path = Null <=> Stepped(op, args))
    BY <1>1, <1>3, <1>4, <1>5
<1>7. r \in Request
    <2>1. r.path \in {Null} \cup Arguments /\ r.query \in Arguments /\ r.header \in Arguments
        BY <1>1, <1>3, <1>4
    <2>2. r.body \in {Null} \cup Arguments /\ r.secret \in {Null} \cup Secrets
        BY <1>1, <1>3, SecretAssumption
    <2>. QED BY <1>1, <2>1, <2>2 DEF Request
<1>8. op.body = Null => Given(r, "body") = << >> /\ NamesAt(op, "body") = {}
    BY <1>1, EmptyIsMap DEF Given, NamesAt, Body
<1>9. /\ ~Stepped(op, args) => Given(r, "path") = Part(NamesAt(op, "path"))
      /\ Stepped(op, args) => Given(r, "path") = << >>
      /\ Given(r, "query") = Part(NamesAt(op, "query"))
      /\ Given(r, "header") = Part(NamesAt(op, "header"))
      /\ op.body # Null => Given(r, "body") = Part(NamesAt(op, "body"))
    BY <1>1, <1>2, <1>3, <1>4, <1>5 DEF Given
<1>10. ASSUME NEW place \in Places, ~(place = "path" /\ Stepped(op, args))
       PROVE  /\ DOMAIN Given(r, place) = NamesAt(op, place) \cap DOMAIN args
              /\ \A n \in DOMAIN Given(r, place) : Given(r, place)[n] = args[n]
    <2>1. CASE Given(r, place) = Part(NamesAt(op, place))
        BY <1>3, <2>1
    <2>2. CASE place = "body" /\ op.body = Null
        BY <1>8, <2>2, EmptyIsMap
    <2>. QED BY <1>9, <1>10, <2>1, <2>2 DEF Places
<1>. QED BY <1>1, <1>6, <1>7, <1>9, <1>10 DEF r

\* Every argument is in one place, unless the path takes it for a step.
LEMMA ArgumentsHavePlaces ==
    ASSUME NEW op \in Operation, Supported(op), WellDeclared(op),
           NEW args \in Arguments, ValidPayload(Tool(op), args), Renders(Tool(op), args)
    PROVE  LET r == Sent(Tool(op), args) IN
           /\ \A place \in Places : DOMAIN Given(r, place) \subseteq DOMAIN args
           /\ \A n \in DOMAIN args : ~(n \in op.path /\ Stepped(op, args)) => \E place \in Places :
                /\ n \in DOMAIN Given(r, place)
                /\ Given(r, place)[n] = args[n]
                /\ \A other \in Places \ {place} : n \notin DOMAIN Given(r, other)
<1>. DEFINE r == Sent(Tool(op), args)
<1>1. \A place \in Places : ~(place = "path" /\ Stepped(op, args)) =>
        /\ DOMAIN Given(r, place) = NamesAt(op, place) \cap DOMAIN args
        /\ \A n \in DOMAIN Given(r, place) : Given(r, place)[n] = args[n]
    BY SentHasArguments
<1>2. Stepped(op, args) => DOMAIN Given(r, "path") = {}
    BY SentHasArguments, EmptyIsMap
<1>3. \A n \in DOMAIN args : \E place \in Places : n \in NamesAt(op, place)
    <2>. SUFFICES ASSUME NEW n \in DOMAIN args PROVE \E place \in Places : n \in NamesAt(op, place)
        OBVIOUS
    <2>1. n \in DOMAIN Tool(op).fields
        BY DEF ValidPayload
    <2>2. CASE n \in DOMAIN Body(op).fields
        BY <2>2 DEF Places, NamesAt
    <2>3. CASE \E p \in Parameters(op) : p.name = n
        <3>1. PICK p \in Parameters(op) : p.name = n
            BY <2>3
        <3>2. p.in \in Places /\ p.in # "body"
            BY ParametersApart DEF Places
        <3>. QED BY <3>1, <3>2 DEF NamesAt
    <2>. QED BY <2>1, <2>2, <2>3, ToolHasFields
<1>4. \A place, other \in Places : place # other => NamesAt(op, place) \cap NamesAt(op, other) = {}
    BY ParametersApart DEF NamesAt
<1>5. NamesAt(op, "path") = op.path
    BY PathIsParameters DEF NamesAt
<1>. HIDE DEF r
<1>6. \A n \in DOMAIN args : ~(n \in op.path /\ Stepped(op, args)) => \E place \in Places :
        /\ n \in DOMAIN Given(r, place)
        /\ Given(r, place)[n] = args[n]
        /\ \A other \in Places \ {place} : n \notin DOMAIN Given(r, other)
    <2>. SUFFICES ASSUME NEW n \in DOMAIN args, ~(n \in op.path /\ Stepped(op, args))
                  PROVE  \E place \in Places :
                            /\ n \in DOMAIN Given(r, place) /\ Given(r, place)[n] = args[n]
                            /\ \A other \in Places \ {place} : n \notin DOMAIN Given(r, other)
        OBVIOUS
    <2>1. PICK place \in Places : n \in NamesAt(op, place)
        BY <1>3
    <2>2. n \in DOMAIN Given(r, place) /\ Given(r, place)[n] = args[n]
        BY <1>1, <1>5, <2>1
    <2>3. ASSUME NEW other \in Places \ {place} PROVE n \notin DOMAIN Given(r, other)
        BY <1>2, <1>1, <1>4, <2>1
    <2>. QED BY <2>2, <2>3
<1>. QED BY <1>2, <1>1, <1>6 DEF r

\* What a schema without exceptions asks of a body is what the compiled one does.
LEMMA StraightIsMerged ==
    ASSUME NEW op \in Operation, Supported(op), op.body # Null, Straight(op.body)
    PROVE  /\ \A i \in DOMAIN Members(op.body) :
            /\ Members(op.body)[i].required \subseteq Body(op).required
            /\ Members(op.body)[i].required \subseteq DOMAIN Body(op).fields
            /\ \A n \in DOMAIN Members(op.body)[i].fields :
                n \in DOMAIN Body(op).fields /\ Body(op).fields[n] = Members(op.body)[i].fields[n]
           /\ Body(op).required \subseteq DOMAIN Body(op).fields
<1>1. CASE op.body.kind # "allOf"
    <2>1. Body(op) = op.body /\ Members(op.body) = <<op.body>>
        BY <1>1 DEF Body, Merged, Members
    <2>2. DOMAIN Members(op.body) = {1} /\ Members(op.body)[1] = op.body
        BY <2>1
    <2>3. op.body.required \subseteq DOMAIN op.body.fields
        BY <2>2 DEF Straight
    <2>. QED BY <2>1, <2>2, <2>3
<1>2. CASE op.body.kind = "allOf"
    <2>. DEFINE parts == op.body.parts
                rest == [kind |-> "object", fields |-> << >>, required |-> {}]
    <2>1. parts \in Seq(Member) /\ Mergeable(parts)
        BY <1>2 DEF Operation, Schema, Member, Object, Supported, Compiles
    <2>2. op.body.fields = Null /\ op.body.required = Null
        BY <1>2 DEF Straight, KeysBesideAllOf
    <2>3. Members(op.body) = Append(parts, rest)
        BY <1>2, <2>2 DEF Members
    <2>4. Body(op).fields = Fields(parts) /\ Body(op).required = Required(parts)
        BY <1>2, <2>2 DEF Body, Merged
    <2>5. \A i \in DOMAIN Members(op.body) :
            \/ i \in DOMAIN parts /\ Members(op.body)[i] = parts[i]
            \/ Members(op.body)[i] = rest
        <3>. HIDE DEF parts, rest
        <3>. QED BY <2>1, <2>3
    <2>6. UNION {DOMAIN Members(op.body)[j].fields : j \in DOMAIN Members(op.body)} \subseteq DOMAIN Fields(parts)
        <3>1. DOMAIN rest.fields = {}
            BY EmptyIsMap
        <3>2. DOMAIN Fields(parts) = UNION {DOMAIN parts[i].fields : i \in DOMAIN parts}
            BY <2>1, MergedFields
        <3>. HIDE DEF parts, rest
        <3>. QED BY <2>5, <3>1, <3>2
    <2>7. \A i \in DOMAIN Members(op.body) : Members(op.body)[i].required \subseteq DOMAIN Fields(parts)
        BY <2>6 DEF Straight
    <2>8. \A i \in DOMAIN parts : parts[i].required \subseteq Required(parts)
        BY DEF Required
    <2>9. \A i \in DOMAIN parts : \A n \in DOMAIN parts[i].fields :
            n \in DOMAIN Fields(parts) /\ Fields(parts)[n] = parts[i].fields[n]
        BY <2>1, MergedFields
    <2>10. DOMAIN rest.fields = {} /\ rest.required = {}
        BY EmptyIsMap
    <2>. HIDE DEF parts, rest
    <2>11. \A i \in DOMAIN parts : i \in DOMAIN Members(op.body) /\ Members(op.body)[i] = parts[i]
        BY <2>1, <2>3
    <2>12. Required(parts) \subseteq DOMAIN Fields(parts)
        BY <2>7, <2>11 DEF Required
    <2>. QED BY <2>4, <2>5, <2>7, <2>8, <2>9, <2>10, <2>12
<1>. QED BY <1>1, <1>2

\* A request is one that its operation allows.
LEMMA SentMeets ==
    ASSUME NEW op \in Operation, Supported(op), WellDeclared(op), Straight(op.body),
           NEW args \in Arguments, ValidPayload(Tool(op), args), Renders(Tool(op), args),
           ~Stepped(op, args), \A p \in Declared(op) : Secret # [in |-> p.in, name |-> p.name]
    PROVE  Meets(op, Sent(Tool(op), args))
<1>. DEFINE r == Sent(Tool(op), args)
<1>1. /\ r \in Request
      /\ (r.body = Null) = (op.body = Null) /\ r.path # Null /\ r.secret = Secret
      /\ \A place \in Places :
            /\ DOMAIN Given(r, place) = NamesAt(op, place) \cap DOMAIN args
            /\ \A n \in DOMAIN Given(r, place) : Given(r, place)[n] = args[n]
    BY SentHasArguments
<1>. HIDE DEF r
<1>2. \A place \in {"path", "query", "header"} : Given(r, place) = r[place]
    BY <1>1, NullAssumption DEF Given, Request
<1>3. \A place \in {"path", "query", "header"} :
        /\ DOMAIN r[place] = {p.name : p \in {q \in Parameters(op) : q.in = place}} \cap DOMAIN args
        /\ \A n \in DOMAIN r[place] : r[place][n] = args[n]
    BY <1>1, <1>2 DEF Places, NamesAt
<1>4. Tool(op).required \subseteq DOMAIN args /\ \A n \in DOMAIN args : TypeOf(args[n]) = Tool(op).fields[n]
    BY DEF ValidPayload
<1>5. Declared(op) = Collected(op)
    BY DEF Declared, Collected
<1>6. ASSUME NEW p \in Declared(op)
      PROVE  /\ p.required /\ (p.in = "header" => p.name \in Exposed) => p.name \in DOMAIN r[p.in]
             /\ p.name \in DOMAIN r[p.in] =>
                    TypeOf(r[p.in][p.name]) = p.type /\ r.secret # [in |-> p.in, name |-> p.name]
    <2>1. CASE p \in Parameters(op)
        <3>1. p.in \in {"path", "query", "header"}
            BY <2>1, ParametersApart
        <3>2. p.required => p.name \in DOMAIN args
            BY <1>4, <2>1, ToolHasFields
        <3>3. p.name \in DOMAIN args => TypeOf(args[p.name]) = p.type
            BY <1>4, <2>1, ToolHasFields
        <3>. QED BY <1>1, <1>3, <2>1, <3>1, <3>2, <3>3
    <2>2. CASE p \notin Parameters(op)
        <3>1. p.in = "header" /\ p.name \notin Exposed
            BY <1>5, <2>2 DEF Parameters
        <3>2. \A q \in Parameters(op) : q.in = "header" => q.name \in Exposed
            BY DEF Parameters
        <3>3. p.name \notin DOMAIN r[p.in]
            BY <1>3, <3>1, <3>2
        <3>. QED BY <3>1, <3>3
    <2>. QED BY <2>1, <2>2
<1>7. ASSUME NEW place \in {"path", "query", "header"}, NEW n \in DOMAIN r[place]
      PROVE  \E p \in Declared(op) : p.name = n /\ p.in = place
    <2>1. Parameters(op) \subseteq Declared(op)
        BY <1>5 DEF Parameters
    <2>. QED BY <1>3, <2>1
<1>8. ASSUME op.body # Null PROVE r.body # Null /\ BodyMeets(op.body, r.body)
    <2>1. r.body # Null /\ Given(r, "body") = r.body
        BY <1>1, <1>8 DEF Given
    <2>2. /\ DOMAIN r.body = DOMAIN Body(op).fields \cap DOMAIN args
          /\ \A n \in DOMAIN r.body : r.body[n] = args[n]
        BY <1>1, <2>1 DEF Places, NamesAt
    <2>3. Body(op).required \subseteq DOMAIN args
        BY <1>4, ToolHasFields
    <2>4. \A n \in DOMAIN r.body : TypeOf(r.body[n]) = Body(op).fields[n]
        BY <1>4, <2>2, ToolHasFields
    <2>5. ASSUME NEW i \in DOMAIN Members(op.body)
          PROVE  /\ Members(op.body)[i].required \subseteq DOMAIN r.body
                 /\ \A n \in DOMAIN Members(op.body)[i].fields \cap DOMAIN r.body :
                        TypeOf(r.body[n]) = Members(op.body)[i].fields[n]
        BY <1>8, <2>2, <2>3, <2>4, StraightIsMerged
    <2>. QED BY <2>1, <2>5 DEF BodyMeets
<1>9. op.body = Null => r.body = Null
    BY <1>1
<1>. QED BY <1>1, <1>6, <1>7, <1>8, <1>9 DEF Meets, r

\* All arguments there are can be given, if what is required is among them.
LEMMA StraightIsCallable ==
    ASSUME NEW op \in Operation, Supported(op), WellDeclared(op), Straight(op.body)
    PROVE  /\ Tool(op).required \subseteq DOMAIN Tool(op).fields
           /\ Tool(op).path \subseteq Tool(op).required
<1>1. Body(op).required \subseteq DOMAIN Body(op).fields
    <2>1. CASE op.body = Null
        BY <2>1 DEF Body
    <2>2. CASE op.body # Null
        BY <2>2, StraightIsMerged
    <2>. QED BY <2>1, <2>2
<1>2. {p.name : p \in {q \in Parameters(op) : q.in = "path"}} \subseteq {p.name : p \in {q \in Parameters(op) : q.required}}
    BY PathIsParameters
<1>. QED BY <1>1, <1>2, ToolHasFields, PathIsParameters

-----------------------------------------------------------------------------
(* The compiler *)

\* The operations of a document are of OpenAPI.
LEMMA OperationsAreDeclared ==
    ASSUME document \in Apis, NEW i \in 1..Len(document)
    PROVE  document[i] \in Operation /\ WellDeclared(document[i]) /\ document[i].name \in Nat
<1>1. document \in Seq(Operation) /\ i \in DOMAIN document
    BY ApisAssumption
<1>2. document[i] \in Operation
    BY <1>1
<1>3. WellDeclared(document[i])
    BY <1>1, OpenApiAssumption
<1>. QED BY <1>2, <1>3 DEF Operation

\* An indexed tool is of an operation there is.
LEMMA IndexedIsDeclared ==
    ASSUME CompilerInductive, NEW n \in DOMAIN index
    PROVE  LET op == document[index[n].nth] IN
           /\ index[n].nth \in Nat /\ op \in Operation /\ WellDeclared(op) /\ Supported(op)
           /\ index[n].tool = Tool(op)
<1>1. index[n].nth \in 1..done /\ done \in 0..Len(document) /\ document \in Apis
    BY DEF CompilerInductive, IndexIsCompiled, CompilerTypeOK
<1>2. Len(document) \in Nat
    BY <1>1, ApisAssumption
<1>3. index[n].nth \in 1..Len(document)
    BY <1>1, <1>2
<1>. QED BY <1>1, <1>3, OperationsAreDeclared DEF CompilerInductive, IndexIsCompiled

\* In the end the list is put in order; it has the same tools as before.
LEMMA InOrderKeeps ==
    ASSUME NEW list \in Seq(Nat), IsInjective(list)
    PROVE  /\ InOrder(list) \in Seq(Nat) /\ ToSet(InOrder(list)) = ToSet(list) /\ IsInjective(InOrder(list))
           /\ done + 1 = Len(document) =>
                \A i, j \in DOMAIN InOrder(list) : i < j => InOrder(list)[i] < InOrder(list)[j]
<1>1. list \in Surjection(1..Len(list), ToSet(list))
    BY DEF Surjection, ToSet
<1>2. IsFiniteSet(ToSet(list))
    BY <1>1, FS_Surjection, FS_Interval
<1>3. ToSet(list) \in SUBSET Nat
    BY DEF ToSet
<1>. QED BY <1>2, <1>3, SortedInOrder DEF InOrder

\* A tool with a new name is added to the list.
LEMMA AppendAdds ==
    ASSUME NEW list \in Seq(Nat), IsInjective(list), NEW n \in Nat, n \notin ToSet(list)
    PROVE  /\ Append(list, n) \in Seq(Nat) /\ ToSet(Append(list, n)) = ToSet(list) \cup {n}
           /\ IsInjective(Append(list, n))
<1>1. Append(list, n) \in Seq(Nat) /\ DOMAIN Append(list, n) = 1..(Len(list) + 1)
    OBVIOUS
<1>2. \A i \in 1..(Len(list) + 1) : Append(list, n)[i] = IF i <= Len(list) THEN list[i] ELSE n
    OBVIOUS
<1>3. DOMAIN list = 1..Len(list) /\ Len(list) \in Nat
    OBVIOUS
<1>4. ToSet(Append(list, n)) = ToSet(list) \cup {n}
    BY <1>1, <1>2, <1>3 DEF ToSet
<1>5. IsInjective(Append(list, n))
    BY <1>1, <1>2, <1>3 DEF IsInjective, ToSet
<1>. QED BY <1>1, <1>4, <1>5

\* The next operation is hidden, warned of or made a tool.
LEMMA OperationKeeps ==
    ASSUME CompilerInductive, CompileNext
    PROVE  CompilerInductive'
<1>. DEFINE op == document[done + 1]
<1>1. /\ document \in Apis /\ document' = document /\ call' = call
      /\ done \in Nat /\ done < Len(document) /\ done' = done + 1 /\ done' \in 0..Len(document)
      /\ tools \in Seq(Nat) /\ ToSet(tools) = DOMAIN index /\ IsInjective(tools)
      /\ Len(document) \in Nat
    <2>1. document \in Apis /\ done \in 0..Len(document) /\ Len(document) \in Nat
        BY ApisAssumption DEF CompilerInductive, CompilerTypeOK
    <2>. QED BY <2>1 DEF CompilerInductive, CompilerTypeOK, CompileNext
<1>2. op \in Operation /\ op.name \in Nat /\ done + 1 \in 1..Len(document)
    BY <1>1, OperationsAreDeclared
<1>3. CASE tools' = InOrder(tools) /\ index' = index /\ (Skipped(op) \/ done + 1 \in warnings') /\ warnings \subseteq warnings'
    <2>1. /\ tools' \in Seq(Nat) /\ ToSet(tools') = DOMAIN index' /\ IsInjective(tools')
          /\ done' = Len(document) => \A i, j \in DOMAIN tools' : i < j => tools'[i] < tools'[j]
        BY <1>1, <1>3, InOrderKeeps
    <2>2. \A i \in 1..done' : i \in 1..done \/ i = done + 1
        BY <1>1
    <2>3. \A i \in 1..done' :
            \/ document[i].hidden
            \/ i \in warnings'
            \/ document[i].name \in DOMAIN index' /\ index'[document[i].name].nth = i
        BY <1>3, <2>2 DEF CompilerInductive, CompilerTypeOK, Skipped
    <2>4. CompilerTypeOK'
        BY <1>1, <2>1, <2>3 DEF CompilerTypeOK
    <2>5. IndexIsCompiled'
        BY <1>1, <1>3 DEF CompilerInductive, IndexIsCompiled
    <2>6. CallWasValid'
        BY <1>1, <1>3 DEF CompilerInductive, CallWasValid
    <2>. QED BY <2>4, <2>5, <2>6 DEF CompilerInductive
<1>4. CASE /\ Supported(op) /\ ~Taken(op) /\ tools' = InOrder(Append(tools, op.name))
           /\ index' = [n \in DOMAIN index \cup {op.name} |->
                            IF n = op.name THEN [nth |-> done + 1, tool |-> Tool(op)] ELSE index[n]]
           /\ UNCHANGED warnings
    <2>. HIDE DEF op
    <2>1. /\ DOMAIN index' = DOMAIN index \cup {op.name} /\ op.name \notin DOMAIN index
          /\ index'[op.name].nth = done + 1 /\ index'[op.name].tool = Tool(op)
          /\ \A n \in DOMAIN index : index'[n] = index[n]
        BY <1>4 DEF Taken
    <2>2. /\ Append(tools, op.name) \in Seq(Nat) /\ IsInjective(Append(tools, op.name))
          /\ ToSet(Append(tools, op.name)) = ToSet(tools) \cup {op.name}
        BY <1>1, <1>2, <2>1, AppendAdds
    <2>3. /\ tools' \in Seq(Nat) /\ ToSet(tools') = DOMAIN index' /\ IsInjective(tools')
          /\ done' = Len(document) => \A i, j \in DOMAIN tools' : i < j => tools'[i] < tools'[j]
        BY <1>1, <1>4, <2>1, <2>2, InOrderKeeps
    <2>4. \A i \in 1..done' : i \in 1..done \/ i = done + 1
        BY <1>1
    <2>5. \A i \in 1..done' :
            \/ document[i].hidden
            \/ i \in warnings'
            \/ document[i].name \in DOMAIN index' /\ index'[document[i].name].nth = i
        BY <1>4, <2>1, <2>4 DEF CompilerInductive, CompilerTypeOK, op
    <2>6. CompilerTypeOK'
        BY <1>1, <2>3, <2>5 DEF CompilerTypeOK
    <2>7. IndexIsCompiled'
        BY <1>1, <1>2, <1>4, <2>1 DEF CompilerInductive, IndexIsCompiled, op
    <2>8. CallWasValid'
        BY <1>1, <2>1 DEF CompilerInductive, CallWasValid
    <2>. QED BY <2>6, <2>7, <2>8 DEF CompilerInductive
<1>. QED BY <1>3, <1>4 DEF CompileNext

\* A call leaves what is compiled alone.
LEMMA ExecuteKeeps ==
    ASSUME CompilerInductive, NEW n \in DOMAIN index, NEW args \in Arguments, Execute(n, args)
    PROVE  CompilerInductive' /\ call' \in Called
<1>1. UNCHANGED <<document, done, tools, index, warnings>>
    BY DEF Execute
<1>2. /\ ValidPayload(index[n].tool, args) /\ Renders(index[n].tool, args)
      /\ call' = [nth |-> index[n].nth, args |-> args, request |-> Sent(index[n].tool, args)]
    BY DEF Execute
<1>3. CallWasValid'
    BY <1>1, <1>2 DEF CallWasValid
<1>4. Sent(index[n].tool, args) \in Request
    BY <1>2, IndexedIsDeclared, SentHasArguments
<1>5. call' \in Called
    BY <1>2, <1>4, IndexedIsDeclared DEF Called
<1>6. CompilerTypeOK' /\ IndexIsCompiled'
    BY <1>1 DEF CompilerInductive, CompilerTypeOK, IndexIsCompiled
<1>. QED BY <1>3, <1>5, <1>6 DEF CompilerInductive

\* CompileNext and Execute keep the invariant.
LEMMA CompilerInductiveStep ==
    CompilerInductive /\ [CompilerNext]_compilerVars => CompilerInductive'
<1>. SUFFICES ASSUME CompilerInductive, [CompilerNext]_compilerVars PROVE CompilerInductive'
    OBVIOUS
<1>1. CASE CompileNext
    BY <1>1, OperationKeeps
<1>2. ASSUME NEW name \in DOMAIN index, NEW args \in Arguments, Execute(name, args) PROVE CompilerInductive'
    BY <1>2, ExecuteKeeps
<1>3. CASE UNCHANGED compilerVars
    BY <1>3 DEF compilerVars, CompilerInductive, CompilerTypeOK, IndexIsCompiled, CallWasValid
<1>. QED BY <1>1, <1>2, <1>3 DEF CompilerNext

\* It holds before the first operation.
LEMMA CompilerInductiveInit == CompilerInit => CompilerInductive
<1>. SUFFICES ASSUME CompilerInit PROVE CompilerInductive
    OBVIOUS
<1>1. document \in Seq(Operation) /\ done = 0 /\ Len(document) \in Nat
    BY ApisAssumption DEF CompilerInit
<1>2. tools \in Seq(Nat) /\ DOMAIN tools = {} /\ DOMAIN index = {} /\ call = Null
    BY EmptyIsMap DEF CompilerInit
<1>3. ToSet(tools) = {} /\ IsInjective(tools)
    BY <1>2 DEF ToSet, IsInjective
<1>4. 1..0 = {}
    OBVIOUS
<1>. QED BY <1>1, <1>2, <1>3, <1>4
         DEF CompilerInit, CompilerInductive, CompilerTypeOK, IndexIsCompiled, CallWasValid

\* What the invariant says of a call
LEMMA CallIsOfOperation ==
    ASSUME CompilerInductive, call # Null
    PROVE  LET op == document[call.nth] IN
           /\ op \in Operation /\ WellDeclared(op) /\ Supported(op) /\ call.args \in Arguments
           /\ ValidPayload(Tool(op), call.args) /\ Renders(Tool(op), call.args)
           /\ call.request = Sent(Tool(op), call.args)
BY IndexedIsDeclared DEF CompilerInductive, CallWasValid

\* The properties of the run follow from it, each from what was shown of the operators.
LEMMA RequestsMeet == CompilerInductive => RequestMeets
BY CallIsOfOperation, SentMeets DEF RequestMeets

\* By ArgumentsHavePlaces of the tool that was called.
LEMMA CallsArrive == CompilerInductive => ArgumentsArrive
<1>. SUFFICES ASSUME CompilerInductive, call # Null PROVE ArgumentsArrive
    BY DEF ArgumentsArrive
<1>. QED BY CallIsOfOperation, ArgumentsHavePlaces, SentHasArguments DEF ArgumentsArrive

\* A tool's fields themselves, with their types for values, are such arguments.
LEMMA ToolsCanBeCalled == CompilerInductive => ToolsAreCallable
<1>. SUFFICES ASSUME CompilerInductive, NEW n \in DOMAIN index, Straight(document[index[n].nth].body)
              PROVE  \E args \in Arguments : ValidPayload(index[n].tool, args) /\ Renders(index[n].tool, args)
    BY DEF ToolsAreCallable
<1>. DEFINE tool == index[n].tool
<1>1. tool.required \subseteq DOMAIN tool.fields /\ tool.path \subseteq tool.required /\ tool.fields \in Maps
    BY IndexedIsDeclared, StraightIsCallable, ToolHasFields
<1>2. tool.fields \in Arguments /\ \A m \in DOMAIN tool.fields : TypeOf(tool.fields[m]) = tool.fields[m]
    BY <1>1, MapsAreArguments DEF Maps
<1>3. ValidPayload(tool, tool.fields) /\ Renders(tool, tool.fields)
    BY <1>1, <1>2 DEF ValidPayload, Renders
<1>. QED BY <1>2, <1>3

\* The compiler and the calls it serves keep their inductive invariant, whoever calls.
THEOREM CompilerInductiveHolds == CompilerSpec => []CompilerInductive
BY CompilerInductiveInit, CompilerInductiveStep, PTL DEF CompilerSpec

-----------------------------------------------------------------------------
(* The CLI *)

\* What the CLI sends and the sidecar validates is a call as any other.
LEMMA RunsIsCompilerStep ==
    ASSUME CompilerInductive, NEW name \in DOMAIN index, NEW l \in Lines, Runs(name, l.flags, l.json)
    PROVE  LET payload == Payload(index[name].tool, l.flags, l.json) IN
           \/ payload \in Arguments /\ Execute(name, payload)
           \/ ~Serves(index[name].tool, payload) /\ UNCHANGED compilerVars
<1>. DEFINE tool == index[name].tool
            payload == Payload(tool, l.flags, l.json)
<1>1. CASE Serves(tool, payload)
    <2>1. tool.fields \in Maps
        BY IndexedIsDeclared, ToolHasFields
    <2>2. /\ DOMAIN payload \subseteq DOMAIN tool.fields
          /\ \A n \in DOMAIN payload : payload[n] = tool.fields[n] \/ payload[n] = Dots
        BY <1>1 DEF Serves, ValidPayload, TypeOf
    <2>3. payload = [n \in DOMAIN payload |-> payload[n]]
        BY DEF Payload
    <2>. HIDE DEF payload
    <2>4. payload \in [DOMAIN payload -> Values] /\ DOMAIN payload \in SUBSET Names
        BY <2>1, <2>2, <2>3 DEF Maps, Values
    <2>5. payload \in Arguments
        BY <2>4 DEF Arguments
    <2>. QED BY <1>1, <2>5 DEF Runs, payload
<1>2. CASE ~Serves(tool, payload)
    BY <1>2 DEF Runs
<1>. QED BY <1>1, <1>2

\* The values that flags are parsed to are those the schema asks for, unless a list
\* is asked for.
LEMMA ArgumentsHaveType ==
    ASSUME NEW type \in Types, NEW text \in Texts, Argument(type, text) # Null
    PROVE  /\ \/ Argument(type, text) = Meant(type, text) /\ TypeOf(Argument(type, text)) = type
              \/ type = "array" /\ text # "list"
           /\ text = "dots" => type = "string"
<1>1. type \in {"string", "integer", "array"}
    BY TypesAssumption
<1>2. CASE type = "string"
    BY <1>2, DotsAssumption DEF Argument, ArgumentValue, Set, Meant, TypeOf, Texts
<1>3. CASE type = "integer"
    BY <1>3, DotsAssumption DEF Argument, ArgumentValue, Set, Meant, TypeOf, Texts
<1>4. CASE type = "array"
    BY <1>4, DotsAssumption DEF Argument, ArgumentValue, Set, Meant, TypeOf, Texts
<1>. QED BY <1>1, <1>2, <1>3, <1>4

\* Every type has a text that is parsed to it.
TextOf(type) == CASE type = "integer" -> "digits" [] type = "array" -> "list" [] OTHER -> "word"

\* Of every type there is a text that is parsed as it.
LEMMA TypesHaveTexts ==
    ASSUME NEW type \in Types
    PROVE  TextOf(type) \in Texts /\ Argument(type, TextOf(type)) = type
<1>1. type \in {"string", "integer", "array"}
    BY TypesAssumption
<1>2. CASE type = "string"
    BY <1>2 DEF TextOf, Texts, Argument, ArgumentValue, Set
<1>3. CASE type = "integer"
    BY <1>3 DEF TextOf, Texts, Argument, ArgumentValue, Set
<1>4. CASE type = "array"
    BY <1>4 DEF TextOf, Texts, Argument, ArgumentValue, Set
<1>. QED BY <1>1, <1>2, <1>3, <1>4

\* A line either is sent with all it says, or holds something the CLI cannot judge.
LEMMA LineArrives ==
    ASSUME CompilerInductive, NEW name \in DOMAIN index, NEW l \in Lines, Runs(name, l.flags, l.json)
    PROVE  FlagsArrive'
<1>. DEFINE tool == index[name].tool
            fields == tool.fields
            own == Bound(tool, l.flags)
            others == IF l.json = Null THEN {} ELSE DOMAIN l.json \ own
            payload == Payload(tool, l.flags, l.json)
<1>1. PICK op \in Operation :
        WellDeclared(op) /\ Supported(op) /\ tool = Tool(op)
    BY IndexedIsDeclared
<1>2. fields \in Maps /\ tool.path \subseteq tool.required /\ tool.path = op.path
    <2>1. tool.path = op.path /\ tool.required = {p.name : p \in {q \in Parameters(op) : q.required}} \cup Body(op).required
        BY <1>1, ToolHasFields
    <2>. QED BY <1>1, <2>1, ToolHasFields, PathIsParameters
<1>3. /\ call = Null /\ Sends(tool, l.flags, l.json)
      /\ line' = [name |-> name, flags |-> l.flags, json |-> l.json] /\ index' = index
    BY DEF Runs, Execute, compilerVars
<1>4. l.flags \in Flags /\ l.json \in {Null} \cup Arguments
    BY LinesAssumption
<1>5. /\ DOMAIN payload = own \cup others
      /\ \A n \in own : payload[n] = Argument(fields[n], l.flags[n])
      /\ \A n \in others : payload[n] = l.json[n]
    BY EmptyIsMap DEF Payload
<1>6. \A n \in own :
        /\ \/ payload[n] = Meant(fields[n], l.flags[n]) /\ TypeOf(payload[n]) = fields[n]
           \/ fields[n] = "array" /\ l.flags[n] # "list"
        /\ l.flags[n] = "dots" => fields[n] = "string"
    <2>. SUFFICES ASSUME NEW n \in own
                  PROVE  /\ \/ payload[n] = Meant(fields[n], l.flags[n]) /\ TypeOf(payload[n]) = fields[n]
                            \/ fields[n] = "array" /\ l.flags[n] # "list"
                         /\ l.flags[n] = "dots" => fields[n] = "string"
        OBVIOUS
    <2>1. fields[n] \in Types /\ l.flags[n] \in Texts
        BY <1>2, <1>4 DEF Maps, Flags, Bound
    <2>2. Argument(fields[n], l.flags[n]) # Null
        BY <1>3 DEF Sends
    <2>. QED BY <1>5, <2>1, <2>2, ArgumentsHaveType
<1>7. CASE payload \in Arguments /\ Execute(name, payload)
    <2>1. call' \in Called
        BY <1>7, ExecuteKeeps
    <2>2. /\ call' # Null /\ ValidPayload(tool, payload) /\ Renders(tool, payload)
          /\ call'.request = Sent(tool, payload) /\ call'.args = payload
          /\ document'[call'.nth] = document[index[name].nth]
        BY <1>7, <2>1, NullAssumption DEF Execute
    <2>. DEFINE dest == document[index[name].nth]
                lost == IF Stepped(dest, payload) THEN dest.path ELSE {}
                Comes(n, value) ==
                    \E part \in {"path", "query", "header", "body"} :
                        /\ call'.request[part] # Null /\ n \in DOMAIN call'.request[part]
                        /\ call'.request[part][n] = value
    <2>3. dest \in Operation /\ WellDeclared(dest) /\ Supported(dest) /\ tool = Tool(dest)
        BY IndexedIsDeclared
    <2>4. \A n \in DOMAIN payload \ lost : Comes(n, payload[n])
        <3>. SUFFICES ASSUME NEW n \in DOMAIN payload \ lost PROVE Comes(n, payload[n])
            OBVIOUS
        <3>1. ~(n \in dest.path /\ Stepped(dest, payload))
            OBVIOUS
        <3>2. PICK place \in Places :
                n \in DOMAIN Given(call'.request, place) /\ Given(call'.request, place)[n] = payload[n]
            BY <1>7, <2>2, <2>3, <3>1, ArgumentsHavePlaces
        <3>3. call'.request[place] # Null /\ Given(call'.request, place) = call'.request[place]
            BY <3>2, EmptyIsMap DEF Given
        <3>. QED BY <3>2, <3>3 DEF Places
    <2>5. \A n \in own : payload[n] = Meant(fields[n], l.flags[n])
        <3>. SUFFICES ASSUME NEW n \in own PROVE payload[n] = Meant(fields[n], l.flags[n])
            OBVIOUS
        <3>1. TypeOf(payload[n]) = fields[n]
            BY <1>5, <2>2 DEF ValidPayload
        <3>2. CASE fields[n] = "array" /\ l.flags[n] # "list"
            <4>1. l.flags[n] # "dots"
                BY <1>6, <3>2
            <4>. QED BY <3>1, <3>2, <4>1 DEF TypeOf, Meant
        <3>. QED BY <1>6, <3>2
    <2>. HIDE DEF lost, Comes
    <2>6. (\A n \in own \ lost : Comes(n, Meant(fields[n], l.flags[n]))) /\ (\A n \in others \ lost : Comes(n, l.json[n]))
        BY <1>5, <2>4, <2>5
    <2>. HIDE DEF own, others
    <2>. QED BY <1>3, <2>2, <2>6 DEF FlagsArrive, Arrives, lost, Comes, own, others, Stepped
<1>8. CASE ~Serves(tool, payload) /\ UNCHANGED compilerVars
    <2>1. tool.required \subseteq DOMAIN payload
        BY <1>3 DEF Sends, Missing
    <2>2. Renders(tool, payload)
        BY <1>2, <2>1 DEF Renders
    <2>3. PICK n \in DOMAIN payload : n \notin DOMAIN fields \/ TypeOf(payload[n]) # fields[n]
        BY <1>8, <2>1, <2>2 DEF Serves, ValidPayload
    <2>4. own \subseteq DOMAIN fields
        BY DEF Bound
    <2>5. \/ \E m \in own : fields[m] = "array" /\ l.flags[m] # "list"
          \/ \E m \in others : m \notin DOMAIN fields \/ TypeOf(l.json[m]) # fields[m]
        BY <1>5, <1>6, <2>3, <2>4
    <2>6. call' = Null
        BY <1>3, <1>8 DEF compilerVars
    <2>. QED BY <1>3, <2>5, <2>6 DEF FlagsArrive
<1>. QED BY <1>7, <1>8, RunsIsCompilerStep

\* Flags for what is required make a call.
LEMMA RequiredFlagsSuffice == CompilerInductive => FlagsSuffice
<1>. SUFFICES ASSUME CompilerInductive, Builds, NEW name \in DOMAIN index,
                     Straight(document[index[name].nth].body),
                     index[name].tool.required \cap DOMAIN Accepted = {}
              PROVE  \E flags \in Flags :
                        /\ Sends(index[name].tool, flags, Null)
                        /\ Serves(index[name].tool, Payload(index[name].tool, flags, Null))
    BY DEF FlagsSuffice
<1>. DEFINE tool == index[name].tool
            flags == [n \in tool.required |-> TextOf(tool.fields[n])]
            payload == Payload(tool, flags, Null)
<1>1. tool.required \subseteq DOMAIN tool.fields /\ tool.path \subseteq tool.required /\ tool.fields \in Maps
    BY IndexedIsDeclared, StraightIsCallable, ToolHasFields
<1>2. \A n \in tool.required : tool.fields[n] \in Types
    BY <1>1 DEF Maps
<1>3. flags \in Flags
    <2>1. flags \in [tool.required -> Texts]
        BY <1>2, TypesHaveTexts
    <2>2. tool.required \in SUBSET Names
        BY <1>1 DEF Maps
    <2>. QED BY <2>1, <2>2 DEF Flags
<1>4. Bound(tool, flags) = tool.required
    BY <1>1 DEF Bound
<1>5. DOMAIN payload = tool.required /\ \A n \in tool.required : payload[n] = tool.fields[n]
    BY <1>2, <1>4, EmptyIsMap, TypesHaveTexts DEF Payload
<1>6. Serves(tool, payload)
    <2>1. \A n \in tool.required : TypeOf(payload[n]) = tool.fields[n]
        BY <1>2, <1>5, MapsAreArguments
    <2>. QED BY <1>1, <1>5, <2>1 DEF Serves, ValidPayload, Renders
<1>7. \A n \in Bound(tool, flags) : Argument(tool.fields[n], flags[n]) # Null
    BY <1>2, <1>4, TypesHaveTexts, TypesAssumption
<1>8. Sends(tool, flags, Null)
    BY <1>1, <1>5, <1>7 DEF Sends, Boots, Missing
<1>. QED BY <1>3, <1>6, <1>8

\* What a line has sent arrived, beside the compiler's invariant.
CliInductive == CompilerInductive /\ FlagsArrive

\* Every step of the CLI is one of the compiler's or leaves it alone.
LEMMA CliInductiveStep == CliInductive /\ [CliNext]_cliVars => CliInductive'
<1>. SUFFICES ASSUME CliInductive, [CliNext]_cliVars PROVE CliInductive'
    OBVIOUS
<1>1. CASE CompilerNext /\ line' = Null
    BY <1>1, CompilerInductiveStep DEF CliInductive, FlagsArrive
<1>2. ASSUME NEW name \in DOMAIN index, NEW l \in Lines, Runs(name, l.flags, l.json) PROVE CliInductive'
    <2>1. FlagsArrive'
        BY <1>2, LineArrives DEF CliInductive
    <2>2. [CompilerNext]_compilerVars
        BY <1>2, RunsIsCompilerStep DEF CliInductive, CompilerNext
    <2>. QED BY <2>1, <2>2, CompilerInductiveStep DEF CliInductive
<1>3. CASE UNCHANGED cliVars
    <2>1. UNCHANGED compilerVars /\ UNCHANGED <<document, index, call, line>>
        BY <1>3 DEF cliVars, compilerVars
    <2>2. FlagsArrive'
        BY <2>1 DEF CliInductive, FlagsArrive, Arrives, Stepped
    <2>. QED BY <2>1, <2>2, CompilerInductiveStep DEF CliInductive
<1>. QED BY <1>1, <1>2, <1>3 DEF CliNext

\* The inductive invariant of compiler and CLI together.
THEOREM CliInductiveHolds == CliSpec => []CliInductive
<1>1. CliInit => CliInductive
    BY CompilerInductiveInit DEF CliInit, CliInductive, FlagsArrive
<1>. QED BY <1>1, CliInductiveStep, PTL DEF CliSpec

\* Every operation compiled is hidden, warned of, or the tool of its name; the list is
\* the index, and sorted in the end.
THEOREM CompilerTypeCorrect == CliSpec => []CompilerTypeOK
<1>1. CliInductive => CompilerTypeOK
    BY DEF CliInductive, CompilerInductive
<1>. QED BY <1>1, CliInductiveHolds, PTL

\* A request that execute_tool sends is one that its operation allows.
THEOREM RequestsAreAllowed == CliSpec => []RequestMeets
<1>1. CliInductive => RequestMeets
    BY RequestsMeet DEF CliInductive
<1>. QED BY <1>1, CliInductiveHolds, PTL

\* execute_tool sends every argument in one place, as given, and nothing else beside
\* the secret, unless dots among them turn the path into another one.
THEOREM EveryArgumentIsSent == CliSpec => []ArgumentsArrive
<1>1. CliInductive => ArgumentsArrive
    BY CallsArrive DEF CliInductive
<1>. QED BY <1>1, CliInductiveHolds, PTL

\* compile_tools lists no tool that rejects all arguments.
THEOREM EveryToolIsCallable == CliSpec => []ToolsAreCallable
<1>1. CliInductive => ToolsAreCallable
    BY ToolsCanBeCalled DEF CliInductive
<1>. QED BY <1>1, CliInductiveHolds, PTL

\* The flags of a line that was sent arrive at the target service, over --args-json.
THEOREM FlagsDoArrive == CliSpec => []FlagsArrive
<1>1. CliInductive => FlagsArrive
    BY DEF CliInductive
<1>. QED BY <1>1, CliInductiveHolds, PTL

\* The flags that newToolCmd makes are enough to call a tool.
THEOREM FlagsDoSuffice == CliSpec => []FlagsSuffice
<1>1. CliInductive => FlagsSuffice
    BY RequiredFlagsSuffice DEF CliInductive
<1>. QED BY <1>1, CliInductiveHolds, PTL
=============================================================================

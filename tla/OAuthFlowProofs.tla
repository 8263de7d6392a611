--------------------------- MODULE OAuthFlowProofs ---------------------------
(***************************************************************************)
(* The OAuth flow, for any number of callbacks, tokens, upstreams and      *)
(* faults: tokens are one-time, a reloaded upstream has the latest         *)
(* credentials, and one fault leaves one of the two files.  Each lemma is  *)
(* one action and has one step for each conjunct of Inductive.             *)
(***************************************************************************)
EXTENDS OAuthFlow, TLAPS

\* There are two files, and every upstream reads one of them.
LEMMA TwoFiles ==
    /\ DOMAIN Files = {1, 2} /\ Len(Files) = 2
    /\ Files[1] # Files[2] /\ FileNames = {Files[1], Files[2]}
    /\ \A u \in Upstreams : Reads[u] \in FileNames
<1>1. DOMAIN Files = {1, 2} /\ Len(Files) = 2 /\ Files[1] # Files[2]
    BY DEF Files
<1>2. FileNames = {Files[1], Files[2]}
    BY <1>1 DEF FileNames
<1>3. QED BY <1>1, <1>2, ReadsAssumption

\* Time passes: ages grow, and what is issued stays issued.
LEMMA TickKeeps ==
    ASSUME Inductive, Tick
    PROVE  Inductive'
<1>. USE TwoFiles, NoneAssumption, BoundAssumption DEF Inductive, TypeOK, Ended, Writing, Contents, InProgress, issue, files, checking, Tick
<1>1. TypeOK'
    BY DEF UsedWasIssued
<1>2. TokensAreOneTime'
    BY DEF TokensAreOneTime, UsedWasIssued
<1>3. ReloadedHasLatest'
    BY DEF ReloadedHasLatest, UsedWasIssued, FilesAreFresh, OverlapIsKnown
<1>4. StaysConnected'
    BY DEF StaysConnected, OneFileIsThere
<1>5. UsedWasIssued'
    BY DEF UsedWasIssued
<1>6. OverlapIsKnown'
    BY DEF OverlapIsKnown
<1>7. FilesAreFresh'
    BY DEF FilesAreFresh, UsedWasIssued, OverlapIsKnown
<1>8. OneFileIsThere'
    BY DEF OneFileIsThere, OverlapIsKnown
<1>9. QED BY <1>1, <1>2, <1>3, <1>4, <1>5, <1>6, <1>7, <1>8

\* A token is issued: nobody has used it, since what was used was issued.
LEMMA AuthStartKeeps ==
    ASSUME Inductive, NEW t \in Tokens, NEW u \in Upstreams, AuthStart(t, u)
    PROVE  Inductive'
<1>. USE TwoFiles, NoneAssumption, BoundAssumption DEF Inductive, TypeOK, Ended, Writing, Contents, InProgress, issue, files, checking, AuthStart
<1>1. TypeOK'
    BY DEF UsedWasIssued
<1>2. TokensAreOneTime'
    BY DEF TokensAreOneTime, UsedWasIssued
<1>3. ReloadedHasLatest'
    BY DEF ReloadedHasLatest, UsedWasIssued, FilesAreFresh, OverlapIsKnown
<1>4. StaysConnected'
    BY DEF StaysConnected, OneFileIsThere
<1>5. UsedWasIssued'
    BY DEF UsedWasIssued
<1>6. OverlapIsKnown'
    BY DEF OverlapIsKnown
<1>7. FilesAreFresh'
    BY DEF FilesAreFresh, UsedWasIssued, OverlapIsKnown
<1>8. OneFileIsThere'
    BY DEF OneFileIsThere, OverlapIsKnown
<1>9. QED BY <1>1, <1>2, <1>3, <1>4, <1>5, <1>6, <1>7, <1>8

\* A callback takes its token: it is gone from `pending' before anybody else looks.
LEMMA TakePendingKeeps ==
    ASSUME Inductive, NEW f \in Flows, NEW t \in Tokens, TakePending(f, t)
    PROVE  Inductive'
<1>. USE TwoFiles, NoneAssumption, BoundAssumption DEF Inductive, TypeOK, Ended, Writing, Contents, InProgress, issue, files, checking, TakePending, Goes, Remaining
<1>1. TypeOK'
    BY DEF UsedWasIssued
<1>2. TokensAreOneTime'
    BY DEF TokensAreOneTime, UsedWasIssued
<1>3. ReloadedHasLatest'
    BY DEF ReloadedHasLatest, UsedWasIssued, FilesAreFresh, OverlapIsKnown
<1>4. StaysConnected'
    BY DEF StaysConnected, OneFileIsThere
<1>5. UsedWasIssued'
    BY DEF UsedWasIssued
<1>6. OverlapIsKnown'
    BY DEF OverlapIsKnown
<1>7. FilesAreFresh'
    BY DEF FilesAreFresh, UsedWasIssued, OverlapIsKnown
<1>8. OneFileIsThere'
    BY DEF OneFileIsThere, OverlapIsKnown
<1>9. QED BY <1>1, <1>2, <1>3, <1>4, <1>5, <1>6, <1>7, <1>8

\* The exchange of the code changes nothing else.
LEMMA ExchangeKeeps ==
    ASSUME Inductive, NEW f \in Flows, Exchange(f)
    PROVE  Inductive'
<1>. USE TwoFiles, NoneAssumption, BoundAssumption DEF Inductive, TypeOK, Ended, Writing, Contents, InProgress, issue, files, checking, Exchange, Goes
<1>1. TypeOK'
    BY DEF UsedWasIssued
<1>2. TokensAreOneTime'
    BY DEF TokensAreOneTime, UsedWasIssued
<1>3. ReloadedHasLatest'
    BY DEF ReloadedHasLatest, UsedWasIssued, FilesAreFresh, OverlapIsKnown
<1>4. StaysConnected'
    BY DEF StaysConnected, OneFileIsThere
<1>5. UsedWasIssued'
    BY DEF UsedWasIssued
<1>6. OverlapIsKnown'
    BY DEF OverlapIsKnown
<1>7. FilesAreFresh'
    BY DEF FilesAreFresh, UsedWasIssued, OverlapIsKnown
<1>8. OneFileIsThere'
    BY DEF OneFileIsThere, OverlapIsKnown
<1>9. QED BY <1>1, <1>2, <1>3, <1>4, <1>5, <1>6, <1>7, <1>8

\* A file is truncated: by the only callback, or by one known to overlap.
LEMMA TruncateKeeps ==
    ASSUME Inductive, NEW f \in Flows, Truncate(f)
    PROVE  Inductive'
<1>. USE TwoFiles, NoneAssumption, BoundAssumption DEF Inductive, TypeOK, Ended, Writing, Contents, InProgress, issue, files, checking, Truncate, Goes, Disturbs
<1>1. TypeOK'
    BY DEF UsedWasIssued
<1>2. TokensAreOneTime'
    BY DEF TokensAreOneTime, UsedWasIssued
<1>3. ReloadedHasLatest'
    BY DEF ReloadedHasLatest, UsedWasIssued, FilesAreFresh, OverlapIsKnown
<1>4. StaysConnected'
    BY DEF StaysConnected, OneFileIsThere
<1>5. UsedWasIssued'
    BY DEF UsedWasIssued
<1>6. OverlapIsKnown'
    BY DEF OverlapIsKnown
<1>7. FilesAreFresh'
    BY DEF FilesAreFresh, UsedWasIssued, OverlapIsKnown
<1>8. OneFileIsThere'
    <2>1. \A g \in Flows : overlapped = {} /\ InProgress(g) => g = f
        BY DEF OverlapIsKnown
    <2>2. creds'[Files[at[f]]] = None /\ \A i \in DOMAIN Files : i # at[f] => creds'[Files[i]] = creds[Files[i]]
        OBVIOUS
    <2>3. QED BY <2>1, <2>2 DEF OneFileIsThere
<1>9. QED BY <1>1, <1>2, <1>3, <1>4, <1>5, <1>6, <1>7, <1>8

\* A file is filled: the second one with the first one full.
LEMMA FillKeeps ==
    ASSUME Inductive, NEW f \in Flows, Fill(f)
    PROVE  Inductive'
<1>. USE TwoFiles, NoneAssumption, BoundAssumption DEF Inductive, TypeOK, Ended, Writing, Contents, InProgress, issue, files, checking, Fill, Goes, Disturbs
<1>1. TypeOK'
    <2>1. creds' \in [FileNames -> Contents]
        OBVIOUS
    <2>2. pc' \in [Flows -> {"idle", "exchanging", "reloading", "installing"} \cup Writing \cup Ended]
        OBVIOUS
    <2>3. at' \in [Flows -> DOMAIN Files]
        <3>1. at[f] \in 1..2
            OBVIOUS
        <3>2. at[f] + 1 \in DOMAIN Files \/ at[f] = 2
            BY <3>1
        <3>3. QED BY <3>1, <3>2
    <2>4. QED BY <2>1, <2>2, <2>3
<1>2. TokensAreOneTime'
    BY DEF TokensAreOneTime, UsedWasIssued
<1>3. ReloadedHasLatest'
    BY DEF ReloadedHasLatest, UsedWasIssued, FilesAreFresh, OverlapIsKnown
<1>4. StaysConnected'
    BY DEF StaysConnected, OneFileIsThere
<1>5. UsedWasIssued'
    BY DEF UsedWasIssued
<1>6. OverlapIsKnown'
    BY DEF OverlapIsKnown
<1>7. FilesAreFresh'
    BY DEF FilesAreFresh, UsedWasIssued, OverlapIsKnown
<1>8. OneFileIsThere'
    BY DEF OneFileIsThere, OverlapIsKnown
<1>9. QED BY <1>1, <1>2, <1>3, <1>4, <1>5, <1>6, <1>7, <1>8

\* A write fails: one file is left without contents, and one more fault is counted.
LEMMA WriteFailsKeeps ==
    ASSUME Inductive, NEW f \in Flows, WriteFails(f)
    PROVE  Inductive'
<1>. USE TwoFiles, NoneAssumption, BoundAssumption DEF Inductive, TypeOK, Ended, Writing, Contents, InProgress, issue, files, checking, WriteFails, Goes
<1>1. TypeOK'
    BY DEF UsedWasIssued
<1>2. TokensAreOneTime'
    BY DEF TokensAreOneTime, UsedWasIssued
<1>3. ReloadedHasLatest'
    BY DEF ReloadedHasLatest, UsedWasIssued, FilesAreFresh, OverlapIsKnown
<1>4. StaysConnected'
    BY DEF StaysConnected, OneFileIsThere
<1>5. UsedWasIssued'
    BY DEF UsedWasIssued
<1>6. OverlapIsKnown'
    BY DEF OverlapIsKnown
<1>7. FilesAreFresh'
    BY DEF FilesAreFresh, UsedWasIssued, OverlapIsKnown
<1>8. OneFileIsThere'
    BY DEF OneFileIsThere, OverlapIsKnown
<1>9. QED BY <1>1, <1>2, <1>3, <1>4, <1>5, <1>6, <1>7, <1>8

\* A crash fails every callback and forgets what is pending; the files stay.
LEMMA CrashKeeps ==
    ASSUME Inductive, Crash
    PROVE  Inductive'
<1>. USE TwoFiles, NoneAssumption, BoundAssumption DEF Inductive, TypeOK, Ended, Writing, Contents, InProgress, issue, files, checking, Crash
<1>1. TypeOK'
    <2>1. pc' \in [Flows -> {"idle", "exchanging", "reloading", "installing"} \cup Writing \cup Ended]
        OBVIOUS
    <2>2. faults' \in 0..MaxFaults
        OBVIOUS
    <2>3. QED BY <2>1, <2>2
<1>2. TokensAreOneTime'
    BY DEF TokensAreOneTime, UsedWasIssued
<1>3. ReloadedHasLatest'
    BY DEF ReloadedHasLatest, UsedWasIssued, FilesAreFresh, OverlapIsKnown
<1>4. StaysConnected'
    BY DEF StaysConnected, OneFileIsThere
<1>5. UsedWasIssued'
    BY DEF UsedWasIssued
<1>6. OverlapIsKnown'
    BY DEF OverlapIsKnown
<1>7. FilesAreFresh'
    BY DEF FilesAreFresh, UsedWasIssued, OverlapIsKnown
<1>8. OneFileIsThere'
    BY DEF OneFileIsThere, OverlapIsKnown
<1>9. QED BY <1>1, <1>2, <1>3, <1>4, <1>5, <1>6, <1>7, <1>8

\* The new MCP server reads its file.
LEMMA ReloadSpawnsKeeps ==
    ASSUME Inductive, NEW f \in Flows, ReloadSpawns(f)
    PROVE  Inductive'
<1>. USE TwoFiles, NoneAssumption, BoundAssumption DEF Inductive, TypeOK, Ended, Writing, Contents, InProgress, issue, files, checking, ReloadSpawns, Goes
<1>1. TypeOK'
    <2>1. server[used[f].token] \in Upstreams
        BY DEF UsedWasIssued
    <2>2. creds[Reads[server[used[f].token]]] \in Contents
        BY <2>1
    <2>3. spawned' \in [Flows -> Contents]
        BY <2>2
    <2>4. QED BY <2>3
<1>2. TokensAreOneTime'
    BY DEF TokensAreOneTime, UsedWasIssued
<1>3. ReloadedHasLatest'
    BY DEF ReloadedHasLatest, UsedWasIssued, FilesAreFresh, OverlapIsKnown
<1>4. StaysConnected'
    BY DEF StaysConnected, OneFileIsThere
<1>5. UsedWasIssued'
    BY DEF UsedWasIssued
<1>6. OverlapIsKnown'
    BY DEF OverlapIsKnown
<1>7. FilesAreFresh'
    BY DEF FilesAreFresh, UsedWasIssued, OverlapIsKnown
<1>8. OneFileIsThere'
    BY DEF OneFileIsThere, OverlapIsKnown
<1>9. QED BY <1>1, <1>2, <1>3, <1>4, <1>5, <1>6, <1>7, <1>8

\* It is installed: a callback by itself has what is still in the file.
LEMMA ReloadInstallsKeeps ==
    ASSUME Inductive, NEW f \in Flows, ReloadInstalls(f)
    PROVE  Inductive'
<1>. USE TwoFiles, NoneAssumption, BoundAssumption DEF Inductive, TypeOK, Ended, Writing, Contents, InProgress, issue, files, checking, ReloadInstalls, Goes, Reloaded
<1>1. TypeOK'
    <2>1. running' \in [Upstreams -> Contents]
        BY DEF UsedWasIssued
    <2>2. last' \in Flows \cup {None}
        OBVIOUS
    <2>3. QED BY <2>1, <2>2
<1>2. TokensAreOneTime'
    BY DEF TokensAreOneTime, UsedWasIssued
<1>3. ReloadedHasLatest'
    <2>1. used[f] # None /\ used[f].token \in Tokens /\ age[used[f].token] # None
        BY DEF UsedWasIssued
    <2>2. server[used[f].token] \in Upstreams
        BY <2>1 DEF UsedWasIssued
    <2>3. f \notin overlapped => spawned[f] = creds[Reads[server[used[f].token]]]
        BY DEF FilesAreFresh
    <2>4. /\ running'[server[used[f].token]] = spawned[f]
          /\ last' = (IF f \in overlapped THEN None ELSE f)
          /\ UNCHANGED <<server, used, creds>>
        BY <2>2
    <2>5. QED BY <2>3, <2>4 DEF ReloadedHasLatest
<1>4. StaysConnected'
    BY DEF StaysConnected, OneFileIsThere
<1>5. UsedWasIssued'
    BY DEF UsedWasIssued
<1>6. OverlapIsKnown'
    BY DEF OverlapIsKnown
<1>7. FilesAreFresh'
    BY DEF FilesAreFresh, UsedWasIssued, OverlapIsKnown
<1>8. OneFileIsThere'
    BY DEF OneFileIsThere, OverlapIsKnown
<1>9. QED BY <1>1, <1>2, <1>3, <1>4, <1>5, <1>6, <1>7, <1>8

\* A reload that fails changes nothing but the callback's position.
LEMMA ReloadFailsKeeps ==
    ASSUME Inductive, NEW f \in Flows, ReloadFails(f)
    PROVE  Inductive'
<1>. USE TwoFiles, NoneAssumption, BoundAssumption DEF Inductive, TypeOK, Ended, Writing, Contents, InProgress, issue, files, checking, ReloadFails, Goes
<1>1. TypeOK'
    BY DEF UsedWasIssued
<1>2. TokensAreOneTime'
    BY DEF TokensAreOneTime, UsedWasIssued
<1>3. ReloadedHasLatest'
    BY DEF ReloadedHasLatest, UsedWasIssued, FilesAreFresh, OverlapIsKnown
<1>4. StaysConnected'
    BY DEF StaysConnected, OneFileIsThere
<1>5. UsedWasIssued'
    BY DEF UsedWasIssued
<1>6. OverlapIsKnown'
    BY DEF OverlapIsKnown
<1>7. FilesAreFresh'
    BY DEF FilesAreFresh, UsedWasIssued, OverlapIsKnown
<1>8. OneFileIsThere'
    BY DEF OneFileIsThere, OverlapIsKnown
<1>9. QED BY <1>1, <1>2, <1>3, <1>4, <1>5, <1>6, <1>7, <1>8

\* The poller looks at the first file.
LEMMA CheckFirstKeeps ==
    ASSUME Inductive, CheckFirst
    PROVE  Inductive'
<1>. USE TwoFiles, NoneAssumption, BoundAssumption DEF Inductive, TypeOK, Ended, Writing, Contents, InProgress, issue, files, checking, CheckFirst
<1>1. TypeOK'
    BY DEF UsedWasIssued
<1>2. TokensAreOneTime'
    BY DEF TokensAreOneTime, UsedWasIssued
<1>3. ReloadedHasLatest'
    BY DEF ReloadedHasLatest, UsedWasIssued, FilesAreFresh, OverlapIsKnown
<1>4. StaysConnected'
    BY DEF StaysConnected, OneFileIsThere
<1>5. UsedWasIssued'
    BY DEF UsedWasIssued
<1>6. OverlapIsKnown'
    BY DEF OverlapIsKnown
<1>7. FilesAreFresh'
    BY DEF FilesAreFresh, UsedWasIssued, OverlapIsKnown
<1>8. OneFileIsThere'
    BY DEF OneFileIsThere, OverlapIsKnown
<1>9. QED BY <1>1, <1>2, <1>3, <1>4, <1>5, <1>6, <1>7, <1>8

\* It looks at the second one: it is there if the check was reliable.
LEMMA CheckSecondKeeps ==
    ASSUME Inductive, CheckSecond
    PROVE  Inductive'
<1>. USE TwoFiles, NoneAssumption, BoundAssumption DEF Inductive, TypeOK, Ended, Writing, Contents, InProgress, issue, files, checking, CheckSecond, SecondCounts
<1>1. TypeOK'
    BY DEF UsedWasIssued
<1>2. TokensAreOneTime'
    BY DEF TokensAreOneTime, UsedWasIssued
<1>3. ReloadedHasLatest'
    BY DEF ReloadedHasLatest, UsedWasIssued, FilesAreFresh, OverlapIsKnown
<1>4. StaysConnected'
    BY DEF StaysConnected, OneFileIsThere
<1>5. UsedWasIssued'
    BY DEF UsedWasIssued
<1>6. OverlapIsKnown'
    BY DEF OverlapIsKnown
<1>7. FilesAreFresh'
    BY DEF FilesAreFresh, UsedWasIssued, OverlapIsKnown
<1>8. OneFileIsThere'
    BY DEF OneFileIsThere, OverlapIsKnown
<1>9. QED BY <1>1, <1>2, <1>3, <1>4, <1>5, <1>6, <1>7, <1>8

\* The inductive invariant.
THEOREM InductiveHolds == Spec => []Inductive
<1>1. Init => Inductive
    <2>. USE TwoFiles, NoneAssumption, BoundAssumption DEF Init
    <2>1. Init => TypeOK
        <3>1. 1 \in DOMAIN Files /\ 0 \in 0..MaxFaults
            OBVIOUS
        <3>2. Init => pc \in [Flows -> {"idle"}] /\ at \in [Flows -> DOMAIN Files]
            BY <3>1
        <3>3. Init => /\ age \in [Tokens -> {None}] /\ server \in [Tokens -> {None}]
                      /\ used \in [Flows -> {None}] /\ spawned \in [Flows -> {None}]
                      /\ creds \in [FileNames -> {None}] /\ running \in [Upstreams -> {None}]
            OBVIOUS
        <3>4. QED BY <3>1, <3>2, <3>3 DEF TypeOK, Ended, Writing, Contents
    <2>2. Init => TokensAreOneTime /\ ReloadedHasLatest /\ StaysConnected
        BY DEF TokensAreOneTime, ReloadedHasLatest, StaysConnected
    <2>3. Init => UsedWasIssued /\ OverlapIsKnown
        BY DEF UsedWasIssued, OverlapIsKnown, InProgress
    <2>4. Init => FilesAreFresh /\ OneFileIsThere
        BY DEF FilesAreFresh, OneFileIsThere, Writing
    <2>5. QED BY <2>1, <2>2, <2>3, <2>4 DEF Inductive
<1>2. Inductive /\ [Next]_vars => Inductive'
    <2> SUFFICES ASSUME Inductive, [Next]_vars PROVE Inductive'
        OBVIOUS
    <2>1. ASSUME NEW f \in Flows, Callback(f) PROVE Inductive'
        BY <2>1, TakePendingKeeps, ExchangeKeeps, TruncateKeeps, FillKeeps, WriteFailsKeeps,
           ReloadSpawnsKeeps, ReloadInstallsKeeps, ReloadFailsKeeps DEF Callback
    <2>2. CASE UNCHANGED vars
        BY <2>2 DEF vars, issue, files, checking, Inductive, TypeOK, TokensAreOneTime, ReloadedHasLatest, StaysConnected, UsedWasIssued, OverlapIsKnown, FilesAreFresh, OneFileIsThere, InProgress
    <2>3. QED
        BY <2>1, <2>2, TickKeeps, CrashKeeps, CheckFirstKeeps, CheckSecondKeeps, AuthStartKeeps DEF Next
<1>3. QED BY <1>1, <1>2, PTL DEF Spec

\* Every variable keeps its type.
THEOREM TypeCorrect == Spec => []TypeOK
BY InductiveHolds, PTL DEF Inductive

\* A state token lets one callback through, within its time.
THEOREM TokensUsedOnce == Spec => []TokensAreOneTime
BY InductiveHolds, PTL DEF Inductive

\* After a callback by itself, its upstream runs with what is in its file.
THEOREM ReloadsAreFresh == Spec => []ReloadedHasLatest
BY InductiveHolds, PTL DEF Inductive

\* One fault does not disconnect.
THEOREM OneFaultKeepsConnected == Spec => []StaysConnected
BY InductiveHolds, PTL DEF Inductive
=============================================================================

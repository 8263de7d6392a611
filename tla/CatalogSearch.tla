---------------------------- MODULE CatalogSearch ----------------------------
(***************************************************************************)
(* The requests that find tools (tools_search and tools of                 *)
(* service/catalog/src/http.rs) from the list or the index that the poller *)
(* replaces (CatalogIndex) through the filter that asks OPA about each     *)
(* tool (DiscoveryFilter).  The filter of one task is followed check by    *)
(* check; of the others it matters that they hold the index meanwhile.     *)
(***************************************************************************)
EXTENDS CatalogIndex, DiscoveryFilter

CONSTANTS
    Finder,       \* the task whose filter is followed; it carries an identity
    ToolsOffered, \* how many tools each offer has
    SearchLimit,  \* the 50 of tools_search
    Lowercase     \* from spellings of servers' names to the same in lower case

ASSUME FinderAssumption == Finder \in Searches
ASSUME NumberAssumption ==
    /\ Concurrency \in Nat /\ SearchLimit \in Nat \ {0}
    /\ ToolsOffered \in [0..MaxChanges -> Nat]
ASSUME SpellingAssumption == Names \subseteq DOMAIN Lowercase

vars == <<catalog, filter>>

Found == [server : Names, tool : Nat]

TypeOK ==
    /\ IndexTypeOK
    /\ FilterTypeOK
    /\ tools \in Seq(Found) /\ result \in Seq(Found)
    /\ stage # "none" <=> pc[Finder] \in {"searching", "filtering"}

Init == IndexInit /\ NotCalled

\* The tools of the healthy servers of a list, in its order
ToolsOf(list) ==
    FlattenSeq([i \in DOMAIN Upstreams |->
        LET u == Upstreams[i] IN
        IF list[u] \in {None, Unpolled} THEN << >>
        ELSE [j \in 1..ToolsOffered[list[u]] |-> [server |-> u, tool |-> j]]])

\* list_server and the filter of search: eq_ignore_ascii_case
OfServer(list, asked) ==
    Picked(list, {i \in DOMAIN list : Lowercase[list[i].server] = Lowercase[asked]})

Top(ranked) == SubSeq(ranked, 1, Smaller(SearchLimit, Len(ranked)))

\* The query's tools in the order of their score
Rankings(list) == UNION {SetToSeqs(matching) : matching \in SUBSET ToSet(list)}

\* The limit cuts the ranking before the server is asked for.
Searched(list) ==
    LET tops == {Top(r) : r \in Rankings(list)} IN
    tops \cup {OfServer(found, asked) : found \in tops \cup {list}, asked \in DOMAIN Lowercase}

Find ==
    \/ SearchReads(Finder) /\ \E found \in Searched(ToolsOf(search)) : Begins(found)
    \/ ListReads(Finder) /\ Begins(ToolsOf(servers))

Answer == Filtered(Finder) /\ stage \in {"returned", "failed"} /\ Ends

\* The other searches; their listings are like servers.
Search(s) == (SearchReads(s) \/ Filtered(s)) /\ UNCHANGED filter

\* The client goes away and the handler is dropped.
Gone(r) ==
    /\ Drop(r)
    /\ IF r = Finder /\ stage # "none" THEN Ends ELSE UNCHANGED filter

Checks == Filters /\ UNCHANGED catalog

Next ==
    \/ Others /\ UNCHANGED filter
    \/ ListQueues(Finder) /\ UNCHANGED filter
    \/ Find \/ Answer
    \/ \E s \in Searches \ {Finder} : Search(s)
    \/ Checks
    \/ \E r \in Requests : Gone(r)

Spec == Init /\ [][Next]_vars

\* Tasks that can run do, and OPA ends every check it is asked for (its client has
\* a timeout); an upstream may hang on a call for ever.
FairSpec ==
    /\ Spec
    /\ WF_vars(Poll /\ UNCHANGED filter)
    /\ WF_vars(Checks)
    /\ WF_vars(Find) /\ WF_vars(Answer)
    /\ \A s \in Searches \ {Finder} : WF_vars(Search(s))
    /\ \A c \in Calls : WF_vars((CallChecks(c) \/ Shows(c)) /\ UNCHANGED filter)

-----------------------------------------------------------------------------
\* A slot of the filter is given on as long as tools are waiting, and never twice:
\* the checks in flight are the bound or all that are left (http.rs:278-318).
FanOut ==
    stage = "joining" =>
        LET left == {i \in DOMAIN tools : outcomes[i] = "none"} IN
        Cardinality(inFlight) = Smaller(IF Concurrency = 0 THEN 1 ELSE Concurrency, Cardinality(left))

\* In whatever order the checks end, and whatever the poller replaces meanwhile,
\* the answer is exactly the allowed tools in the order they were found, and a
\* single check that failed withholds them all (http.rs:283-330).
ListIsFiltered ==
    stage = "returned" =>
        /\ \A i \in DOMAIN tools : outcomes[i] \in {"allowed", "denied"}
        /\ \E pick \in [DOMAIN result -> DOMAIN tools] :
            /\ Range(pick) = {i \in DOMAIN tools : outcomes[i] = "allowed"}
            /\ \A j, k \in DOMAIN result : j < k => pick[j] < pick[k]
            /\ \A j \in DOMAIN result : result[j] = tools[pick[j]]

\* When the upstreams stay as they are, list and index come to show them and stay
\* so, under any load of searches that are filtered and of calls that never end.
Converges == <>[](servers = actual /\ search = actual)

\* Every request that finds tools ends, though it waits for the poller, the poller
\* for earlier searches, and those for OPA.
EveryFindEnds == pc[Finder] # "idle" ~> pc[Finder] = "idle"

-----------------------------------------------------------------------------
\* Why the properties hold: the invariant they are proved from
Inductive ==
    /\ TypeOK
    /\ PollIsOfNow /\ ListedWasOffered
    /\ IndexFollows /\ IndexAgrees
    /\ FanOut /\ ListIsFiltered
=============================================================================

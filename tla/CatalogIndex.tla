---------------------------- MODULE CatalogIndex -----------------------------
(***************************************************************************)
(* The catalog's view of its upstreams (service/catalog/src/poller.rs and  *)
(* http.rs): the poller asks one upstream after the other and then         *)
(* replaces the list of servers and the search index, each behind a lock   *)
(* of its own, while requests read them.  tools_search keeps the index     *)
(* locked while OPA is asked about its results; tools, tools_call and      *)
(* servers give the list back at once.  CatalogSearch composes the finding *)
(* requests with the filter.                                               *)
(***************************************************************************)
EXTENDS Naturals, RwQueue

CONSTANTS
    Upstreams,   \* state.upstreams, a sequence
    Searches,    \* tasks that serve tools_search and tools
    Calls,       \* tasks that serve tools_call, servers and health
    Poller,
    None,        \* no tools: an unhealthy entry
    Unpolled,    \* no entry yet
    MaxChanges   \* bound on the changes of the upstreams

ASSUME UpstreamAssumption == Upstreams \in Seq(ToSet(Upstreams)) /\ Len(Upstreams) > 0
ASSUME BoundAssumption == MaxChanges \in Nat
ASSUME TasksDiffer == Searches \cap Calls = {} /\ Poller \notin Searches \cup Calls

VARIABLES
    actual,    \* the tools each upstream offers now, None when it is down
    changes,
    pc,
    polled,    \* upstreams this poll has done
    healthOk,  \* the upstream it is at has answered /health
    entries,   \* what it found, None for an unhealthy entry
    servers, serversLock,
    search, searchLock,
    lastSeen,  \* what each upstream offered since the poll in `servers' began
    nowSeen    \* and since the current one began

polling == <<polled, healthOk, entries>>
catalog == <<actual, changes, pc, polling, servers, serversLock, search, searchLock,
          lastSeen, nowSeen>>

Names == ToSet(Upstreams)
Requests == Searches \cup Calls
Offers == 0..MaxChanges \cup {None}

\* Each of them has one entry in the queue of the lock.
IsQueue(lock, readers, writers) ==
    /\ lock \in Seq([who : Requests \cup {Poller}, kind : {"read", "write"}])
    /\ \A i, j \in DOMAIN lock : lock[i].who = lock[j].who => i = j
    /\ Queued(lock, "read") = readers
    /\ Queued(lock, "write") = writers

\* Every variable keeps its type, and who is in a lock's queue is at a point
\* that needs it.
IndexTypeOK ==
    /\ actual \in [Names -> Offers] /\ changes \in 0..MaxChanges
    /\ DOMAIN pc = Requests \cup {Poller}
    /\ pc[Poller] \in {"sleeping", "polling", "servers", "index"}
    /\ \A s \in Searches : pc[s] \in {"idle", "waiting", "searching", "listing", "filtering"}
    /\ \A c \in Calls : pc[c] \in {"idle", "waiting", "forwarding"}
    /\ polled \in 0..Len(Upstreams) /\ healthOk \in BOOLEAN
    /\ entries \in [Names -> Offers] /\ servers \in [Names -> Offers \cup {Unpolled}]
    /\ search \in [Names -> Offers]
    /\ lastSeen \in [Names -> SUBSET Offers] /\ nowSeen \in [Names -> SUBSET Offers]
    /\ IsQueue(serversLock,
            {c \in Calls : pc[c] = "waiting"} \cup {s \in Searches : pc[s] = "listing"},
            {p \in {Poller} : pc[p] = "servers"})
    /\ IsQueue(searchLock,
            {s \in Searches : pc[s] \in {"waiting", "searching"}},
            {p \in {Poller} : pc[p] = "index"})

IndexInit ==
    /\ actual \in [Names -> {0, None}]
    /\ changes = 0
    /\ pc = [p \in Requests \cup {Poller} |-> IF p = Poller THEN "sleeping" ELSE "idle"]
    /\ polled = 0 /\ healthOk = FALSE
    /\ entries = [u \in Names |-> None]
    /\ servers = [u \in Names |-> Unpolled] /\ serversLock = << >>
    /\ search = [u \in Names |-> None] /\ searchLock = << >>
    /\ lastSeen = [u \in Names |-> {}]
    /\ nowSeen = [u \in Names |-> {}]

Goes(p, to) == pc' = [pc EXCEPT ![p] = to]

-----------------------------------------------------------------------------
(* poll_all *)

PollStarts ==
    /\ pc[Poller] = "sleeping"
    /\ Goes(Poller, "polling")
    /\ polled' = 0
    /\ healthOk' = FALSE
    /\ nowSeen' = [u \in Names |-> {actual[u]}]
    /\ UNCHANGED <<actual, changes, entries, servers, serversLock, search, searchLock, lastSeen>>

\* Mutant: an upstream that fails keeps the entry it had.
LastGoodEntry(u, offer) ==
    IF offer = None /\ servers[u] # Unpolled THEN servers[u] ELSE offer

\* make_error_entry lists no tools.
EntryOf(u, offer) == offer

Enters(u, offer) ==
    /\ entries' = [entries EXCEPT ![u] = EntryOf(u, offer)]
    /\ polled' = polled + 1
    /\ healthOk' = FALSE

\* poll_one: GET /health
PollHealth ==
    /\ pc[Poller] = "polling" /\ polled < Len(Upstreams) /\ ~healthOk
    /\ LET u == Upstreams[polled + 1] IN
        \/ actual[u] # None /\ healthOk' = TRUE /\ UNCHANGED <<polled, entries>>
        \/ actual[u] = None /\ Enters(u, None)
    /\ UNCHANGED <<actual, changes, pc, servers, serversLock, search, searchLock, lastSeen, nowSeen>>

\* poll_one: GET /tools, of what may by now be another instance
PollTools ==
    /\ pc[Poller] = "polling" /\ polled < Len(Upstreams) /\ healthOk
    /\ LET u == Upstreams[polled + 1] IN Enters(u, actual[u])
    /\ UNCHANGED <<actual, changes, pc, servers, serversLock, search, searchLock, lastSeen, nowSeen>>

AwaitServers ==
    /\ pc[Poller] = "polling" /\ polled = Len(Upstreams)
    /\ Goes(Poller, "servers")
    /\ serversLock' = Writes(serversLock, Poller)
    /\ UNCHANGED <<actual, changes, polling, servers, search, searchLock, lastSeen, nowSeen>>

\* The list is in force from here on, the index of its tools not yet.
WriteServers ==
    /\ pc[Poller] = "servers" /\ Holds(serversLock, Poller)
    /\ servers' = entries
    /\ serversLock' = Without(serversLock, Poller)
    /\ lastSeen' = nowSeen
    /\ Goes(Poller, "index")
    /\ searchLock' = Writes(searchLock, Poller)
    /\ UNCHANGED <<actual, changes, polling, search, nowSeen>>

\* Mutant: the index is built from the list that was in force.
PreviousIndex == search

\* ToolIndex::build over the tools of the healthy entries
NewIndex == entries

WriteIndex ==
    /\ pc[Poller] = "index" /\ Holds(searchLock, Poller)
    /\ search' = NewIndex
    /\ searchLock' = Without(searchLock, Poller)
    /\ Goes(Poller, "sleeping")
    /\ UNCHANGED <<actual, changes, polling, servers, serversLock, lastSeen, nowSeen>>

-----------------------------------------------------------------------------
(* Requests *)

SearchQueues(s) ==
    /\ pc[s] = "idle"
    /\ Goes(s, "waiting")
    /\ searchLock' = Reads(searchLock, s)
    /\ UNCHANGED <<actual, changes, polling, servers, serversLock, search, lastSeen, nowSeen>>

\* The guard lives until the handler returns, so also while it filters.
SearchReads(s) ==
    /\ pc[s] = "waiting" /\ Holds(searchLock, s)
    /\ Goes(s, "searching")
    /\ UNCHANGED <<actual, changes, polling, servers, serversLock, search, searchLock, lastSeen, nowSeen>>

ListQueues(s) ==
    /\ pc[s] = "idle"
    /\ Goes(s, "listing")
    /\ serversLock' = Reads(serversLock, s)
    /\ UNCHANGED <<actual, changes, polling, servers, search, searchLock, lastSeen, nowSeen>>

\* tools copies what it lists before it filters.
ListReads(s) ==
    /\ pc[s] = "listing" /\ Holds(serversLock, s)
    /\ Goes(s, "filtering")
    /\ serversLock' = Without(serversLock, s)
    /\ UNCHANGED <<actual, changes, polling, servers, search, searchLock, lastSeen, nowSeen>>

\* filter_tools_for_discovery has returned.
Filtered(s) ==
    /\ pc[s] \in {"searching", "filtering"}
    /\ Goes(s, "idle")
    /\ searchLock' = Without(searchLock, s)
    /\ UNCHANGED <<actual, changes, polling, servers, serversLock, search, lastSeen, nowSeen>>

CallQueues(c) ==
    /\ pc[c] = "idle"
    /\ Goes(c, "waiting")
    /\ serversLock' = Reads(serversLock, c)
    /\ UNCHANGED <<actual, changes, polling, servers, search, searchLock, lastSeen, nowSeen>>

\* Mutant: the list stays locked while the upstream is called.
LockKept(c) == serversLock

\* "Drop the read lock before making the HTTP call"
LockDropped(c) == Without(serversLock, c)

\* The server must be in the list and healthy; other calls are refused.
CallChecks(c) ==
    /\ pc[c] = "waiting" /\ Holds(serversLock, c)
    /\ \E u \in Names : servers[u] \notin {Unpolled, None}
    /\ Goes(c, "forwarding")
    /\ serversLock' = LockDropped(c)
    /\ UNCHANGED <<actual, changes, polling, servers, search, searchLock, lastSeen, nowSeen>>

\* servers and health, and a call that is refused
Shows(c) ==
    /\ pc[c] = "waiting" /\ Holds(serversLock, c)
    /\ Goes(c, "idle")
    /\ serversLock' = Without(serversLock, c)
    /\ UNCHANGED <<actual, changes, polling, servers, search, searchLock, lastSeen, nowSeen>>

\* The upstream answers, or the call client gives up.
CallEnds(c) ==
    /\ pc[c] = "forwarding"
    /\ Goes(c, "idle")
    /\ UNCHANGED <<actual, changes, polling, servers, serversLock, search, searchLock, lastSeen, nowSeen>>

\* The client goes away and its handler is dropped, with what it holds or awaits.
Drop(r) ==
    /\ pc[r] # "idle"
    /\ Goes(r, "idle")
    /\ serversLock' = Without(serversLock, r)
    /\ searchLock' = Without(searchLock, r)
    /\ UNCHANGED <<actual, changes, polling, servers, search, lastSeen, nowSeen>>

-----------------------------------------------------------------------------
\* An upstream goes down, comes back or offers other tools.
UpstreamChanges(u) ==
    /\ changes < MaxChanges
    /\ changes' = changes + 1
    /\ \E offer \in {None, changes + 1} \ {actual[u]} :
        /\ actual' = [actual EXCEPT ![u] = offer]
        /\ nowSeen' = [nowSeen EXCEPT ![u] = @ \cup {offer}]
        /\ lastSeen' = [lastSeen EXCEPT ![u] = @ \cup {offer}]
    /\ UNCHANGED <<pc, polling, servers, serversLock, search, searchLock>>

Poll == PollStarts \/ PollHealth \/ PollTools \/ AwaitServers \/ WriteServers \/ WriteIndex

Others ==
    \/ Poll
    \/ \E s \in Searches : SearchQueues(s)
    \/ \E c \in Calls : CallQueues(c) \/ CallChecks(c) \/ Shows(c) \/ CallEnds(c)
    \/ \E u \in Names : UpstreamChanges(u)

-----------------------------------------------------------------------------
\* What is listed was offered at some moment since the poll that listed it
\* began, and what is unhealthy was down at one: nothing of an earlier poll
\* survives in the list (poller.rs:128-246).
ListedWasOffered ==
    \A u \in Names : servers[u] # Unpolled => servers[u] \in lastSeen[u]

\* The search index and the list come from one poll, except while the poller
\* waits for the lock of the index.
IndexAgrees ==
    pc[Poller] # "index" =>
        \A u \in Names : servers[u] # Unpolled => search[u] = servers[u]

-----------------------------------------------------------------------------
(* Why they hold *)

\* What a poll has found so far was offered since the poll began.
PollIsOfNow ==
    /\ pc[Poller] = "polling" => \A u \in Names : actual[u] \in nowSeen[u]
    /\ pc[Poller] \in {"polling", "servers"} =>
        \A i \in 1..polled : entries[Upstreams[i]] \in nowSeen[Upstreams[i]]
    /\ pc[Poller] = "servers" => polled = Len(Upstreams)

\* The index that is about to be put in is of the poll that has put in the list.
IndexFollows == pc[Poller] = "index" => servers = entries
=============================================================================

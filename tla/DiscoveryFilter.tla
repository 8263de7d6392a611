--------------------------- MODULE DiscoveryFilter ---------------------------
(***************************************************************************)
(* filter_tools_for_discovery (service/catalog/src/http.rs) in a request   *)
(* that carries an identity: the tools it found are authorized one by one  *)
(* (AuthzCache) in a JoinSet of bounded size and put together again in     *)
(* their order.  CatalogSearch composes it with the requests that call it. *)
(***************************************************************************)
EXTENDS Naturals, FiniteSets, SequencesExt

CONSTANT Concurrency  \* authz_concurrency

VARIABLES
    stage,
    tools,     \* what it was called with
    next,      \* the head of `remaining'
    inFlight,  \* the JoinSet: indices whose check was spawned and not joined
    outcomes,  \* what was joined of each
    result     \* the tools returned

filter == <<stage, tools, next, inFlight, outcomes, result>>

Verdicts == {"allowed", "denied", "error"}

\* Every variable keeps its type, a tool is to spawn, in flight or joined, and
\* nothing is collected before all of them are.
FilterTypeOK ==
    /\ stage \in {"none", "joining", "returned", "failed"}
    /\ next \in 1..(Len(tools) + 1)
    /\ outcomes \in [DOMAIN tools -> Verdicts \cup {"none"}]
    /\ stage \in {"none", "joining"} => result = << >>
    /\ stage = "joining" =>
        /\ inFlight \subseteq 1..(next - 1)
        /\ \A i \in DOMAIN tools : outcomes[i] = "none" <=> i >= next \/ i \in inFlight

NotCalled ==
    /\ stage = "none" /\ tools = << >> /\ next = 1
    /\ inFlight = {} /\ outcomes = << >> /\ result = << >>

Smaller(a, b) == IF a <= b THEN a ELSE b

\* Mutant: one check too many.
OneMore == (IF Concurrency = 0 THEN 1 ELSE Concurrency) + 1

\* authz_concurrency.max(1)
Limit == IF Concurrency = 0 THEN 1 ELSE Concurrency

\* The first checks are spawned without an await; an empty list needs none.
Begins(list) ==
    LET first == Smaller(Limit, Len(list)) IN
    /\ stage = "none"
    /\ stage' = IF list = << >> THEN "returned" ELSE "joining"
    /\ tools' = list
    /\ next' = first + 1
    /\ inFlight' = 1..first
    /\ outcomes' = [i \in DOMAIN list |-> "none"]
    /\ UNCHANGED result

Refilled == IF next <= Len(tools) THEN {next} ELSE {}

\* A check ends, on another thread and in any order; join_next.
Joins(i) ==
    /\ stage = "joining" /\ i \in inFlight
    /\ \E end \in Verdicts :
        /\ outcomes' = [outcomes EXCEPT ![i] = end]
        /\ inFlight' = (inFlight \ {i}) \cup Refilled
        /\ next' = IF next \in Refilled THEN next + 1 ELSE next
    /\ UNCHANGED <<stage, tools, result>>

\* A panic is a 500 in a build that unwinds (the release profile aborts, Cargo.toml:53);
\* the JoinSet aborts the checks that are left.
JoinsPanic(i) ==
    /\ stage = "joining" /\ i \in inFlight
    /\ stage' = "failed"
    /\ inFlight' = {}
    /\ UNCHANGED <<tools, next, outcomes, result>>

\* Mutant: a check that failed counts as a denial.
NeverWithheld == FALSE

Withheld == \E i \in DOMAIN tools : outcomes[i] = "error"

\* What a list has at the places that are chosen, in its order
Picked(list, chosen) ==
    LET upTo[n \in 0..Len(list)] ==
            IF n = 0 THEN << >>
            ELSE IF n \in chosen THEN Append(upTo[n - 1], list[n]) ELSE upTo[n - 1]
    IN  upTo[Len(list)]

\* The outcomes are read in the order of the tools; an error is the answer.
Collects ==
    /\ stage = "joining" /\ inFlight = {}
    /\ IF Withheld
       THEN stage' = "failed" /\ UNCHANGED result
       ELSE /\ stage' = "returned"
            /\ result' = Picked(tools, {i \in DOMAIN tools : outcomes[i] = "allowed"})
    /\ UNCHANGED <<tools, next, inFlight, outcomes>>

Filters == Collects \/ \E i \in inFlight : Joins(i) \/ JoinsPanic(i)

\* The request has its answer, or is dropped, and its JoinSet with it.
Ends ==
    /\ stage' = "none" /\ tools' = << >> /\ next' = 1
    /\ inFlight' = {} /\ outcomes' = << >> /\ result' = << >>
=============================================================================

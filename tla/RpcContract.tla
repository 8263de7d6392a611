---------------------------- MODULE RpcContract -----------------------------
(***************************************************************************)
(* What McpClient::request promises its callers: the server answers a      *)
(* request after it was made and at most once, and an answer is handed out *)
(* at most once.  It is the caller's own only if the caller has the client *)
(* to itself: nobody asks after it, and nothing asked for before it is     *)
(* still to come.                                                          *)
(***************************************************************************)
CONSTANTS Callers, None

VARIABLES
    asked,    \* callers that have made their request
    served,   \* callers whose request the server has answered
    outcome,  \* what each caller got: whose answer, "error", or None yet
    alone     \* the caller that has the client to itself

rvars == <<asked, served, outcome, alone>>

RInit ==
    /\ asked = {} /\ served = {}
    /\ outcome = [c \in Callers |-> None]
    /\ alone = None

HandedOut(c) == \E d \in Callers : outcome[d] = c

Ask(c) ==
    /\ c \notin asked
    /\ asked' = asked \cup {c}
    /\ alone' = IF \A d \in asked : HandedOut(d) THEN c ELSE None
    /\ UNCHANGED <<served, outcome>>

Serve(c) ==
    /\ c \in asked \ served
    /\ served' = served \cup {c}
    /\ UNCHANGED <<asked, outcome, alone>>

Return(c, d) ==
    /\ c \in asked /\ outcome[c] = None
    /\ d \in served /\ ~HandedOut(d)
    /\ alone = c => d = c
    /\ outcome' = [outcome EXCEPT ![c] = d]
    /\ UNCHANGED <<asked, served, alone>>

Fail(c) ==
    /\ c \in asked /\ outcome[c] = None
    /\ outcome' = [outcome EXCEPT ![c] = "error"]
    /\ UNCHANGED <<asked, served, alone>>

RNext ==
    \E c \in Callers :
        \/ Ask(c) \/ Serve(c) \/ Fail(c)
        \/ \E d \in Callers : Return(c, d)

RSpec == RInit /\ [][RNext]_rvars
=============================================================================

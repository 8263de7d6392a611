------------------------------ MODULE McpClient ------------------------------
(***************************************************************************)
(* One McpClient (service/mcp-sidecar/src/mcp_client.rs) after its         *)
(* handshake: concurrent callers of `request' share the pipes to one MCP   *)
(* server process, a mutex over its stdin and a mutex over its stdout.     *)
(* tokio's mutexes serve their waiters in order, so each is a queue whose  *)
(* head is the holder.  A caller that times out, or whose HTTP client goes *)
(* away, is dropped at the await it is at.                                 *)
(***************************************************************************)
EXTENDS Naturals, FiniteSets, SequencesExt

CONSTANTS
    Callers,   \* calls of request, one request each
    None,
    InOrder,   \* the server answers in the order it was asked
    Noise,     \* what else the server writes: "note", "ask", "torn" (no JSON)
    MaxNoise,  \* bound on it
    Faults     \* "cancel", "torn" (a cancel in mid-line), "exit"

ASSUME SwitchAssumption == InOrder \in BOOLEAN
ASSUME NoneAssumption ==
    None \notin Callers \cup Nat \cup {"error"} /\ "error" \notin Callers
ASSUME NoiseAssumption == Noise \subseteq {"note", "ask", "torn"} /\ MaxNoise \in Nat
ASSUME FaultAssumption == Faults \subseteq {"cancel", "torn", "exit"}

VARIABLES
    nextId,    \* the AtomicU64
    pc, id,    \* where each caller is, and the id of its request
    got,       \* the id of the answer it returned, 0 for Value::Null
    stdin,     \* who holds and who awaits the stdin mutex
    stdout,    \* who holds and who awaits the stdout mutex
    toServer, toClient,  \* the pipes, as sequences of lines
    halfLine,  \* the pipe to the server ends in half a line
    pending,   \* requests the server has read and not answered
    noise, alive,
    answered,  \* history: the ids the server has answered
    alone,     \* history: the last caller, if every answer asked for before had been returned
    intact     \* history: no dropped caller tore a line

vars == <<nextId, pc, id, got, stdin, stdout, toServer, toClient, halfLine,
          pending, noise, alive, answered, alone, intact>>

Line(kind, i) == [kind |-> kind, id |-> i]
Lines == [kind : {"request", "answer", "note", "ask", "torn"}, id : Nat]

Ended == {"returned", "failed", "cancelled"}
InProgress(c) == pc[c] \notin Ended \cup {"idle"}

\* Every variable keeps its type, and no caller queues twice for a mutex.
TypeOK ==
    /\ nextId \in Nat \ {0}
    /\ pc \in [Callers -> {"idle", "numbered", "stdin", "writing", "written", "stdout"} \cup Ended]
    /\ id \in [Callers -> 0..(nextId - 1)]
    /\ got \in [Callers -> (0..(nextId - 1)) \cup {None}]
    /\ stdin \in Seq(Callers) /\ IsInjective(stdin)
    /\ stdout \in Seq(Callers) /\ IsInjective(stdout)
    /\ toServer \in Seq(Lines) /\ toClient \in Seq(Lines)
    /\ pending \in Seq(1..(nextId - 1))
    /\ halfLine \in BOOLEAN /\ alive \in BOOLEAN
    /\ noise \in 0..MaxNoise
    /\ answered \subseteq 1..(nextId - 1)
    /\ alone \in Callers \cup {None}
    /\ intact \in BOOLEAN

Init ==
    /\ nextId = 1
    /\ pc = [c \in Callers |-> "idle"]
    /\ id = [c \in Callers |-> 0]
    /\ got = [c \in Callers |-> None]
    /\ stdin = <<>> /\ stdout = <<>>
    /\ toServer = <<>> /\ toClient = <<>>
    /\ halfLine = FALSE
    /\ pending = <<>>
    /\ noise = 0
    /\ alive = TRUE
    /\ answered = {}
    /\ alone = None
    /\ intact = TRUE

Holds(c, mutex) == mutex # <<>> /\ Head(mutex) = c

\* Mutant: the guard outlives its block.
NotReleased(mutex) == mutex

Released(mutex) == Tail(mutex)

\* A dropped caller leaves the mutex or its queue, whichever it is in, if any.
Without(mutex, c) ==
    IF c \notin ToSet(mutex) THEN mutex
    ELSE RemoveAt(mutex, CHOOSE i \in DOMAIN mutex : mutex[i] = c)

-----------------------------------------------------------------------------
(* request *)

\* Every answer asked for before has been returned.
NoneIsOut == \A i \in 1..(nextId - 1) : \E d \in Callers : got[d] = i

\* The id is taken before the caller queues for stdin.
Begin(c) ==
    /\ pc[c] = "idle"
    /\ id' = [id EXCEPT ![c] = nextId]
    /\ nextId' = nextId + 1
    /\ pc' = [pc EXCEPT ![c] = "numbered"]
    /\ alone' = IF NoneIsOut THEN c ELSE None
    /\ UNCHANGED <<got, stdin, stdout, toServer, toClient, halfLine, pending, noise, alive,
                   answered, intact>>

AwaitStdin(c) ==
    /\ pc[c] = "numbered"
    /\ stdin' = Append(stdin, c)
    /\ pc' = [pc EXCEPT ![c] = "stdin"]
    /\ UNCHANGED <<nextId, id, got, stdout, toServer, toClient, halfLine, pending, noise, alive,
                   answered, alone, intact>>

\* write_all may have to wait for room in the pipe.
StartWrite(c) ==
    /\ pc[c] = "stdin" /\ Holds(c, stdin)
    /\ pc' = [pc EXCEPT ![c] = "writing"]
    /\ UNCHANGED <<nextId, id, got, stdin, stdout, toServer, toClient, halfLine, pending, noise, alive,
                   answered, alone, intact>>

\* A line that follows half a line makes one unreadable line with it.
FinishWrite(c) ==
    /\ pc[c] = "writing" /\ alive
    /\ toServer' = Append(toServer, Line(IF halfLine THEN "torn" ELSE "request", id[c]))
    /\ halfLine' = FALSE
    /\ stdin' = Released(stdin)
    /\ pc' = [pc EXCEPT ![c] = "written"]
    /\ UNCHANGED <<nextId, id, got, stdout, toClient, pending, noise, alive,
                   answered, alone, intact>>

\* The pipe is broken.
WriteFails(c) ==
    /\ pc[c] = "writing" /\ ~alive
    /\ stdin' = Released(stdin)
    /\ pc' = [pc EXCEPT ![c] = "failed"]
    /\ UNCHANGED <<nextId, id, got, stdout, toServer, toClient, halfLine, pending, noise, alive,
                   answered, alone, intact>>

AwaitStdout(c) ==
    /\ pc[c] = "written"
    /\ stdout' = Append(stdout, c)
    /\ pc' = [pc EXCEPT ![c] = "stdout"]
    /\ UNCHANGED <<nextId, id, got, stdin, toServer, toClient, halfLine, pending, noise, alive,
                   answered, alone, intact>>

\* Mutants: a reader that discards what is not for it; one that leaves the line.
KeepsReadingForOwn(c, line) == line.kind = "note" \/ line.id # id[c]
RestUnread == toClient

\* Only a line without an id is skipped.
KeepsReading(c, line) == line.kind = "note"

Rest == Tail(toClient)

\* read_line under the stdout mutex, which is released before the line is looked
\* at.  Any line with an id ends the call, and its id is not compared.
ReadLine(c) ==
    /\ pc[c] = "stdout" /\ Holds(c, stdout) /\ toClient # <<>>
    /\ LET line == Head(toClient) IN
        \/ /\ KeepsReading(c, line)
           /\ pc' = [pc EXCEPT ![c] = "written"]
           /\ UNCHANGED got
        \/ /\ ~KeepsReading(c, line) /\ line.kind # "torn"
           /\ pc' = [pc EXCEPT ![c] = "returned"]
           /\ got' = [got EXCEPT ![c] = line.id]
        \/ /\ line.kind = "torn"
           /\ pc' = [pc EXCEPT ![c] = "failed"]
           /\ UNCHANGED got
    /\ toClient' = Rest
    /\ stdout' = Released(stdout)
    /\ UNCHANGED <<nextId, id, stdin, toServer, halfLine, pending, noise, alive,
                   answered, alone, intact>>

\* "MCP server closed stdout"
ReadEof(c) ==
    /\ pc[c] = "stdout" /\ Holds(c, stdout)
    /\ toClient = <<>> /\ ~alive
    /\ pc' = [pc EXCEPT ![c] = "failed"]
    /\ stdout' = Released(stdout)
    /\ UNCHANGED <<nextId, id, got, stdin, toServer, toClient, halfLine, pending, noise, alive,
                   answered, alone, intact>>

\* The caller is dropped.  write_all may have written half a line by then, and
\* read_line may have consumed half of one.
Cancel(c) ==
    /\ "cancel" \in Faults /\ InProgress(c)
    /\ \/ UNCHANGED <<halfLine, toClient, intact>>
       \/ /\ "torn" \in Faults /\ pc[c] = "writing"
          /\ halfLine' = TRUE /\ intact' = FALSE
          /\ UNCHANGED toClient
       \/ /\ "torn" \in Faults /\ pc[c] = "stdout" /\ Holds(c, stdout) /\ toClient # <<>>
          /\ toClient' = <<Line("torn", Head(toClient).id)>> \o Tail(toClient)
          /\ intact' = FALSE
          /\ UNCHANGED halfLine
    /\ stdin' = Without(stdin, c)
    /\ stdout' = Without(stdout, c)
    /\ pc' = [pc EXCEPT ![c] = "cancelled"]
    /\ UNCHANGED <<nextId, id, got, toServer, pending, noise, alive, answered, alone>>

-----------------------------------------------------------------------------
(* The MCP server: not in this repository *)

ServerReads ==
    /\ alive /\ toServer # <<>>
    /\ toServer' = Tail(toServer)
    /\ pending' = IF Head(toServer).kind = "torn" THEN pending
                  ELSE Append(pending, Head(toServer).id)
    /\ UNCHANGED <<nextId, pc, id, got, stdin, stdout, toClient, halfLine, noise, alive,
                   answered, alone, intact>>

ServerAnswers ==
    /\ alive
    /\ \E i \in DOMAIN pending :
        /\ InOrder => i = 1
        /\ toClient' = Append(toClient, Line("answer", pending[i]))
        /\ pending' = RemoveAt(pending, i)
        /\ answered' = answered \cup {pending[i]}
    /\ UNCHANGED <<nextId, pc, id, got, stdin, stdout, toServer, halfLine, noise, alive,
                   alone, intact>>

\* A notification, a request of its own (ping), which has an id, or a stray line.
ServerTalks ==
    /\ alive /\ noise < MaxNoise
    /\ \E kind \in Noise : toClient' = Append(toClient, Line(kind, 0))
    /\ noise' = noise + 1
    /\ UNCHANGED <<nextId, pc, id, got, stdin, stdout, toServer, halfLine, pending, alive,
                   answered, alone, intact>>

ServerExits ==
    /\ "exit" \in Faults /\ alive
    /\ alive' = FALSE
    /\ UNCHANGED <<nextId, pc, id, got, stdin, stdout, toServer, toClient, halfLine, pending, noise,
                   answered, alone, intact>>

Finished ==
    /\ \A c \in Callers : pc[c] \in Ended
    /\ UNCHANGED vars

Step(c) ==
    \/ AwaitStdin(c) \/ StartWrite(c) \/ FinishWrite(c) \/ WriteFails(c)
    \/ AwaitStdout(c) \/ ReadLine(c) \/ ReadEof(c)

Next ==
    \/ \E c \in Callers : Begin(c) \/ Step(c) \/ Cancel(c)
    \/ ServerReads \/ ServerAnswers \/ ServerTalks \/ ServerExits
    \/ Finished

Spec == Init /\ [][Next]_vars

\* The runtime runs every task that can run; the server reads what it is sent
\* and answers what it has read.
FairSpec ==
    /\ Spec
    /\ \A c \in Callers : WF_vars(Step(c))
    /\ WF_vars(ServerReads) /\ WF_vars(ServerAnswers)

-----------------------------------------------------------------------------
Waiting == {c \in Callers : pc[c] \in {"written", "stdout"}}

\* The lines that end a call
Answers(lines) == {i \in DOMAIN lines : lines[i].kind # "note"}

\* While the server lives and no line was torn, there is a line on its way for
\* every caller that waits for one: nobody consumes more than one answer, not
\* even a caller that is dropped (mcp_client.rs:223-254).
NobodyStarves ==
    alive /\ intact =>
        Cardinality(Waiting)
            <= Len(toServer) + Len(pending) + Cardinality(Answers(toClient))

\* Every call comes back, with an answer or an error, unless a dropped caller tore
\* a line: the request glued to it is never answered (mcp_client.rs:202-255).
EveryCallReturns ==
    \A c \in Callers : pc[c] = "numbered" ~> pc[c] \in Ended \/ ~intact

\* The answer a call returns is the answer to its own request
\* (mcp-sidecar/README.md:9; the code does not keep it).
OwnAnswer == \A c \in Callers : pc[c] = "returned" => got[c] = id[c]

-----------------------------------------------------------------------------
CallerOf(i) == CHOOSE c \in Callers : id[c] = i

Asked == {c \in Callers : pc[c] # "idle"}
Served == {CallerOf(i) : i \in answered}

\* Whose answer a call returned.  Value::Null is what a request of the server's
\* leaves a caller with.
Outcome == [c \in Callers |->
    IF pc[c] = "returned" /\ got[c] # 0 THEN CallerOf(got[c])
    ELSE IF pc[c] \in Ended THEN "error" ELSE None]

Rpc == INSTANCE RpcContract WITH asked <- Asked, served <- Served, outcome <- Outcome

\* Whatever callers overlap or are dropped, and whatever else the server writes:
\* an answer is returned at most once and after it was asked for, and a call that
\* has the client to itself, with no answer left over, returns its own
\* (mcp_client.rs:202-255).
ImplementsRpc == Rpc!RSpec

-----------------------------------------------------------------------------
(* Why they hold *)

\* Who holds or awaits a mutex is in its queue, once; who writes holds it.
MutexesFit ==
    /\ IsInjective(stdin) /\ ToSet(stdin) = {c \in Callers : pc[c] \in {"stdin", "writing"}}
    /\ IsInjective(stdout) /\ ToSet(stdout) = {c \in Callers : pc[c] = "stdout"}
    /\ \A c \in Callers : pc[c] = "writing" => Holds(c, stdin)

\* Each id is one caller's, and the last caller is alone as long as every id before
\* its own has been returned.
IdsFit ==
    /\ \A c \in Callers : id[c] = 0 <=> pc[c] = "idle"
    /\ \A i \in 1..(nextId - 1) : \E c \in Callers : id[c] = i
    /\ \A c, d \in Callers : id[c] = id[d] /\ id[c] # 0 => c = d
    /\ \A c \in Callers : got[c] # None <=> pc[c] = "returned"
    /\ alone # None =>
        /\ id[alone] = nextId - 1
        /\ \A i \in 1..(nextId - 2) : \E d \in Callers : got[d] = i

Requested == {toServer[i].id : i \in {j \in DOMAIN toServer : toServer[j].kind = "request"}}

\* A request is in one place: still to be written, on its way, with the server, or
\* answered; and its answer is on its way or was returned.
RequestsFit ==
    /\ \A i, j \in DOMAIN toServer :
        toServer[i].kind = "request" /\ toServer[j] = toServer[i] => i = j
    /\ Requested \subseteq 1..(nextId - 1)
    /\ IsInjective(pending) /\ ToSet(pending) \cap (Requested \cup answered) = {}
    /\ Requested \cap answered = {}
    /\ \A c \in Callers : pc[c] \in {"numbered", "stdin", "writing"} =>
        id[c] \notin Requested \cup ToSet(pending) \cup answered

AnswersFit ==
    /\ \A i, j \in DOMAIN toClient :
        toClient[i].kind = "answer" /\ toClient[j] = toClient[i] => i = j
    /\ \A i \in DOMAIN toClient :
        /\ toClient[i].kind # "request"
        /\ toClient[i].kind = "answer" =>
            toClient[i].id \in answered /\ \A c \in Callers : got[c] # toClient[i].id
        /\ toClient[i].kind = "ask" => toClient[i].id = 0
    /\ \A c \in Callers : got[c] \in answered \cup {0, None}

\* Only a dropped caller makes a line to the server unreadable.
LinesAreWhole ==
    /\ \A i \in DOMAIN toServer :
        toServer[i].kind = "request" \/ (toServer[i].kind = "torn" /\ ~intact)
    /\ intact => ~halfLine

Inductive ==
    /\ TypeOK /\ MutexesFit /\ IdsFit /\ RequestsFit /\ AnswersFit /\ LinesAreWhole
    /\ IsFiniteSet(Waiting) /\ NobodyStarves
=============================================================================

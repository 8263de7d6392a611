# A TLA+ model of smith-tool-gateway

TLA+ modules for the parts of smith-tool-gateway whose behaviour depends on what
overlaps with what, or on a rule with many cases; TLC configurations that check them
on small instances; and TLAPS proofs about all of them. Paths are relative to the
repository; `tenancy.rs:118` is a line of the file the module of that section is
about.

1. [The system](#1-the-system)
2. [The modules](#2-the-modules)
3. [The runs](#3-the-runs)
4. [Fairness](#4-fairness)
5. [What the code does not keep](#5-what-the-code-does-not-keep)
6. [What is proved](#6-what-is-proved)
7. [What is left out](#7-what-is-left-out)
8. [Plan](#8-plan)

## 1. The system

smith-tool-gateway puts command line tools in front of MCP servers and REST
APIs. Four Rust services and a Go client make it up.

| part | source | state it keeps | operations |
|---|---|---|---|
| MCP client | service/mcp-sidecar/src/mcp_client.rs | one child process, a mutex over its stdin and one over its stdout, the next request id | spawn and handshake, request, shutdown |
| tenant pool | service/mcp-sidecar/src/tenancy.rs | discovery instance (RwLock), map tenant -> instance with last use (Mutex) | call_client, reload, active_tenant_clients |
| sidecar HTTP | service/mcp-sidecar/src/http.rs | middleware config (RwLock) | health, tools, call, resources, reload |
| middleware | service/mcp-sidecar/src/middleware/ | none (pure) | filters, input and output transforms, interpolation |
| catalog poller | service/catalog/src/poller.rs, search.rs | server list and search index (two RwLocks) | poll every upstream, rebuild both |
| catalog HTTP | service/catalog/src/http.rs | discovery authorization cache (RwLock) | list, search, call, authorize through OPA |
| OAuth | service/catalog/src/oauth.rs, http.rs | pending authorizations, two credential files | start, callback, reload of an upstream |
| pg-auth-gateway | service/pg-auth-gateway/src/main.rs | per connection: session identity and mode; in Postgres: row level security bindings | startup, a query between bind and unbind |
| API sidecar | service/api-sidecar/src/ | compiled snapshot (RwLock) | load and compile an OpenAPI document, execute a tool, reload |
| CLI | internal/smithcli/app.go, cmd/smith | none | fetch tools, build commands, call |

How they interact. An agent runs the CLI, or calls the catalog, which polls the
sidecars over HTTP, lists and searches their tools, asks OPA which of them the
caller may see, and forwards calls. An MCP sidecar runs one MCP server process
for discovery and, when tenancy is on, one per tenant; the requests of all HTTP
handlers meet in the pool's mutex, in the two mutexes of a process's pipes, and
in the middleware lock. An API sidecar has the same HTTP face and maps calls to
requests of a REST API. An OAuth callback writes credentials to files that an
MCP server reads at its start, then asks the sidecar to reload. pg-auth-gateway
stands between a database MCP server and Postgres and lets each query run as
the user its connection logged in as.

What is hard in it, and what makes each part correct:

| part | what is hard | what must hold |
|---|---|---|
| MCP client | callers share one pipe in each direction; a timed-out caller is dropped wherever it awaits, half a line in or out | an answer goes to at most one caller, after it was asked for; nobody waits for an answer another one took; every call comes back |
| tenant pool | a spawn holds the mutex across two round trips; reload swaps one lock's state and drains another's; time is read before the mutex is awaited; any handler can be dropped | no instance is shared by two tenants, shut down while it can be handed out, or forgotten; the limit holds; a reload leaves nothing old |
| sidecar HTTP | a call holds the read lock for as long as the MCP server takes; a fair lock makes later readers wait for the reload that waits for it | what one configuration judged is sent, and its redactions cover the answer; a reload takes effect; nothing waits for ever |
| authorization cache | time is read, then the lock awaited; a lookup finds an expired entry, gives the read lock back and takes the write lock; answers of OPA overtake each other | a decision that counts is the caller's own and no older than a bound; the limit holds; a live entry stays |
| discovery filter | checks run beside one another and end in any order, with an error or a panic | order and completeness of the listing, bounded fan-out, an error withholds the listing |
| poller and index | two locks, two asks per upstream, searches that hold the lock while OPA is asked | list and index agree, what is listed was offered, both converge, every search ends |
| OAuth | tokens come back twice or late, callbacks overlap, files are written one after the other, a crash in between | tokens are one-time, a reloaded server has the latest credentials, one failed write does not disconnect |
| pg-auth-gateway | pids are used again, a binding expires, a query fails, an answer is lost | a query runs as its owner or nobody, nothing is left bound |
| API sidecar | a start or reload probes several paths, then compiles, which may end the process, then swaps | a valid document is not passed over; what is served is as new as the last reload; a failed reload leaves it |
| OpenAPI compiler | declarations are merged, overridden, flattened into one object and taken apart again; a path is put together from texts and parsed again | the request is one the operation allows and carries every argument |
| middleware | filters, transforms and interpolation in a fixed order, some of them under a pattern that does not compile | nothing a filter denies goes on; what a redaction matches is in no answer |
| CLI | two parsers with names in common read one line; flags, JSON and a schema must agree | arguments arrive as the sidecar validates them, flags before JSON |

`PROJECT.json` lists the places in the code where each of these can go wrong.

## 2. The modules

Each module opens with what it is about; its actions carry the names of the
code's functions where they have one. An action is the code between two points
where another task can run: a stretch between two `await`s, or a critical
section whose lock is released before the next `await`. Where a handler can be
dropped (the client hung up, or a timeout passed) there is an action that drops
it. Instances, requests and messages are model values; text, JSON and HTTP
status codes are left out unless a property tells them apart.

| component | module | on top of it |
|---|---|---|
| MCP client | McpClient | RpcContract (what it promises), McpClientProofs |
| tenant pool | TenantPool, MCTenantPool | PoolContract (what it promises), TenantPoolProofs |
| sidecar HTTP | SidecarHttp, RwQueue, MCSidecarHttp | SidecarHttpProofs |
| middleware | Middleware, of which SidecarHttp is made | SidecarHttpProofs |
| authorization cache | AuthzCache, MCAuthzCache | AuthzCacheProofs |
| discovery filter | DiscoveryFilter | CatalogSearch |
| poller and index | CatalogIndex, RwQueue | CatalogSearch (with the filter and the search), MCCatalogSearch, CatalogProofs |
| OAuth | OAuthFlow, MCOAuthFlow | OAuthFlowProofs |
| pg-auth-gateway | PgGateway, MCPgGateway | PgGatewayProofs |
| API sidecar | ApiSidecar, MCApiSidecar | ApiSidecarProofs |
| OpenAPI compiler | ApiCompiler | SmithCli, ApiSidecarProofs |
| CLI | SmithCli (in front of ApiCompiler), MCSmithCli | ApiSidecarProofs |

Three modules are compositions: SidecarHttp runs Middleware's operators under
its lock, CatalogSearch joins the actions of CatalogIndex and DiscoveryFilter,
SmithCli sends calls to ApiCompiler's `Execute`. The others are joined by what
one assumes of another rather than by one large state space. SidecarHttp's
`Resolve` and `ReloadRespawns` stand for TenantPool's `call_client` and
`reload`; TenantPool's handshake stands for McpClient's requests;
DiscoveryFilter's `Joins` is AuthzCache's `Returns`; OAuthFlow's
`ReloadSpawns`..`ReloadInstalls` is the `reload` of a sidecar.

**McpClient.** `stdin` and `stdout` are queues of callers, whose head holds the
mutex: tokio's mutex serves in order. `toServer` and `toClient` are the pipes,
`pending` what the server has read and not answered. A request is
`Begin`, `AwaitStdin`, `StartWrite`, `FinishWrite` (or `WriteFails`),
`AwaitStdout`, and `ReadLine` until a line with an id, or `ReadEof`. `Cancel`
drops a caller wherever it is; a line it leaves half written, or half read, is
a "torn" line. The server may answer out of order, write notifications and
requests of its own, tear a line and exit. An error answer and a result are not
told apart: both end the request.

**TenantPool.** One request has one position `pc`, one `op`, and the instance
it spawns, if it does, bears its name; `Boot` is the discovery instance the
sidecar starts with. `lock` is the tenants mutex where it is held across an
await (`LockSpawn` to `CallSpawned`); elsewhere the critical section is one
action. `call_client` is `CallArrives`, then one of `LockHit`, `LockFull`,
`LockSpawn`, all of which prune first as the code does, then `SpawnInitialized`
and `CallSpawned` or `SpawnFails`. `reload` is `ReloadArrives`,
`SpawnInitialized`, `ReloadSpawned` (the discovery lock), `ReloadDrains` (the
tenants mutex), `Shuts`. `proc` is the life of a process, `doomed[r]` the
instances a handler has taken out and must shut down, `outdated` a history
variable: what was spawned or being spawned when a reload drained the pool.
A tenant's key is derived by `ScopeName` as `TenantScope::from_identity` does,
one mode at a time.

**SidecarHttp.** `lock` is the queue of the middleware RwLock (RwQueue), `mw`
the configuration in it, known by the edit of its file. A call gets its
instance and its identity (`Resolve`), looks the tool up, queues for reading, is
filtered and transformed (`Enter`), waits for the MCP server with the lock held,
and is transformed back (`Answered`). `args`, `sent`, `given` and `answer` are
what comes in, goes to the server, comes from it and goes out. A list reads the
configuration and gives the lock back. A reload respawns, reads the file, queues
for writing, writes.

**Middleware.** Operators only, in the order of the code: `Interpolated` over
the texts of a configuration as it is loaded, `Denied` over a chain of filters,
`TransformedInput` and `TransformedOutput` over a chain of transforms. Arguments
map names to words. A result maps paths to leaves, and a text is the set of the
words in it, so that "matches a pattern" is "has one of its words". A template
that is no JSON makes one text of the whole result, keys and numbers included; an
extract with an empty pointer takes the whole result. A pattern may be empty, as that
of an environment variable that is not set, and then matches every text.

**RwQueue.** tokio's fair RwLock as a sequence of entries: one holds the lock
when it is first, or a read with only reads before it.

**AuthzCache.** A check takes the time and looks (`Hits`, `Misses`,
`FindsExpired`, `RemovesExpired`), asks OPA (`Answered`, `Unavailable`) and
stores (`Stores`, which prunes expired entries and then the ones that expire
first). `clock` ticks at any moment, but no check waits longer than `Delay` at
one point. `flipped[i]` is a history variable: when OPA's policy on `i` last
changed.

**DiscoveryFilter.** A JoinSet of at most `Concurrency` checks, refilled as
they are joined; then the verdicts are put in the order of the tools. A check's
end and its `join_next` are one step: nothing else looks at what has ended.

**CatalogIndex.** The poller asks `/health` and `/tools` of one upstream after
the other, then takes one lock, then the other. A search holds the index until
its filter has returned; a listing copies the tools and gives the lock back; a
call, `/api/servers` and `/health` give it back too. `lastSeen` is a history
variable: what an upstream offered since the poll of it began.

**CatalogSearch.** The filter of one task is followed check by check from what
it found: a listing, the tools of a server, or what a query ranked first. What a
query matches and how it ranks is any choice; the limit, and then the server,
cut the ranking as the code does. Names of servers are compared in lower case
(`Lowercase`), so that two servers may answer to one name.

**OAuthFlow.** `pending` maps state tokens to upstreams with their age;
a callback takes the token, exchanges the code, truncates and fills the two
files one after the other, reloads the upstream. `Crash` forgets `pending` and
every callback; the files stay. `CheckFirst` and `CheckSecond` are the poller's
look at the files (`has_valid_credentials`).

**PgGateway.** A connection logs in, then for each query connects a session of
its own, asks the gatekeeper, configures, reads the binding key (pid and start
time), binds, runs, unbinds. Postgres may end any backend, use a pid again,
fail any statement, do one and lose its answer, and let a binding expire.

**ApiSidecar.** The start of the process and a reload probe `Candidates` paths in
order while the site changes, take the first document that parses, look at its root,
resolve the server that calls go to, which fails if the document names one that
makes no URL (`HasBase`), compile and swap. A document has schemas that refer to
each other; when following the references from what an operation uses comes back to
where it has been, compiling it is a recursion without end (`Overflows`), which ends
the process (`Aborts`), and the process is started again. A call uses the snapshot
it started with. `steady[r]` is a history variable: the paths that have had a valid
document for the whole search.

**ApiCompiler.** `compile_tools` goes through the operations of a document:
parameters of the path item and the operation, a body that is an object or an
allOf of objects, collisions, unsupported kinds, duplicate names; then
`execute_tool` validates arguments and takes them apart. A value is known by its
type, unless it is the text `.` or `..` (`Dots`): where a placeholder is a whole
segment of the path (`whole`), parsing the URL takes that text for a step
(`Dissolves`), and the request goes to another path. A configured secret is added to
the query or the headers (`Sent`). What an OpenAPI
operation asks of a request (`Meets`) is written down beside it, from the
declarations and without the compiler's operators. `Operation`, `Schema` and the
like are what serde reads; documents are any sequences of operations of them.

**SmithCli.** A command line is the tool it names, flags with texts, and what
`--args-json` holds. `Boots` is the parser that looks for global flags in the
whole line, `Builds` the making of a command of every tool, `Payload` the
arguments that one command sends; `Runs` gives them to `Execute`. A text is a
word, digits, a list or dots, and is parsed as the schema's type asks (`Argument`).
`Accepted` are the texts of global flags with which the line still goes to this catalog
as this caller; with others it is refused or goes elsewhere, which is not followed.

## 3. The runs

`tlc -config X.cfg M` runs a configuration; all of them together take a few
minutes. `PROJECT.json` gives for every property a mutant: a plausible bug,
written in the module beside the definition it replaces and marked `Mutant:`,
under which TLC finds the property violated.

| run | module, configuration | what it asks | distinct states |
|---|---|---|---|
| mcp_concurrent | McpClient, McpConcurrent.cfg | three callers, a server in any order with one line of noise, dropped callers, torn lines, an exit | 847 k |
| mcp_mixed_answers | McpClient, McpMixedAnswers.cfg | two callers, no fault, a server that answers in order: is a result the caller's own? It is not | 231 until the violation |
| pool_safety | MCTenantPool, PoolSafety.cfg | calls, reloads and health checks in all three tenancy modes, with failed spawns, dropped handlers and exits | 738 k |
| pool_live | MCTenantPool, PoolLive.cfg | the same without faults, one mode: is everything resolved, everything removed shut down? | 186 k |
| http | MCSidecarHttp, Http.cfg | a call, a list and two reloads around the middleware lock, with three configurations | 327 k |
| authz | MCAuthzCache, Authz.cfg | two checks, a user in two roles, OPA failing and changing its mind | 2.7 M |
| catalog | MCCatalogSearch, Catalog.cfg | a poller, two upstreams of which one changes, a search or listing filtered check by check, another search, one call | 511 k |
| oauth | MCOAuthFlow, OAuth.cfg | three callbacks over two state tokens, two google upstreams, up to two faults | 433 k |
| pg_gateway | MCPgGateway, PgGateway.cfg | two connections, two identities, two pids used again | 1.2 M |
| api_reload | MCApiSidecar, ApiReload.cfg | starts, two reloads, a call, a site whose three paths change, schemas that refer to themselves or not, a server that makes a URL or not | 3.1 M |
| api_circle | MCApiSidecar, ApiCircle.cfg | the same with one reload: does the sidecar keep serving when a reload fails? It does not | 1.6 k until the violation |
| api_compile | MCSmithCli, Cli.cfg | every operation over a small vocabulary, every document of three operations, dots for any text, a key in the query, and command lines for each tool | 124 k |

### What they show

**mcp_concurrent.** `NobodyStarves`: for every caller that still needs an
answer there is a line on its way; a client that reads on after an answer, or
throws one away, breaks it. `EveryCallReturns`: so every call comes back, even
if the process exits at any moment. `ImplementsRpc`: RpcContract, the most that
can be promised by a client that does not compare ids: an answer is handed out
at most once and never before its request, and a caller that has the client to
itself gets its own. Three callers are one that writes, one that reads and one
that is dropped; with two, no answer can pass from the dropped one to a third.
One line of noise is enough for a caller to take the server's own request for
an answer, which shifts every later answer by one. A line is torn by a dropped
caller or by the exit.

**pool_safety.** `PoolBounded`, `Isolation`, `PooledNotShut`, `SoleDisposer`,
`ReloadLeavesNothingOld` are the promises of the table in section 1;
`ImplementsContract` is PoolContract. Three requests let one hold the mutex for a
spawn while another waits with an old `now` and a third reloads. Four identities
contain the cases of `ScopeName` that differ: none, no session, a Smith user, a
plain principal, two sessions. A limit of 1 makes every second tenant meet it, a TTL
of 1 and one tick make the difference between idle and in use. Requests are
interchangeable (SYMMETRY).

**pool_live.** `NothingLost`: a live process is pooled, in the discovery slot,
being spawned, or in the hands of someone who will shut it down.
`RemovedAreShut`: who has it does. `CallsResolve`: who queues for the pool
comes out of it. A configured limit of 0 is the code's 1. No SYMMETRY, which is
not sound for liveness.

**http.** `OnlyJudgedIsSent`: what reaches the MCP server has passed every filter of
one configuration, whatever reloads run. `IdentityIsVerified`: a client that says
who it is in its arguments is not believed. `NothingRedactedIsAnswered`: what a
redact matches in a text of the result is in no answer, though other transforms take
the result apart, and a reload between the call and the answer cannot remove it.
`SeesReload`, `ReloadTakesEffect`, `EveryRequestEnds` are about the lock. Two
reloads are the least that overlap; with two edits of the file each can read another
version. One call and one list suffice, as readers do not exclude each other: what
matters is a reader before and one behind a waiting writer. The three configurations
have every kind of filter and transform, a variable that is set, one that is not, so
that a pattern and a pointer are empty, patterns that do not compile, and a hidden
tool; the three bodies meet each filter in both ways.

**authz.** `DecisionsRecent`: a decision that a lookup takes is one OPA made,
for this user, role, channel and tool, less than `Ttl + 2 * Delay` ago. The two
waits are real: one between the question and the answer, one between the answer
and the store, which counts the ttl from its own end. `LiveStay`: nothing that
has not expired leaves, except for room, and then what expires first. With one
slot for two keys every store evicts; two checks on one key are a lookup and
the renewal it must not undo. `MaxClock` 4 is more than the bound of 2 the
property speaks of.

**catalog.** `FanOut`: the checks in flight are the limit, or all that are left.
`ListIsFiltered`: what is answered is what was found without the denied, in its
order, and nothing at all when a check failed. `ListedWasOffered`: nothing of an
older poll survives in the list. `IndexAgrees`: list and index differ only while
the poller is between their locks. `Converges`: whatever the load of searches,
and of calls that never end, both come to show the upstreams as they are.
`EveryFindEnds`: a search that waits behind the poller, which waits behind a
search, which waits for OPA, still ends. One change can fall between `/health`
and `/tools` of one upstream. An offer has one or two tools, so that three meet
a limit of two for the filter and of two for the search.

**oauth.** `TokensAreOneTime`, `ReloadedHasLatest`, `StaysConnected`, over
three callbacks so that two can carry one token and a third overlap. `TTL` 2
distinguishes a fresh, an old and an expired token. `MaxFaults` 2: a failure and
a crash, or two of one kind; `StaysConnected` is about at most one, since two can
lose both files, one each.

**pg_gateway.** `RunsAsOwner`: a query runs as its connection's user or, when
its binding has expired, as nobody, never as another's. `NoneLeftBehind`: a
binding outlives its query only where Postgres failed to make or remove it.
Four starts of backends over two pids use each pid again. No deadlock check:
when the starts are used up the system stops.

**api_reload.** `SeesReload`: a call that starts after a reload that no other
overlapped runs with what that reload compiled, or something newer.
`ProbeFindsValid`: no search passes over a path that has had a valid document all
the time, whether it stops at a later one or ends in vain. Three paths are one
before, one at and one behind the first valid one; two changes move it to where the
probe has been. Four schemas make a diamond, which compiles, or a diamond with a
schema that refers to itself, which does not. No deadlock check: every reload and
call comes once.

**api_circle.** Section 5.

**api_compile.** `RequestMeets`: what is sent is a request the operation allows.
`ArgumentsArrive`: each argument is in one place of it, as it was given, and beside
the secret nothing else is. `ToolsAreCallable`: no tool rejects every call. One
operation with at most one parameter of the path item and two of its own out of
eight that cover every place, two names, required or not, and types that clash, with
each of sixteen bodies; and every document of three plain operations, where names
repeat and some are hidden. `FlagsArrive`: of a line that was sent, each flag
reaches the target service as the type the document asks for, over what
`--args-json` says, and the sidecar refuses it only for what the CLI cannot know
better. `FlagsSuffice`: every tool can be called by flags. Both relate the
compiler's schema, the CLI's parsers and the sidecar's validation. A property is
named `output`, like a global flag, in one body and `args-json` in another. Any text
of a call may be dots, one of the placeholders may be a whole segment, and a key
goes into the query under a name that some operations declare. Two exceptions are
named for them (section 5): dots that are a segment for themselves (`Stepped`), and,
in `RequestMeets`, an operation that declares the key. Some bodies have keys beside
an allOf, or require what they do not declare: `RequestMeets`, `ToolsAreCallable`
and `FlagsSuffice` make an exception of them (`Straight`), since TLC finds the first
two violated otherwise (section 5). No deadlock check: a run ends with a call.

Every module also has a type invariant (`TypeOK`; `IndexTypeOK` and
`FilterTypeOK` where two are composed). They are proved, as `TypeCorrect` (as
`CompilerTypeCorrect` for the compiler), and with them the `Inductive` the proofs
use (`CompilerInductive`). The configurations do not list them, for the sake of
time: add `Inductive` to one when changing a module, before its proof is tried.

## 4. Fairness

Safety runs assume none. Liveness assumes that

- tokio runs every task that can run: `WF` of a request's steps. TenantPool
  needs `SF` for taking the mutex, since it does not model the queue of tokio's
  mutex, which is first in, first out; McpClient, SidecarHttp and CatalogIndex
  have the queue and need only `WF`;
- `initialize` ends, since the code gives it a timeout; a spawn fails or goes on;
- in `ListingSpec` only, `tools/list` ends: the code sets no timeout for it, and
  without that assumption `CallsResolve` is false (section 5). SidecarHttp takes
  the same for the respawn of a reload;
- a call to an MCP server is **not** expected to be answered in SidecarHttp:
  the timeout of the call ends it. In CatalogSearch an upstream may hang for ever;
- OPA ends what it is asked, in error if not else: its HTTP client has a timeout;
- in McpClient the server reads its stdin and answers what it has read, or
  exits: the property is about what the client does with the answers.

Nothing is assumed of dropped handlers, ticks, crashes, edits of files, changes
of policies and upstreams: they may happen or not.

## 5. What the code does not keep

**A result may be another caller's** (mcp_mixed_answers). `request` takes the
first line with an id for its answer and never compares the id with the one it
sent (mcp_client.rs:243); stdin is released before stdout is awaited, so two
calls can read in another order than they wrote. mcp-sidecar/README.md:9: "the
sidecar forwards the arguments to the child over stdio and returns the result
as HTTP JSON". The run has two calls, no fault and a server that answers in
order. The same comparison is missing when a call times out: its answer stays in
the pipe and the next call returns it, and so on from there (RpcContract allows
it: `alone` is None for all of them).

**A reload can end the sidecar** (api_circle). `compile_schema` and
`resolve_component` (compiler.rs:669-773) call themselves for every `$ref` and do
not remember where they have been. When an operation uses a schema that refers
to itself, as the schema of a tree does, the stack overflows; that is no error
and no panic, so the process ends, and at its next start does again.
api-sidecar/README.md:84: "If the reload fails, the sidecar keeps serving the
last known good snapshot". The same documentation lists local `$ref` as
supported (line 164) and has an operation it cannot compile skipped with a warning.

Other behaviour that the properties make an exception for, or that bounds them:

- *Overlapping reloads* are not ordered, neither in the MCP sidecar
  (http.rs:329: the file is read before the lock is awaited) nor in the API
  sidecar (http.rs:141). The one that read the older file may write last. The
  history variable `overlapped` names them, and `SeesReload` and
  `ReloadTakesEffect` are about the others. The same holds of overlapping OAuth
  callbacks.
- *An instance in use can be shut down.* It is judged idle by the start of its
  last call (tenancy.rs:222). Its tenant's next call spawns another before the
  first is down.
- *Instances can leak.* A failed spawn returns with the evicted instances out
  of the pool and not shut down (tenancy.rs:148), and so does a handler that is
  dropped among its shutdowns. `NothingLost` and `RemovedAreShut` are stated
  without these faults, `SoleDisposer` and `PooledNotShut` with them.
- *tools/list has no timeout* (mcp_client.rs:176) and runs under the tenants
  mutex: a server that does not answer it stops every call, health check and reload.
- *Neither resources/list nor resources/read has a timeout* around it in the
  handlers of the MCP sidecar; they do not take the middleware lock.
- *With `call_timeout` 0* a call that hangs keeps the middleware lock and, once
  a reload waits behind it, stops the sidecar.
- *One callback reloads one upstream*, though google and google-analytics share
  their credentials.
- *The probe of an API sidecar stops* at a document that parses but is not
  OpenAPI, or that is cut off, although a later path may have a valid one, against
  api-sidecar/README.md:138, "uses the first valid OpenAPI 3.x document".
  `ProbeFindsValid` is about a search that goes on to a later path or to the end.
  The HTTP client has no timeout of its own (main.rs:72).
- *Dots are a step in a path* (compiler.rs:962, 147). `urlencoding::encode` leaves
  them alone, and `Url::set_path` takes a segment `.` or `..` for a step. An argument
  `.` or `..` that is a whole segment of the path is lost, with `..` the segment
  before it too, and the request goes to another path than the operation's.
  `ArgumentsArrive` and `RequestMeets` make an exception of it (`Stepped`).
- *An empty text* in a path leaves an empty segment, and an empty list in the query
  sends nothing (compiler.rs:1004), even if it is required. The model has no empty values.
- *The path of a target base URL is replaced* by the operation's (compiler.rs:147), so
  that a server `https://host/v1` is called without `/v1`. The model has none.
- *The secret is added to what the operation declares* (compiler.rs:150, 170): if a
  parameter has its name and place, both are sent. `RequestMeets` excepts operations
  that declare it.
- *An enum is shown and not enforced*: it is copied into the schema of the tool
  (compiler.rs:742), and `validate_value` (905-954) does not look at it. So
  `RequestMeets` and `FlagsArrive` are about places, names and types, not about
  which values of a type are allowed.
- *Keys beside an allOf* replace what it merges (compiler.rs:717), each by itself:
  `properties` alone takes the members' fields away and leaves what they require,
  so that the tool rejects every call: an argument is missing or not known.
- *A body may require what it does not declare* (compiler.rs:547). Such a name is
  required of the call, but no field of the body: either every call is rejected,
  or a parameter has that name and the argument is sent there and not in the body.
  OpenAPI allows it, api-sidecar does not warn of it.
- *Operations of one name*: the first is a tool, the others are warned of.
- *A path parameter is required only if the document says so* (compiler.rs:504);
  api-sidecar/README.md:200 has "Path params become required fields". OpenAPI
  demands that documents say so. In one that does not, a call without the argument
  passes validation and fails when the path is rendered.
- *A block whose pattern does not compile blocks nothing* (filter.rs:31). An
  environment variable that is not set makes a pattern of the empty text, which does
  compile: a block with it denies every call that has the argument, and a redact with
  it puts its replacement between all characters. A redact whose pattern does not
  compile fails the call when the tool has run.
- *Filters judge what the caller sends*, before the transforms of the input:
  what these inject or rename is not judged. Numbers and keys are not redacted.
- *A search takes the fifty best of all servers* before it asks for the server
  and before it takes out what is denied (search.rs:91), so an answer may lack
  tools that would be allowed.
- *A property named `args-json`* makes the CLI panic when it builds the commands (a
  second flag of one name), whichever tool is called; one named like a global flag
  is read by both parsers (app.go:211-218): a value the global flag does not take
  ends the CLI, and one it takes is used, so that `catalog-url` sends the call to
  another catalog, `api-token` as another caller. `FlagsSuffice` is about the
  others. docs/cli.md:5 writes `--invoice-id` for a parameter `invoice_id`; the flag
  is `--invoice_id`.
- *Duplicate tool names* are skipped with a warning (compiler.rs:419), which
  api-sidecar/README.md:259 calls a compile error.
- *Health and tools may be of two instances* of one upstream (poller.rs:191), which
  restarted between the two requests. `ListedWasOffered` says that each of them was
  offered since the poll began.
- *A call may make an instance look idle earlier than it is*: the time it puts down
  was read before it waited for the pool (tenancy.rs:118). No property says how long
  an idle instance is kept.
- *The server's own request is taken for an answer* with no result, and the caller is
  told null (mcp_client.rs:243). RpcContract counts it as an error.
- *A denial may stand for no decision*: an answer of OPA that cannot be parsed
  is cached as a denial (catalog http.rs:137).

## 6. What is proved

TLAPS proves the following for every value of the constants: any number of
callers, requests, tenants, connections, tools and configurations, any limits and
times, chains of filters and transforms of any length, and OpenAPI documents with
any number of operations, parameters, fields and members of an allOf.

| module | theorems | lemmas that carry them |
|---|---|---|
| McpClientProofs | `InductiveHolds`, `TypeCorrect`, `NobodyStarvesHolds`, `ClientImplementsRpc` (McpClient implements RpcContract) | one lemma per action, `AnswersGrow`, `AnswersShrink`, `StepRefines` |
| TenantPoolProofs | `InductiveHolds`, `TypeCorrect`, `PoolIsBounded`, `TenantsAreIsolated`, `PooledIsNotShut`, `OneDisposer`, `ReloadClearsThePool`, `NothingIsLost`, `PoolImplementsContract` (TenantPool implements PoolContract) | `InductiveStep`, `StepLosesNothing`, `StepRefines` |
| SidecarHttpProofs | `InductiveHolds`, `TypeCorrect`, `ReloadsAreSeen`, `ReloadsTakeEffect`, `CallsAreFiltered`, `CallersAreVerified`, `RedactedIsGone` | one lemma per action; `IdentityIsKeptByChain`, `RedactsLast`; `LeavingQueue`, `JoiningQueue` |
| AuthzCacheProofs | `InductiveHolds`, `TypeCorrect`, `CacheIsBounded`, `DecisionsAreRecent`, `LiveEntriesStay` (an action property) | `TypeStep`, `SizeStep`, `ChecksStep`, `EntriesStep`, `LiveStaysStep` |
| CatalogProofs | `InductiveHolds`, `TypeCorrect`, `ListsAreOfOnePoll`, `IndexIsOfTheList`, `SlotsAreBounded`, `AnswersAreFiltered` | one lemma per action; `LeftIsCounted`, `PickedInOrder`; `Queues`, `Unqueues` |
| OAuthFlowProofs | `InductiveHolds`, `TypeCorrect`, `TokensUsedOnce`, `ReloadsAreFresh`, `OneFaultKeepsConnected` | one lemma per action |
| PgGatewayProofs | `InductiveHolds`, `TypeCorrect`, `QueriesRunAsOwner`, `BindingsAreRemoved` | one lemma per action |
| ApiSidecarProofs, on ApiSidecar | `InductiveHolds`, `TypeCorrect`, `ReloadsAreSeen`, `ValidIsFound` | one lemma per action |
| ApiSidecarProofs, on ApiCompiler and SmithCli | `CompilerInductiveHolds`, `CliInductiveHolds`, `CompilerTypeCorrect`, `RequestsAreAllowed`, `EveryArgumentIsSent`, `EveryToolIsCallable`, `FlagsDoArrive`, `FlagsDoSuffice` | `SortedInOrder`, `MergedFields`, `ToolHasFields`, `MapsAreArguments`, `SentHasArguments`, `SentMeets`, `ArgumentsHavePlaces`, `CallsArrive`; `OperationKeeps`, `ExecuteKeeps`; `LineArrives` |

A theorem states the invariant whose run is named in section 3; the two
refinements state `ImplementsRpc` and `ImplementsContract`.

**Assumptions.** Only those named in the modules. `None`, `Boot`, `Main`, `Finder`
and the like are names apart from what they are told apart from; kinds of requests
do not overlap; limits and times are naturals, positive where the code makes them so
(`Limit` is at least 1, and an API sidecar has a path to probe). A configuration has
the fields and the kinds of steps that middleware/config.rs:7-102 deserializes
(`FileAssumption`), a result is a set of paths with leaves (`ResultAssumption`), a
template that wraps does so under a name (`WrapAssumption`), and the upstreams are a
list that is not empty, without which the catalog does not start (main.rs:102).
Documents are of the shape the compiler reads (`ApisAssumption`) and follow two
rules of OpenAPI that it does not check (`OpenApiAssumption`): a list declares a
parameter once, and the parameters in the path are its placeholders and required.
Segments of a path that are more than a placeholder have a character that is no dot,
dots are no type (`DotsAssumption`), and the secret, if there is one, has a place
(`SecretAssumption`). Types are those the CLI tells apart (`TypesAssumption`), and
`Null` is no set of arguments and no call (`NullAssumption`). Every server has a
name in lower case (`SpellingAssumption`). None of the sets need be finite. In
`NothingIsLost` no spawn fails and no handler is dropped, as in the run: with these
faults the code does lose instances (section 5).

**The MCP client.** `NobodyStarves` compares the number of those who wait with the
number of lines that are on their way, in three places. It is inductive beside
`LinesAreWhole` (only a dropped caller makes a line to the server unreadable), and a
line that is read is one that was counted (`AnswersShrink`), unless it is a
notification, which sends its reader back to the queue. The refinement needs that an
answer is nobody's yet: `RequestsFit` (a request is in one place, still to be
written, on its way, with the server, or answered), `AnswersFit` (an answer in the
pipe was not returned, and is there once), `IdsFit` (each id has one caller).
`Begin` is `Ask`, `ServerAnswers` is `Serve`, `ReadLine` is `Return`, `Fail` or a
stutter, a dropped caller or a broken pipe is `Fail`. That a call alone gets its own
answer is the last conjunct of `IdsFit`: every id before its own was returned, so
what is read is its own.

**The pool.** None of its safety properties is inductive alone. That the limit
holds when `CallSpawned` inserts, long after `LockSpawn` looked, needs `RoomInv`
(while a call spawns there is room and its slot is empty), and that needs
`LockInv`: the mutex is held across awaits exactly by the call that spawns, so
that nobody else inserts. That a new instance is in nobody's hands, and so is
neither shut down nor shared, is `FreshInv`, for which `PhaseInv` says how far
each request has come. `Isolation` follows from `HoldInv` and `SlotInv` (a slot
holds an instance that a call of that slot's tenant spawned) and a lemma that
equal keys mean equal tenants (`SameKeySameTenant`, the content of
`ScopeName`). `ReloadLeavesNothingOld` needs, of `RoomInv`, that the spawning
call is not outdated: a reload cannot drain while a call holds the mutex.
`NothingLost` needs `DoomedInv`: who takes instances out to shut them down had
none in hand, which the assignment would forget.

**Its refinement.** A slot is the client of an entry; `spent` is every process
that was born and is no longer being spawned; a lease is what a request holds,
with its tenant. `LockHit` is `Lease`, `CallSpawned` is `Admit`,
`ReloadSpawned` is `Replace`, a failed or dropped spawn is `Discard`, pruning
and draining are `Evict`, `Shuts` is `Close`, the rest stutters. The frame
lemmas (`SlotFrame`, `LeaseFrame`, `ProcessFrame`) say what a step that leaves
some variables alone leaves alone in the contract.

**The sidecar and its middleware.** The fair lock is a sequence, and who leaves it
moves the others up: `LeavingQueue`, `JoiningQueue` and `WriterIsAlone` say once what
the lemmas of the actions use of it (`QueueIsKnown`). `CallersHold` (the
configuration in force is the one a call was judged by, until it returns) is what the
read lock is for. `SeesReload` is inductive beside `WaitsBehind` (the writes a
request waits behind are ahead of it in the queue) and `ReloadsLoadOnwards` (what is
loaded after a reload has answered is not older), which holds of reloads without
overlap only, so `OverlapIsKnown`. `CallsAreJudged` reduces the three properties of
the middleware to facts about its operators. These run down a chain step by step, in
a recursive function; instead of an induction over the chain, which this prover
cannot do with the library's theorem, the lemmas `IdentityIsKeptByChain` and
`RedactsLast` take the least step at which the claim fails, if there is one, and find
the one before it to fail as well (`InputStepsFollow`, `OutputStepsFollow` say
that a step of the function follows from the one before). `RedactsLast` carries
`Clean` along: from a redact on, no text has a word it matches, and no later step
brings one back, because an extract goes down a path that is there and a
template adds only its own key.

**The cache.** `Inductive` bounds the age of a decision at each point of its
way: no check waits longer than `Delay` (`Waiting`); an answer is no older than
its question, and when it waits to be stored no older than `Delay` (`Answer`);
so the expiry of an entry tells how old its decision may be (`EntryInv`).
`DecisionsRecent` is a corollary at the moment of a lookup. `PolicyKeeps` is
the delicate step: a change of policy makes decisions wrong now, and `flipped`
makes them right of the recent past. `LiveEntriesStay` is proved of each step
from the invariant.

**The catalog.** The invariant comes in three parts, as the model does: `IndexPart`
of the poller and its two locks, `FilterPart` of the checks, `Finding` of the task
they share; an action of one part leaves the other alone (`FilterStays`,
`IndexStays`). `ListedWasOffered` needs `PollIsOfNow`, that what a poll has found was
offered since it began; `IndexAgrees` needs `IndexFollows`, that the index about to be
put in is of the same poll as the list. `FanOut` counts the checks that are left
against the slots (`LeftIsCounted`, `SlotsAreUsed`). `ListIsFiltered` asks for a
choice of places in the order of the tools: `PickedInOrder` has it from the
definition of the community modules' `SelectSeq`, whose prefixes again have a least
counterexample.

**OAuth.** Tokens are one-time because one that was used is no longer pending, and
what is issued is new (`UsedWasIssued`). That a reloaded server has what is in its
file needs `FilesAreFresh`: between the reading of a file and the installing, a
callback that ran by itself saw no write, and `OverlapIsKnown` says that those
which did see one are in `overlapped`. `OneFileIsThere` is the heart of
`StaysConnected`: files are written one after the other, so without a fault only
the file being filled is missing, and with one fault one of the two is there, also
for a check that looked at the first before and looks at the second now.

**The gateway.** `RunsAsOwner` needs `BoundToOwner` (what is bound to a backend
is bound to its owner, and only between bind and unbind), which holds at `Bind`
because `StartsArePast` and `OneQueryEach` make the key of a backend, pid and
start time, unique in time; with the pid alone it fails, which is the mutant.

**The API sidecar.** `ProbeFindsValid` needs `SearchIsAhead`: the path a search is
at is not behind one that was valid all the time, so neither is the path whose
document it takes. `SeesReload` needs `NoneIsOlder`: once a reload that ran by
itself has answered, nothing older than its document is served or on its way through
the compiler, also not of a reload that started later.

**The compiler and the CLI.** `CompilerInductive` has two parts besides the types:
the index holds what `Tool` makes of the operation of that name
(`IndexIsCompiled`), and a request is what `Sent` makes of arguments its tool
validates (`CallWasValid`). So the five properties are about operators: of a
supported operation no two parameters share a name, nor a parameter and a field of the
body (`ParametersApart`), so a name has one place in the tool (`ToolHasFields`) and
each argument one in the request (`SentHasArguments`, `ArgumentsHavePlaces`), unless
dots dissolve the path, which happens exactly where the operation has them as a
segment (`CallsArrive`). That
the body meets its schema goes through `MergedFields`: what is merged has every
member's fields with their types, since mergeable members have none in common. An
operation that is `Straight` compiles to a tool that requires only what it declares
(`StraightIsCallable`), and then its own fields are arguments that call it. The
order of the list is that of ranks: `SortedInOrder` shows by counting, without an
induction, that the names in order of how many are not behind them are sorted and
complete. For the CLI, `FlagsArrive` is inductive beside `CompilerInductive`: a line
that is executed is a call (`RunsIsCompilerStep`), and what it gave is found again
through `SentHasArguments` (`LineArrives`). `FlagsSuffice` takes a flag for each
required argument with a text of its type (`TypesHaveTexts`).

**Only model-checked.** What is stated under fairness (`CallsResolve`,
`RemovedAreShut`, `EveryCallReturns`, `EveryRequestEnds`, `EveryFindEnds`,
`Converges`) is out of this prover's reach. Every other property of a passing run
is a theorem. `OwnAnswer` and `KeepsServing` do not hold (section 5). No module
uses RECURSIVE.

`tlapm McpClientProofs.tla` and so on check the proofs; the shortest takes half a
minute, SidecarHttpProofs several.

## 7. What is left out

- *Middleware*: the engines of patterns and templates, of which only what they
  match and whether they compile matters; a sidecar that was started without a
  middleware file, whose calls are neither filtered nor transformed.
- *CLI*: reading tokens and files, the catalog command, help and completion; the
  types number and boolean, which go like integer; a schema in the catalog that
  was reloaded after the CLI has read it.
- *Full-text search*: tokenizing, boosting and ranking are tantivy's: a query may
  match anything, in any order.
- *Start and configuration of the sidecars*, checks of tokens and verification
  of identity tokens: no state. The mock API is an example service.
- *McpClient*: the bound of five seconds in shutdown, and the text of messages.
- *CatalogIndex*: `needs_auth` is OAuthFlow's. Of several searches one is
  filtered check by check, the others hold the index for as long as they like.
- *OAuthFlow*: a callback that is dropped while a blocking write runs; the pages.
- *ApiCompiler*: documents have the path parameters their placeholders name;
  references are resolved (ApiSidecar has what they can do to the process); objects
  in objects, items of lists, enum, empty values, a path of the target base URL,
  descriptions and response pointers are left out, and so are calls that fail before
  they are sent because a secret is not set or a value cannot be in a header.
  Numbers of states grow with the vocabulary, and two names and three types already
  meet every clash the compiler looks for.
- *ApiSidecar*: a file and a URL as source are one path of the probe; Arazzo
  documents only add warnings.

## 8. Plan

Order of work, by what is at stake: processes and tenants first, then who may
see or do what, then what is served, then pure rules.

| step | what | state |
|---|---|---|
| 1 | TenantPool, its invariant and PoolContract | checked, proved |
| 2 | McpClient and RpcContract | checked, proved |
| 3 | AuthzCache | checked, proved |
| 4 | PgGateway | checked, proved |
| 5 | SidecarHttp, DiscoveryFilter, CatalogIndex, OAuthFlow | checked, proved |
| 6 | ApiSidecar | checked, proved |
| 6 | ApiCompiler | checked, proved |
| 7 | Middleware, composed with SidecarHttp | checked, proved |
| 8 | CatalogSearch: the discovery requests composed with poller, index and filter | checked, proved |
| 9 | SmithCli, composed with ApiCompiler | checked, proved |

# Verification of toolwall

toolwall is a wall between an MCP client (an assistant) and the MCP servers whose
tools it calls. It labels tools (`sensitive`, `untrusted`, `sink`), remembers which
labels have entered a conversation (a *scope*), and refuses a call that would let data
leave after it has entered; it *pins* the definition of each reviewed tool by digest,
and refuses calls to one that has changed.

This directory holds TLA+ modules translated from `src/`, the TLC configurations that
check them on small instances, and theorems that TLAPS checks for every value of the
constants. `PROJECT.json` lists the runs, the lines each definition models, the
hazards and the findings.

## 1. The system

| Part (source) | State it keeps | Operations | What makes it correct |
|---|---|---|---|
| policy (`internal/policy`) | none after loading | `Parse`, `Lookup`, `ResourceLabels`, `CheckArgs`, `Fingerprint` | a qualified entry shadows the bare one; two spellings of a definition have one digest |
| flow engine (`internal/flow`) | per scope: number of calls, labels seen with the call that brought each; per pinned tool: unchecked, ok or mismatch | `CheckPin`, `NeedsPinCheck`, `Decide`, `Record`, `RecordResource` | labels never leave a scope; evidence names the first call; an unchecked pin refuses |
| proxy (`internal/proxy`, `toolwall run`) | calls and lists in flight, the probe, `pinsReady` | two pumps, `screenCall`, `verifyPins`, `observeResponse`, `screenToolList`, shutdown | no forbidden flow whatever is pipelined; no pinned call unchecked; every answer once; the run ends |
| gateway (`internal/gateway`, `toolwall serve`) | the servers' clients, owner of each listed URI, one `sync.Once` per server | `Dial`, `Serve`'s loop, `toolsList`, `toolsCall`, `resourcesList`, `resourcesRead`, `promptsList`, `promptsGet`, `Close` | flows across servers are seen; pins are per server; a listed URI stays routable; all servers are up or none; no failing server keeps a request from its answer |
| MCP client (`internal/mcp`: `client.go`, `stdio.go`, `conn.go`) | era, revision, next id; pipes, reader goroutine, channel | `Dial` with the era probe, `ListTools`, `ListResources`, `ListPrompts`, `CallRaw`, `Close` | a result belongs to its request; the revision is the one agreed; a call whose request is written returns |
| MCP over HTTP (`http.go`, `headers.go`, and their branches of `client.go`) | era, revision (twice), session id, legacy mode, the schemas listed last | era probe, handshake, `ListTools`, `CallRaw` with mirrored headers and one retry, requests on a stream, `close` | the era is the server's; version, session and headers are right on every request; a session is ended; a call runs at most once |
| audit (`internal/audit`) | an append-only file | `Write` | records of what proxy and gateway did (a history there) |
| init, verify, inventory (`cmd/toolwall`) | the policy file | add, `--repin`, compare | what was reviewed is kept; a changed definition is not accepted by itself; a clean `verify` clears the wall |
| explain (`cmd/toolwall`) | an offline engine | `simulate` | its verdicts are the gateway's, pins apart |
| suggest, report, flags, test doubles | none | | out of scope |

The proxy and the gateway call the engine, which is a library with a lock of its own;
the engine reads the policy. The proxy talks to its one server through two pipes; the
gateway talks to each upstream through one MCP client, one call at a time. The
difficulties are in the order of things: the proxy's pumps run concurrently over
shared maps and a channel; toolwall's own probe travels on the client's connection
and races with a timer; the lists of tools and resources change under the caches made
of them; answers come late, after their request was given up; anyone may die, or live on and
read nothing, and a write has no timeout.

The commands share one policy file and no lock: `init` reads it, asks a server, and
writes all of it back; `verify` compares it with what the servers say; `run`, `serve`
and `explain` load it once.

## 2. Modules

| Module | Models | Notes |
|---|---|---|
| `Policy` | the loaded policy | constants with the assumptions that `normalize` and `checkLabels` enforce |
| `FlowEngine` | every operation of `flow.Engine` | variables `pins`, `calls`, `seen`; no control of its own |
| `FlowWall` | the abstract promise: what may be released and refused | two variables, independent of how the wall decides |
| `Proxy` | `internal/proxy` | extends `FlowEngine`; one program counter per goroutine |
| `ProxyProperties`, `MCProxy` | its properties; its instances | |
| `Gateway`, `GatewayProperties`, `MCGateway` | `internal/gateway` likewise | extends `FlowEngine` |
| `McpClient`, `McpClientProperties`, `MCMcpClient` | `internal/mcp` over stdio | stands alone: the gateway sees it as "an answer or an error" |
| `Headers` | `headers.go`: annotations of a schema, headers of a call | pure operators; schemas are tables of subschemas |
| `HttpClient`, `HttpClientProperties`, `MCHttpClient` | `internal/mcp` over Streamable HTTP | extends `Headers` |
| `PolicyFile`, `PolicyFileProperties`, `MCPolicyFile` | `init`, `verify` and the policy file | stands alone: the other modules take a loaded policy as given |
| `Explain` | `explain` | a function of a policy and a sequence of calls; instantiates `FlowEngine` on a scope it is given, and is itself instantiated by `GatewayProperties` |
| `FlowEngine_proofs` | lemmas about the engine's operators | what the theorems about the proxy and the gateway rest on |
| `FlowWall_proofs` | what the abstract promise says of the traffic as a whole | `Proxy` and `Gateway` inherit it |
| `Proxy_proofs`, `ProxyTraffic_proofs` | theorems about `Proxy` | what the server gets; what the client gets, evidence, denials and the refinement |
| `Gateway_proofs`, `McpClient_proofs`, `HttpClient_proofs`, `PolicyFile_proofs` | theorems about the other components | |

A definition that ends in `_Mutant` is a plausible wrong version of its neighbour. No
specification uses it; putting it in its neighbour's place makes a run fail, which
shows that the property can tell the two apart.

### How state and steps correspond to the code

**Policy and FlowEngine.** Names are abstract. A key of the `tools` map is a pair
(server, tool); argument rules are represented by the argument values they reject, a
resource rule by the URIs it matches, a digest by the value of `Fingerprint` on a
definition, so that different spellings of one definition may share a digest. Scopes
are created on first use and never forgotten, so the map of scopes is total. `Decide`
is one step although it takes the lock twice: between its two sections it only reads,
and the one part that another goroutine may change, the pin, is read in one of them.

**Proxy.** `cpc` is where `pumpFromClient` is (read, probe, wait, decide, log denial,
deny, record, log, remember, note, forward), `spc` where `pumpFromServer` is, `main`
where `Run` is. A step ends wherever the other goroutine can see a difference: every
critical section, every write to a peer, every wait. `Decide` and `Record` are
separate steps, as they lock separately. Screening a list is one step although the
code checks tool by tool: the pins are read by `Decide` for one tool only, and a tool
occurs once in the list. A message the pump forwards without a look (notifications,
responses, other methods, a `tools/call` that does not decode) is of the kind "other".
`cleared`, `shown`, `sent`, `delivered`, `refused` and `audit` are history. `stalled` is
the peers that do not read while their pipe is full: every write to such a peer waits, that
of the probe before its timer has started (`proxy.go:260`). A peer may read on, or end, and
nothing says that it will. The peers
write well-formed messages with ids of their own. (A line that does not decode stops
the pump that reads it, and so the run; the model's peers write none.)

**Gateway.** `Serve` reads a request only after it has answered the last one, so one
program counter is enough; a handler stops at each round trip to an upstream, which
may fail or return anything the constants allow, or be `held`: the upstream does not read
what is written (`stdio.go:73` heeds no timeout), or names cursors that go round
(`client.go:254-263`), each page of which comes in time. It may let go again. `once[s]` is the state of the
server's `sync.Once`: fresh, running or done. `blocked` is the `Do` that never returns
(finding 1). Requests that read and change nothing the wall keeps are `ServeOther`.
The servers are dialled one by one in order, and `Serve` begins with the last;
`closeAll` is one step, as nothing runs beside it. `audit` is the trail as it is
written: a line does not say which server it is about, since `log.Write` overwrites
the name (`audit.go:76`).

**Explain.** `Simulate` is `simulate`: `Scopes(steps)[k]` is the offline engine's scope after
k calls, `Verdict` its `Decide`, `After` what `Record` makes of the scope. It is
the same `Decide` as the gateway's, with `Offline` on; the loop around it, the skipping
of blocked calls, the counting and the labels are explain's own, and
`ExplainAgrees` compares them with the gateway's trail.

**McpClient.** `step` is where `roundTrip` is: writing the request (blocked while
stdin is full), waiting, or writing the refusal of a request the server made. `status`
is what `Dial` and `Close` have come to. `incoming` is the channel together with the
message the reader holds, so `ChanCap` is one more than the channel's eight. The child
reads or not, as it likes. The
reader ends with the stream, or at a line that is no message. Cancelling `Dial`'s
context kills the child. `ListPrompts` is `ListResources` with another method name and
is represented by it. The HTTP branches of `Dial`, `ListTools` and `CallRaw` are in
`HttpClient`.

**Headers and HttpClient.** A schema is a table of subschemas, each with the keyword it
stands under; a header value is a text that is plain or odd, inside so many layers of
the base64 sentinel; the walk, the validity of the annotations and the encoding are
operators over these. `step` is where `roundTrip` is, `errand` where `CallRaw` is
(listing for want of a schema, calling, listing again, retrying). Each POST is on its
own: its answer meets the client that still waits for it, or nobody. An answer is
classed by what the client tells apart: the status, the JSON-RPC code, the revisions,
the session, the tools. `arrived` holds an answer or a request the server makes on the
stream. Dial's context may be cancelled at any moment of the handshake; `close` then
runs beside `Dial`, which does not wait for it. The server is of one era (a modern
one may know `initialize` too), changes its tools, forgets its session, answers late,
fails on the way, or executes a call, or opens a session, and loses the answer or its
body. The session is learned from the headers of whatever answers `initialize`, also when
the body cannot be used or has not come by the deadline.

**PolicyFile.** A file is absent, broken (it does not load), or a configuration: servers
and entries by the *spelling* of a key, so that `a` + `b.c` and `a.b` + `c` can meet.
A command reads the file (`cfg`), asks its servers one at a time (`seen`), and init
writes: `OpenFile` empties the file, `WriteFile` puts the merged text there, over the
longer tail of another writer if there is one; `WriteCut` leaves a prefix, which may
still parse. A command may fail or be killed at any point before. The operator edits or
replaces the file between these steps, and servers change what they expose. `base`,
`before`, `lastInit` and `lastVerify` are history.

## 3. Runs

| Run | Asks | Distinct states |
|---|---|---|
| `proxy_flow` | can pipelining, in two scopes, get a forbidden flow past the wall; is evidence right; is a denial in the log before it is delivered; does the proxy implement `FlowWall` | 343 155 |
| `proxy_pins` | can a pinned call slip through between probe, timeout, late answer and the client's own listings; does every answer arrive once, screened and audited | 797 953 |
| `proxy_live` | do the pump, the run and the replies make progress when peers die or stop reading at any moment | 121 205 |
| `gateway` | flows across servers, pins per server, routing, progress; are all servers up or none; does `explain` foretell what happens | 270 093 |
| `gateway_probe` | (violated) is every request answered | 1 640 |
| `client` | are results, pages and the revision those of their own request | 1 058 203 |
| `client_live` | does every call come back | 645 241 |
| `http` | are era, version, session and headers right on every request; is a session in use ended; does a call run once; are tools dropped only for cause | 1 423 868 |
| `http_session` | (violated) is every session ended | stops at the trace |
| `http_buried` | (violated) are the tools that are kept well formed | stops at the trace |
| `policy_file` | is what was reviewed kept; do init, verify and the wall agree; is a broken file left alone | 534 277 |
| `policy_repin` | (violated) does plain `init` leave the pins alone | stops at the trace |

What the properties say, in their own words, stands above each of them in
`ProxyProperties`, `GatewayProperties`, `McpClientProperties`, `HttpClientProperties`
and `PolicyFileProperties`.

### Bounds, and why they are enough

- **Proxy.** Three messages of the client. A forbidden flow needs a source and an exit
  (or two sources and an exit, for the rule over two labels), a race with the probe
  needs two calls and a listing. Two scopes in `proxy_flow` so that a stain can land
  in the wrong one; two spellings of a definition, a changed one and a partial list in
  `proxy_pins`. `Sends` and `Faults` name which messages and failures a run looks at:
  `proxy_live` has all of them, with two messages. The runs are in enforce mode, where the
  path of a denial is; what the properties say of observe mode is proved, for both modes.
- **Gateway.** Two servers with a tool of the same name and a URI both may list; four
  requests: a listing that sets a cache, one that changes it, and two that use it; or a
  listing, a blocked call, a read and a send, which is what it takes for `explain` to
  count differently. The scope is one: two would double what one shows, as the engine's
  independence of scopes is `proxy_flow`'s matter.
- **McpClient.** Two calls after `Dial`, so that the late answer of one meets the
  other; pipes and a channel of one message, so that all of them fill up; two pages,
  the last of which names itself as the next; servers that offer our revision, others,
  and none. `client_live` has one call, two messages the server sends unasked, which
  fill the channel and the pipe behind it, and cursors that go round over two pages; in
  four pages (`MaxPages`) they come round twice. `MaxCalls`, `MaxUnsolicited` and
  `MaxPages` are the bounds; `client` needs no more than two pages.
- **HttpClient.** Two calls after the handshake (`MaxCalls`), so that the second uses
  what the first has listed; one change of the tools (`MaxChanges`), which makes a schema
  stale and a retry necessary; one request on a stream (`MaxAsks`). One tool, with six
  schemas that differ in what the walk makes of them (none, no annotation, one, nested,
  a clash, one the walk does not see), and two sets of arguments: encoded already, and odd.
  `http_session` and `http_buried` need one call and two schemas.
- **PolicyFile.** Two commands at a time, two in all (`MaxRuns`), so that one init may
  overlap another init or a verify; one edit (`MaxEdits`) and one change of a server
  (`MaxChanges`), which is what it takes to come between the reading and the writing.
  Two servers and tools whose keys share a spelling; files that are absent, broken,
  pinned by a bare name, and pinned by a shared one. The commands are alike, so the run
  uses symmetry between them; its properties are safety properties.

Deadlock is checked in every run but those of `PolicyFile`, where the commands within the
bound come to an end and nothing has to follow. Elsewhere a last step stands for
the states in which the program has ended, or has nothing to do within the bound.

### Fairness

- **Proxy:** weak fairness for each goroutine and each timer. The scheduler runs a
  goroutine that can run, and `time.After` fires. Nothing makes the client send, the
  server answer or exit, or either of them read: a write to a peer that does not is
  disabled, and fairness does not help it. So `EveryMessageHandled` lets a message wait
  for such a peer (`HeldWriting`) and for nothing else, and `RepliesDelivered` lets a reply
  wait for a client that does not read. `HangUpEndsRun` needs no such exception: `Run`
  writes nothing.
- **Gateway:** weak fairness of the handler's own steps, and of the failure of a round
  trip that is not held: an upstream that says nothing is a failure after
  `defaultCallTimeout`. The timeout is that of one page of a listing, and does not
  interrupt a write to a child, so a round trip may also be held for good (`Holds`); then
  `Serve` waits, and `AnsweredUnlessHeld` says no more than that. Nothing makes an
  upstream answer, read or let go, or the client send.
- **HttpClient, PolicyFile:** none; what is checked there is safety.
- **McpClient:** weak fairness of the caller, the reader and the timer. Nothing makes the
  child read its stdin, answer or exit. `roundTrip` writes before it empties the channel,
  so a child that is held by a full stdout, and does not read meanwhile, and the caller
  wait for each other for good; `EveryCallReturns` names this wait (`HeldWriting`: stdin
  is full and a write waits for it), and cursors that have come round (`GoesRound`), as the
  only ways in which a call may stay out. Both are reached in `client_live`.

## 4. Findings

1. `gateway_probe`: the first call of a pinned tool on a server that was not listed
   before hangs `Serve` when the probe succeeds. `verifyPins` runs inside
   `sync.Once.Do` (`gateway.go:467`), its `screen` calls `markProbed`, and that calls
   `Do` on the same `Once` (`gateway.go:465`). README.md:165-168 promises an answer.
2. `http_session`: `roundTrip` takes the session from the headers of any answer to
   `initialize` (`http.go:160-167`), `legacyMode` follows only when the call has succeeded
   (`client.go:185-197`), and `close` sends its DELETE in legacy mode only (`http.go:349`). A
   server that has opened a session, and whose body is an error, cannot be used or does
   not come in time, keeps it: `Dial` fails and nothing ends the session. `http.go:343`:
   "close ends a legacy session with DELETE". What holds is `EstablishedEnded`: the
   session of an initialize that succeeded is ended.
3. `http_buried`: `walkSchema` takes a subschema without type, properties or annotation for
   a map of named ones (`headers.go:113-125`), and a list in such a map is never walked: an
   annotation in `items: {anyOf: [{x-mcp-header: ...}]}` is not seen, and the tool is kept,
   though `headers.go:53-55` says that an annotation under any of these keywords
   "invalidates the tool". What holds is `OnlyMalformedDropped`: no tool is dropped
   without cause.
4. `policy_repin`: `init` looks an entry up under `server.tool` only (`init.go:60`). For a
   tool pinned under its bare name it adds a qualified entry with the digest the server
   shows now, and the wall prefers that one (`policy.go:283-291`): a changed definition
   is accepted without `--repin`, which `init.go:67-68` rules out. `verify` has the same
   gap (`verify.go:52`): it calls the tool new, and exits with 0 unless `--strict` is given.

Smaller divergences that were met while modelling and that no run is spent on:

- Observe mode still drops a changed tool from the list the client sees (`proxy.go:343`);
  `policy.go:35` says it "lets everything through". (`ScreenToolList` has no mode.)
- On a legacy server `CallRaw` forwards its caller's `_meta` (`client.go:400`), though its
  comment (213-214) says that it does not replay it. (`Meta` has the branch.)
- `pinCheckTimeout` "bounds how long one call waits for that probe" (`proxy.go:44`), but
  not for the write of it (`proxy.go:260`); nor does a call's context bound a write to a
  child's stdin (`stdio.go:73`), or the number of pages of a listing (`client.go:254-263`).
- `explain` numbers its lines by the calls given, and the "because call N" under them by
  the calls let through (`explain.go:115-123`): after a denied call the two differ.
- A 2xx answer to `server/discover` that holds a JSON-RPC error fails `Dial` over HTTP,
  with no attempt at the old handshake (`client.go:166`), though lines 123-129 say
  "anything else means legacy".
- Over HTTP, cancelling the context given to `Dial` does not unblock the POST it waits for
  (`client.go:109-114` says it does), and may end the session of a `Dial` that succeeds.
- A request of the server on the stream of `initialize` is not refused, since legacy mode
  is on only after its answer (`http.go:312`).
- The retry after HeaderMismatch takes the definitions it has just listed without a look
  at the pins (`client.go:236`).
- Prompts are forwarded without a verdict, a stain or a line in the trail
  (`gateway.go:244-268`); `serve`'s trail names no server (`audit.go:76`).

## 5. Proofs

The runs check small instances; the theorems hold for every policy, set of tools,
servers, scopes, listings and schemas, and for any number of messages, requests, calls
and commands. They rest on the assumptions the component modules name (`EngineAssumption`
and its like), which TLC evaluates on every run, and on nothing else. Each proof has the
same plan: a type invariant; an inductive invariant that says what the property leaves
out; a *frame* or *moves* lemma that says once which steps touch which variables, so that
each step of the induction is left with the few that matter. Each inductive invariant
was checked with TLC on the component's run before it was proved.

### The engine and the proxy

`FlowEngine_proofs` has the lemmas about the engine's operators: types, what `CheckPins`
and `Stain` change and keep, and what a verdict that lets a call through implies
(`DecideFacts`).

- **`TypeCorrect`** (`Proxy_proofs`): one lemma per group of variables.
- **`NoForbiddenFlowHolds`**. The property speaks of what the server got, the engine of
  what scopes carry, and between the two a recorded call is still in the pump's hand.
  `FlowInv` closes the gap: `ScopesCarry` (a scope carries exactly what the calls sent
  have brought and what the call in hand brings), `PassedBreaksNothing` (a call that was
  let through breaks no rule after what has been sent so far, and nothing is sent until
  it is: the pump that judges is the pump that sends) and `NotesAreLists`. Without
  `ScopesCarry` the verdict says nothing about the traffic.
- **`PinnedCallsClearedHolds`** by `PinInv`: "ok" for a tool means that the definition
  shown last matches (`PinsAgree`); whenever it matches while a call is screened, the call
  is cleared (`MatchedIsCleared`); a call that passed is cleared (`PassedIsCleared`).
- **`OneAnswerHolds`** (`ProxyTraffic_proofs`) by `TravelInv`: an id is given out once
  (`IdsGivenOut`), a message is in one place between the client and the server and its
  answer in one place on the way back (`OnePlace`), and no queue holds it twice
  (`NoDoubles`). The property alone says nothing of what is still on its way.
- **`OutputAuditedHolds`** and **`ListingsScreenedHolds`** by `NotesInv` (a call, a list or
  the probe the server still has is noted as pending, of its own kind) and `AnswersInv`
  (what the pump holds, has logged and has screened agrees with where it is in its
  handler). The note is what makes the pump look at an answer at all.
- **`ViolationsAuditedHolds`**, for both modes, by `ViolationsInv` (a call in hand that breaks
  a rule was found to, `CurBreaks`, and once past the log its record is there,
  `DenialsLogged`) and `RefusalsInv` (a pump that is about to write a denial has logged it,
  and so has every denial delivered; the log only grows).
- **`EvidenceIsFirstHolds`** by `EvidenceInv`: the engine's count of a scope is the number
  of its calls sent and in hand (`CallsCounted`), and the first call that brought a label
  stays the first as the traffic grows (`FirstIsLeast`).
- **`ImplementsFlowWallHolds`**: every behaviour of the proxy is one of `FlowWall`:
  `WallInit`, and `WallStep`, by which sending a call is a `Release`, refusing one a
  `Refuse`, and every other step a stutter. `FlowInv` supplies the abstract guards.
- **`WallKept`**: what `FlowWall` promises of the traffic as a whole (below) holds of the
  calls the proxy sent.

### The abstract wall

`FlowWall` says of each step what it may release or refuse. **`WallHolds`**
(`FlowWall_proofs`) says what follows for whole behaviours, for any rules and events:
`NothingLeaks` (in enforce mode no exit was released that a rule forbids after what was
released before it in its scope) and `NothingRefusedInVain` (whatever was refused still has
its cause in the policy or in what was released). The first needs that traffic only grows
at its end, so that what a prefix brought into a scope stays what it was
(`BroughtStays`); the second that a scope never carries less than it did
(`ForbiddenStays`). The refinements hand both down to the proxy and to the gateway: their
`WallKept` speaks of what the servers really got, whatever the wall keeps to decide.

### The gateway

- **`TypeCorrect`**: `Typed`, with `UpInv` and `RouteInv`, which the position in `Order` and
  the owner of a URI need.
- **`AllServersOrNoneHolds`**: the property says nothing of a half-dialled list of servers;
  `UpInv` does: those before the position `at` are open, and every server has a position.
- **`ListedUriRoutesHolds`** by `RouteInv`: the owner of whatever was listed is the server
  that listed it, and a listing gives no owner to what has one.
- **`PinnedCallsClearedHolds`** by `ClearedInv`: "ok" for a server's tool means that the
  definition *that* server returned last matches (its `PinInv`), and a call past its
  verdict is cleared. `Serve` is one loop, so nothing is shown in between.
- **`ImplementsFlowWallHolds`** by `FlowInv` (`ScopesCarry`, `PassedBreaksNothing`,
  `RefusedOnce`), as for the proxy; reads of resources are releases too. **`WallKept`**
  follows, of the traffic of all the servers together.
- **`ExplainAgreesHolds`**. Two programs are compared, each a fold: the gateway's requests
  leave a trail, and `explain` runs over the calls in it. The trail says nothing of the
  engine's scope, on which the next verdict depends, so the property is not inductive;
  `ForetoldInv` adds that `explain`, asked for the calls in the trail, ends with the very
  scope the gateway's engine has, and `VerdictInv` that between a call's verdict and its
  record nothing changes that the verdict was reached on. The offline engine's operators,
  on a scope that equals the gateway's, give the same verdict unless it is for a pin
  (`OffhandVerdict`), the same labels and the same scope (`AfterRecord`). A longer trail
  leaves what was said of a shorter one alone (`JudgedAppend`, `SimulateAppend`). `Judged` and
  `Scopes` are recursive functions over the length of a sequence; that such a table exists,
  and that two of them agree, is proved by a first entry that fails (`TableExists`,
  `TablesAgree`).

### The MCP client over stdio

`TypeInv` types the pipes and the client; the lemma `Moves` sorts the client's steps into
few kinds (a request goes out, an answer is read, a call ends).

- **`OwnAnswerHolds`** by `ProtocolInv`: no request on the wire but the one awaited has its
  id (`IdsInv`), and whatever the server has read, computed and written stems from a
  request on the wire (`KnownInv`). So a late answer has an older id.
- **`ListingIsWholeHolds`** by `GatherInv`: the pages gathered are those before the cursor
  of the request in hand.
- **`VersionAgreedHolds`** by `VersionInv`, and **`CallsFitEraHolds`** by `EraInv`: the
  revision and the era follow from the answer that settled them, and no call goes out
  before that. `pickVersion` picks a revision since a finite set of numbers has a greatest
  one (`MaxIsMember`).
- **`NoAnswerLostHolds`** by `PendingInv`: an answer the child wrote is in the pipe, with
  the reader, or in the channel, until the caller takes it.

### The MCP client over HTTP

`TypeInv` begins with `PhaseOK` (a dialling client has a request of `Dial`'s in hand, a
dialled one a request of its one call, or none); `Moves` sorts the steps.

- **`EraRightHolds`** by `EraInv`: whatever has come back to discover is in the words of the
  server's era, and only an old server gets past discover while dialling. It rests on
  `EraAssumption`, on the servers: an old one does not refuse discover in the words of a
  modern one, nor the other way round, and a fault looks like neither.
- **`VersionsAgreeHolds`** by `VersionInv`: the two copies of the version move together,
  and only while no call is out.
- **`SessionEchoedHolds`**, **`EstablishedEndedHolds`** by `SessionInv`: from the moment legacy
  mode is on, the sessions learned are the one the transport holds; before it there is
  none, unless `Dial` has failed with it (`LearnsAndFails`), and then nothing is sent any
  more that would have to carry it. That such a session is not ended is finding 2.
- **`ExecutedOnceHolds`** by `OnceInv`: the number of a call goes out (again) only when
  nothing with that number is on its way or was executed (`Owed => Unseen`); ids are
  fresh, so the answer that allows the retry is that of the very call.
- **`CallsFitSchemaHolds`**, **`OnlyMalformedDroppedHolds`** by `HeadersInv`: while the tools
  are those that were listed, the client keeps of each what `Remember` keeps (`ListedInv`),
  calls sent since carry the headers that follow from it (`MirroredInv`), and a retry goes
  out with a listing not older than the rejection (`RetryInv`). What a header says rests
  on lemmas about schemas of any depth: the tables `Path`, `Reachable`, `Visited` and
  `Above` are recursive functions, `TableExists` shows that each is there, and claims about
  all their entries are proved by a first entry that fails (`LeastExists`).
  `OnlyMalformedDroppedHolds` has no hypothesis on the schemas: whatever the walk rejects
  breaks the rules (`InvalidIsMalformed`). The converse is false (finding 3).

### init and verify

`StateInv` types the file, the commands and their reports, and says what the history
variables hold. The rest is about the pure functions: what `Merge` adds, keeps and repins
(`MergeFacts`, `MergeKeeps`) and what a `verify` of its result reports (`MergeVerified`,
`CleanPins`).

- **`InitKeepsReviewedHolds`**, **`InitAgreesWithVerifyHolds`**,
  **`CleanVerifyClearsWallHolds`**: a record of a run of init or verify has the property
  when it is made, and is not changed.
- **`BrokenFileKeptHolds`**, an action property: a command that writes has read.

### Only model-checked

Every safety property that a passing run checks is also proved. What is left to TLC:

- Liveness (`EveryMessageHandled`, `HangUpEndsRun`, `RepliesDelivered`,
  `AnsweredUnlessHeld`, `EveryCallReturns`): the prover has no rule for fairness.
- The four violations, which are counterexamples.

## 6. Not modelled, and the plan

Not modelled: JSON, line and SSE framing, limits on sizes, the checks of a URL and the
expansion of header values before the first request, flags, printing, the words of
`suggest`, argument patterns and canonical JSON beyond what they decide, write errors of
the audit log, the reading back of the trail (`report.go`), the test doubles. These keep
no state, or none that another part reads. An interrupt of `serve` is one step with
the end of its input: the code notices it only between requests, and nothing is claimed.

Next: a gateway over `McpClient` in place of its one-step round trips.

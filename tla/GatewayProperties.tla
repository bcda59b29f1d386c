------------------------- MODULE GatewayProperties -------------------------
(***************************************************************************)
(* What Gateway promises.                                                  *)
(***************************************************************************)
EXTENDS Gateway

Request == CallRequest \cup ReadRequest \cup PromptRequest
               \cup [kind : {"list", "resources", "prompts"}]

Line == [kind : {"call", "denied", "result"}, request : CallRequest \cup ReadRequest,
         decision : Decision, labels : SUBSET Label]

TypeOK ==
    /\ EngineTypeOK
    /\ upstreams \in [Server -> {"none", "open", "closed"}]
    /\ nread \in Nat /\ held \in BOOLEAN
    /\ pc \in {"dialing", "idle", "closing", "closed", "listing tools", "listing resources",
               "listing prompts", "probing", "blocked", "judging", "recording", "forwarding",
               "waiting"}
    /\ req \in Request \cup {NoRequest}
    /\ pc \in {"probing", "blocked", "judging", "recording"} => req \in CallRequest
    /\ pc \in {"forwarding", "waiting"} => req \in CallRequest \cup ReadRequest \cup PromptRequest
    /\ at \in DOMAIN Order
    /\ verdict \in Decision
    /\ resOwner \in [Uri -> Server \cup {NoServer}]
    /\ once \in [Server -> {"fresh", "running", "done"}]
    /\ released \in Seq([request : CallRequest \cup ReadRequest \cup PromptRequest, to : Server])
    /\ refused \subseteq CallRequest
    /\ audit \in Seq(Line)
    /\ listedUris \subseteq [server : Server, uri : Uri]
    /\ shown \in [Server -> [Tool -> Def \cup {NoDef}]]

-----------------------------------------------------------------------------
\* What can refuse a call besides a flow rule.
Restricted ==
    [s \in Server |-> [t \in Tool |-> [a \in Arg |->
       LET tp == Lookup(s, t)
       IN  \/ ~Known(s, t) /\ UnknownTools = ActionDeny
           \/ tp.deny
           \/ PinsGate(s, t)
           \/ BreaksArgs(tp, a)]]]

\* A call or a read brings its labels into its scope; a prompt, which the wall
\* forwards unjudged, is traffic of no scope and brings none.
EventOf(r) ==
    [id         |-> r.id,
     scope      |-> IF r.kind = "prompt" THEN "no scope" ELSE r.scope,
     labels     |-> IF r.kind = "prompt" THEN {} ELSE Labels(r),
     exit       |-> r.kind = "call",
     restricted |-> r.kind = "call" /\ Restricted[r.server][r.tool][r.arg]]

Wall == INSTANCE FlowWall WITH
    released <- [i \in DOMAIN released |-> EventOf(released[i].request)],
    refused  <- {EventOf(r) : r \in refused}

\* What reaches any upstream, calls and resource reads together, is what
\* FlowWall allows: data read from one server keeps a call to another from
\* leaving, and a call is refused only for what was really forwarded.  Of the
\* prompts, which nothing judges, it says nothing.
ImplementsFlowWall == Wall!Spec

\* A call of a pinned tool is forwarded only while the definition its own
\* server returned last matches the pin, whatever another server with a tool
\* of that name returned (flow.qualify, NeedsPinCheck).
PinnedCallsCleared ==
    Enforced /\ pc \in {"recording", "forwarding", "waiting"} /\ req.kind = "call"
    /\ PinsGate(req.server, req.tool)
        => Current(req.server, req.tool)

\* A resource the client was shown is read from the server that listed it,
\* for good: later listings of other servers do not take it over, and nobody
\* else's prefix does (resourcesList, ownerOf).
ListedUriRoutes == \A e \in listedUris : HasOwner(e.uri) /\ OwnerOf(e.uri) = e.server

ForPin(d) == d.rule \in {"pin-unverified", "pin-mismatch"}

\* A line of the audit log that says how a call of scope c was judged, unless
\* the call was blocked for its pin.
Foreseeable(e, c) ==
    /\ e.kind \in {"call", "denied"}
    /\ e.request.kind = "call" /\ e.request.scope = c
    /\ ~(ForPin(e.decision) /\ Blocked(e.decision))

\* The foreseeable calls of scope c in a log, in the order they were judged.
Judged(log, c) ==
    LET J[n \in 0 .. Len(log)] ==
            IF n = 0 THEN <<>>
            ELSE IF Foreseeable(log[n], c) THEN Append(J[n - 1], log[n])
            ELSE J[n - 1]
    IN  J[Len(log)]

Offhand == INSTANCE Explain

\* What `explain` is asked for a sequence of judged calls.
Steps(judged) ==
    [i \in 1 .. Len(judged) |-> [server |-> judged[i].request.server,
                                 tool   |-> judged[i].request.tool,
                                 arg    |-> judged[i].request.arg]]

OnlyCalls(c) ==
    \A i \in DOMAIN audit : audit[i].request.kind = "read" => audit[i].request.scope # c

\* What `explain` says of a sequence of calls is what the gateway does with
\* them, down to the labels and the evidence, but for the pins, which it
\* cannot check: of the calls of a scope that read no resource, those the
\* gateway did not block for a pin, in the order it judged them, have in the
\* audit log the verdicts and labels that simulate gives them (explain.go;
\* README.md calls it "exactly what the gateway does").
ExplainAgrees ==
    \A c \in Scope : OnlyCalls(c) =>
        LET judged  == Judged(audit, c)
            results == Offhand!Simulate(Steps(judged))
        IN  \A i \in DOMAIN judged :
                /\ ~ForPin(judged[i].decision) => results[i].decision = judged[i].decision
                /\ results[i].labels = judged[i].labels

\* The wall fronts every server of the policy or none: requests are served
\* only with all of them up, and no server outlives the gateway, whichever of
\* them failed to start (Dial, closeAll, runServe).
AllServersOrNone ==
    /\ pc \notin {"dialing", "closing", "closed"} => \A s \in Server : upstreams[s] = "open"
    /\ pc = "closed" => \A s \in Server : upstreams[s] # "open"

\* Serve goes from any request on to its answer: past servers that fail or say
\* nothing, however many it has to ask.  What it waits for is an upstream that
\* holds it, by not reading or by cursors that go round, and the probe that it
\* never comes back from.
AnsweredUnlessHeld == (req # NoRequest) ~> (pc \in {"idle", "blocked"} \/ held)

\* Every request is answered, if no upstream holds it.  README.md says that for
\* a pinned tool not checked yet the gateway asks the server for its definitions
\* and waits for the answer, and that the call is refused if the check cannot be
\* completed.
EveryRequestAnswered == (req # NoRequest) ~> (pc = "idle" \/ held)
=============================================================================

------------------------------- MODULE Gateway -------------------------------
(***************************************************************************)
(* internal/gateway: `toolwall serve`, the wall in front of every server   *)
(* of the policy, behind one engine and so one set of scopes.  Serve is a  *)
(* single loop: it reads a request, handles it, writes the reply, and only *)
(* then reads the next.  What interleaves with it is the upstream servers: *)
(* a handler stops at every round trip to one, and a step is what Serve    *)
(* does between two of them, or up to a change another part depends on.    *)
(*                                                                         *)
(* An upstream is external here: a round trip fails or returns any list    *)
(* the constants allow, a different one each time, or it is held: by a     *)
(* child that does not read, as a write to its stdin knows no timeout, or  *)
(* by cursors that go round, as a listing is as many calls as the server   *)
(* names pages.  Discover, initialize, ping, unknown methods and requests   *)
(* whose params do not decode read nothing the wall keeps and change       *)
(* nothing: "other".                                                       *)
(***************************************************************************)
EXTENDS FlowEngine

CONSTANTS
    Order,          \* g.order: the servers of the policy, sorted by name
    Prefixed,       \* Prefixed[s]: the URIs under a resource prefix of s
    Listings,       \* Listings[s]: the tool lists s may return
    Offers,         \* Offers[s]: the sets of URIs s may list
    MaxRequests,    \* bound: requests the client sends
    NoRequest, NoDef

ASSUME GatewayAssumption ==
    /\ Order \in Seq(Server)
    /\ \A s \in Server : \E i \in DOMAIN Order : Order[i] = s
    /\ \A i, j \in DOMAIN Order : Order[i] = Order[j] => i = j
    /\ Order # <<>>
    /\ Prefixed \in [Server -> SUBSET Uri]
    /\ \A s \in Server : Listings[s] \subseteq UNION {[S -> Def] : S \in SUBSET Tool}
    /\ Offers \in [Server -> SUBSET SUBSET Uri]
    /\ MaxRequests \in Nat
    /\ ~Offline
    /\ NoDef \notin Def

VARIABLES
    upstreams,      \* g.upstreams: what became of each server's client
    nread,          \* requests read so far
    pc,             \* what Serve is doing
    req,            \* the request in hand
    at,             \* the position in Order of the server being listed
    held,           \* is the round trip Serve waits for one no timeout ends?
    verdict,        \* toolsCall's d
    resOwner,       \* g.resOwner: the server a listed URI belongs to
    once            \* g.pinsOnce: the state of each server's sync.Once

\* History: nothing in the program reads these.
VARIABLES
    released,       \* what was handed to the upstream clients, in order
    refused,        \* the calls refused
    listedUris,     \* the resources shown to the client: server, URI
    audit,          \* the calls, reads and results in the audit log, in order
    shown           \* shown[s][t]: the definition of t that s returned last

loopVars    == <<upstreams, held, nread, pc, req, at, verdict>>
historyVars == <<released, refused, listedUris, audit, shown>>

vars == <<engineVars, loopVars, resOwner, once, historyVars>>

-----------------------------------------------------------------------------
CallRequest == [kind : {"call"}, id : Nat, scope : Scope, server : Server,
                tool : Tool, arg : Arg]
ReadRequest == [kind : {"read"}, id : Nat, scope : Scope, uri : Uri]

PromptRequest == [kind : {"prompt"}, id : Nat, server : Server]

Labels(r) == IF r.kind = "call" THEN Lookup(r.server, r.tool).labels
             ELSE ResourceLabels(r.uri)

\* Does the definition s returned last for t match its pin?
Current(s, t) == shown[s][t] # NoDef /\ Matches(s, t, shown[s][t])

Init ==
    /\ EngineInit
    /\ upstreams = [s \in Server |-> "none"] /\ held = FALSE
    /\ nread = 0 /\ pc = "dialing" /\ req = NoRequest /\ at = 1 /\ verdict = Allowed
    /\ resOwner = [u \in Uri |-> NoServer]
    /\ once = [s \in Server |-> "fresh"]
    /\ released = <<>> /\ refused = {} /\ listedUris = {} /\ audit = <<>>
    /\ shown = [s \in Server |-> [t \in Tool |-> NoDef]]

\* What Record and RecordResource return: the labels new to the scope.
Fresh(c, labels) == Stains(labels) \ Carried(c)

\* A line of the audit log.  log.Write puts its own server id, which serve
\* leaves empty, over that of the event: the server is not in the line.
Log(kind, r, d, labels) ==
    audit' = Append(audit, [kind |-> kind, request |-> r, decision |-> d, labels |-> labels])

-----------------------------------------------------------------------------
(***************************************************************************)
(* The life of the servers: Dial, Close and closeAll.                      *)
(***************************************************************************)

\* The servers are started one after the other, in order.
DialUpstream ==
    /\ pc = "dialing" /\ ~held
    /\ upstreams' = [upstreams EXCEPT ![Order[at]] = "open"]
    /\ IF at < Len(Order) THEN at' = at + 1 /\ UNCHANGED pc
                          ELSE at' = 1 /\ pc' = "idle"
    /\ UNCHANGED <<engineVars, held, nread, req, verdict, resOwner, once, historyVars>>

DialFailsAlone_Mutant ==
    /\ pc = "dialing"
    /\ pc' = "closed"
    /\ UNCHANGED <<engineVars, upstreams, held, nread, req, at, verdict, resOwner, once, historyVars>>

\* One server that cannot be started: the whole gateway fails.
DialFails ==
    /\ pc = "dialing" /\ ~held
    /\ pc' = "closing"
    /\ UNCHANGED <<engineVars, upstreams, held, nread, req, at, verdict, resOwner, once, historyVars>>

CloseAll ==
    /\ pc = "closing"
    /\ upstreams' = [s \in Server |-> IF upstreams[s] = "open" THEN "closed" ELSE upstreams[s]]
    /\ pc' = "closed"
    /\ UNCHANGED <<engineVars, held, nread, req, at, verdict, resOwner, once, historyVars>>

-----------------------------------------------------------------------------
\* Serve reads a request; the handler gets as far as `to`.
Receive(r, to) ==
    /\ pc = "idle" /\ nread < MaxRequests
    /\ nread' = nread + 1
    /\ pc' = to
    /\ req' = r

\* The handler returns, and Serve writes the reply.
Finish ==
    /\ pc' = "idle" /\ req' = NoRequest /\ at' = 1 /\ verdict' = Allowed

ServeOther ==
    /\ pc = "idle" /\ nread < MaxRequests
    /\ nread' = nread + 1
    /\ UNCHANGED <<engineVars, upstreams, held, pc, req, at, verdict, resOwner, once, historyVars>>

\* The client's stream ends, or the context is found cancelled: runServe
\* closes the gateway.
StreamEnds ==
    /\ pc = "idle"
    /\ pc' = "closing"
    /\ UNCHANGED <<engineVars, upstreams, held, nread, req, at, verdict, resOwner, once, historyVars>>

-----------------------------------------------------------------------------
(***************************************************************************)
(* tools/list: toolsList and screen.                                       *)
(***************************************************************************)
ReceiveToolsList ==
    /\ Receive([kind |-> "list"], "listing tools")
    /\ UNCHANGED <<engineVars, upstreams, held, at, verdict, resOwner, once, historyVars>>

ListNextPastEnd_Mutant ==
    IF at <= Len(Order)
    THEN at' = at + 1 /\ UNCHANGED <<pc, req, verdict>>
    ELSE Finish

\* The loop over g.order goes on, or ends in the reply.
ListNext ==
    IF at < Len(Order)
    THEN at' = at + 1 /\ UNCHANGED <<pc, req, verdict>>
    ELSE Finish

\* screen, but for markProbed: every tool is checked against its pin.  What
\* goes to the client, under the server's name, is Kept(s, L).
Screen(s, L) ==
    /\ CheckPins(s, L)
    /\ UNCHANGED <<calls, seen>>
    /\ shown' = [shown EXCEPT ![s] =
                   [t \in Tool |-> IF t \in DOMAIN L THEN L[t] ELSE @[t]]]

\* markProbed: the server's Once is done, and no later call probes.
ListTools(L) ==
    /\ pc = "listing tools" /\ ~held /\ L \in Listings[Order[at]]
    /\ once' = [once EXCEPT ![Order[at]] = "done"]
    /\ Screen(Order[at], L)
    /\ ListNext
    /\ UNCHANGED <<upstreams, held, nread, resOwner, released, refused, listedUris, audit>>

ListToolsGivesUp_Mutant ==
    /\ pc = "listing tools"
    /\ UNCHANGED vars

\* One server that cannot be listed does not spoil the list of the others.
ListToolsFails ==
    /\ pc = "listing tools" /\ ~held
    /\ ListNext
    /\ UNCHANGED <<engineVars, upstreams, held, nread, resOwner, once, historyVars>>

-----------------------------------------------------------------------------
(***************************************************************************)
(* tools/call: toolsCall and verifyPins.                                   *)
(***************************************************************************)

\* A name route understands.  A pinned tool nobody has seen the definition of
\* yet is probed for if its server's Once has not fired; the call that finds
\* it done goes on without an answer.
ReceiveCall(s, t, c, a) ==
    /\ Receive([kind |-> "call", id |-> nread + 1, scope |-> c, server |-> s,
                tool |-> t, arg |-> a],
               IF NeedsPinCheck(s, t) /\ once[s] = "fresh" THEN "probing" ELSE "judging")
    /\ once' = IF NeedsPinCheck(s, t) /\ once[s] = "fresh"
               THEN [once EXCEPT ![s] = "running"] ELSE once
    /\ UNCHANGED <<engineVars, upstreams, held, at, verdict, resOwner, historyVars>>

\* verifyPins: the list cannot be had, and this was the only attempt.
ProbeFails ==
    /\ pc = "probing" /\ ~held
    /\ once' = [once EXCEPT ![req.server] = "done"]
    /\ pc' = "judging"
    /\ UNCHANGED <<engineVars, upstreams, held, nread, req, at, verdict, resOwner, historyVars>>

\* verifyPins: the list is there, and screen begins with markProbed, which
\* calls Do on the Once whose Do is running: sync.Once does not return from it.
ProbeSucceeds ==
    /\ pc = "probing" /\ ~held /\ Listings[req.server] # {}
    /\ pc' = "blocked"
    /\ UNCHANGED <<engineVars, upstreams, held, nread, req, at, verdict, resOwner, once, historyVars>>

\* A call that is refused is logged and answered.
JudgeCall ==
    LET d == Decide(req.scope, req.server, req.tool, req.arg)
    IN  /\ pc = "judging"
        /\ IF Blocked(d)
             THEN /\ refused' = refused \cup {req}
                  /\ Log("denied", req, d, {})
                  /\ Finish
             ELSE /\ pc' = "recording" /\ verdict' = d
                  /\ UNCHANGED <<req, at, refused, audit>>
        /\ UNCHANGED <<engineVars, upstreams, held, nread, resOwner, once, released, listedUris, shown>>

\* The scope is stained before the call is forwarded.
RecordCall ==
    /\ pc = "recording"
    /\ Record(req.scope, req.server, req.tool)
    /\ Log(IF verdict.deny THEN "denied" ELSE "call", req, verdict,
           Fresh(req.scope, Labels(req)))
    /\ pc' = "forwarding"
    /\ UNCHANGED <<upstreams, held, nread, req, at, verdict, resOwner, once, released, refused, listedUris, shown>>

-----------------------------------------------------------------------------
(***************************************************************************)
(* Resources: resourcesList, resourcesRead and ownerOf.                    *)
(***************************************************************************)
ReceiveResourcesList ==
    /\ Receive([kind |-> "resources"], "listing resources")
    /\ UNCHANGED <<engineVars, upstreams, held, at, verdict, resOwner, once, historyVars>>

LastListingOwns_Mutant(U) ==
    LET s == Order[at]
    IN  /\ pc = "listing resources" /\ ~held /\ U \in Offers[s]
        /\ resOwner' = [u \in Uri |-> IF u \in U THEN s ELSE resOwner[u]]
        /\ listedUris' = listedUris \cup {[server |-> s, uri |-> u] : u \in U}
        /\ ListNext
        /\ UNCHANGED <<engineVars, upstreams, held, nread, once, released, refused, audit, shown>>

\* The first server to list a URI keeps it; another's is left out.
ListResources(U) ==
    LET s     == Order[at]
        owned == {u \in U : resOwner[u] \in {NoServer, s}}
    IN  /\ pc = "listing resources" /\ ~held /\ U \in Offers[s]
        /\ resOwner' = [u \in Uri |-> IF u \in owned THEN s ELSE resOwner[u]]
        /\ listedUris' = listedUris \cup {[server |-> s, uri |-> u] : u \in owned}
        /\ ListNext
        /\ UNCHANGED <<engineVars, upstreams, held, nread, once, released, refused, audit, shown>>

ListResourcesFails ==
    /\ pc = "listing resources" /\ ~held
    /\ ListNext
    /\ UNCHANGED <<engineVars, upstreams, held, nread, resOwner, once, historyVars>>

\* The servers with a prefix of the URI, by position.
Prefixes(u) == {i \in DOMAIN Order : u \in Prefixed[Order[i]]}

HasOwner(u) == resOwner[u] # NoServer \/ Prefixes(u) # {}

OwnerOf(u) == IF resOwner[u] # NoServer THEN resOwner[u]
              ELSE Order[First(Prefixes(u))]

ReadUnstained_Mutant(u, c) ==
    /\ HasOwner(u)
    /\ Receive([kind |-> "read", id |-> nread + 1, scope |-> c, uri |-> u], "forwarding")
    /\ Log("call", req', Allowed, {})
    /\ UNCHANGED <<engineVars, upstreams, held, at, verdict, resOwner, once, released, refused, listedUris,
                   shown>>

\* A read is not judged, but it stains, and it is logged.
ReceiveRead(u, c) ==
    /\ HasOwner(u)
    /\ Receive([kind |-> "read", id |-> nread + 1, scope |-> c, uri |-> u], "forwarding")
    /\ RecordResource(c, u)
    /\ Log("call", req', Allowed, Fresh(c, ResourceLabels(u)))
    /\ UNCHANGED <<upstreams, held, at, verdict, resOwner, once, released, refused, listedUris, shown>>

\* Nobody owns the URI: an error, like every request of the kind "other".
ReceiveUnowned(u) == ~HasOwner(u) /\ ServeOther

-----------------------------------------------------------------------------
(***************************************************************************)
(* Prompts: promptsList, which keeps nothing, and promptsGet, which is     *)
(* neither judged nor logged and stains no scope.                          *)
(***************************************************************************)
ReceivePromptsList ==
    /\ Receive([kind |-> "prompts"], "listing prompts")
    /\ UNCHANGED <<engineVars, upstreams, held, at, verdict, resOwner, once, historyVars>>

\* A server that cannot be listed is left out, without a word.
ListPrompts ==
    /\ pc = "listing prompts" /\ ~held
    /\ ListNext
    /\ UNCHANGED <<engineVars, upstreams, held, nread, resOwner, once, historyVars>>

\* A name route understands: the request goes on with its own name.
ReceivePromptsGet(s) ==
    /\ Receive([kind |-> "prompt", id |-> nread + 1, server |-> s], "forwarding")
    /\ UNCHANGED <<engineVars, upstreams, held, at, verdict, resOwner, once, historyVars>>

-----------------------------------------------------------------------------
(***************************************************************************)
(* CallRaw: the request leaves, and the answer or an error comes back.     *)
(***************************************************************************)
Forward ==
    /\ pc = "forwarding"
    /\ pc' = "waiting"
    /\ released' = Append(released,
                     [request |-> req,
                      to |-> IF req.kind = "read" THEN OwnerOf(req.uri) ELSE req.server])
    /\ UNCHANGED <<engineVars, upstreams, held, nread, req, at, verdict, resOwner, once, refused, listedUris, audit, shown>>

\* The result of a tool is logged; that of a read or a prompt is not.
AnswerArrives ==
    /\ pc = "waiting" /\ ~held
    /\ IF req.kind = "call" THEN Log("result", req, verdict, {}) ELSE UNCHANGED audit
    /\ Finish
    /\ UNCHANGED <<engineVars, upstreams, held, nread, resOwner, once, released, refused, listedUris, shown>>

\* An error of any kind, a timeout among them.
CallFails ==
    /\ pc = "waiting" /\ ~held
    /\ Finish
    /\ UNCHANGED <<engineVars, upstreams, held, nread, resOwner, once, historyVars>>

-----------------------------------------------------------------------------
(***************************************************************************)
(* An upstream holds the round trip, and may let go of it again.           *)
(***************************************************************************)
RoundTrip == {"dialing", "listing tools", "listing resources", "listing prompts",
              "probing", "waiting"}

Holds ==
    /\ pc \in RoundTrip /\ ~held
    /\ held' = TRUE
    /\ UNCHANGED <<engineVars, upstreams, nread, pc, req, at, verdict, resOwner, once, historyVars>>

LetsGo ==
    /\ held /\ held' = FALSE
    /\ UNCHANGED <<engineVars, upstreams, nread, pc, req, at, verdict, resOwner, once, historyVars>>

-----------------------------------------------------------------------------
Requests ==
    \/ ServeOther
    \/ ReceiveToolsList
    \/ \E s \in Server, t \in Tool, c \in Scope, a \in Arg : ReceiveCall(s, t, c, a)
    \/ ReceiveResourcesList
    \/ \E u \in Uri, c \in Scope : ReceiveRead(u, c)
    \/ \E u \in Uri : ReceiveUnowned(u)
    \/ ReceivePromptsList
    \/ \E s \in Server : ReceivePromptsGet(s)
    \/ StreamEnds

\* What an upstream's answer sets going.
Answers ==
    \/ DialUpstream
    \/ \E L \in UNION {Listings[s] : s \in Server} : ListTools(L)
    \/ ProbeSucceeds
    \/ \E U \in UNION {Offers[s] : s \in Server} : ListResources(U)
    \/ AnswerArrives

\* What an error sets going; if the upstream does not hold it, a timeout at the
\* latest.
Failures ==
    DialFails \/ ListToolsFails \/ ProbeFails \/ ListResourcesFails \/ ListPrompts \/ CallFails

Handler == JudgeCall \/ RecordCall \/ Forward \/ CloseAll

\* Serve has returned, or hangs.
Halted == pc \in {"closed", "blocked"} /\ UNCHANGED vars

Next == Requests \/ Handler \/ Answers \/ Failures \/ Holds \/ LetsGo \/ Halted

Spec == Init /\ [][Next]_vars

\* Serve runs, and a round trip to a server that says nothing times out
\* (defaultCallTimeout), unless the server holds it: the timeout is that of the
\* wait for one answer, not of the write before it nor of the loop over the
\* pages.  Nothing makes an upstream answer or let go, or the client send.
FairSpec == Spec /\ WF_vars(Handler) /\ WF_vars(Failures)
=============================================================================

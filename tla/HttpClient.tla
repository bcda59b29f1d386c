------------------------------ MODULE HttpClient ------------------------------
(***************************************************************************)
(* internal/mcp over Streamable HTTP: Dial with its era probe, ListTools,  *)
(* CallRaw with header mirroring and its one retry, Close, and under them  *)
(* roundTrip, post, readStream and refuse.  One call at a time.            *)
(*                                                                         *)
(* A request is a POST of its own, and its answer comes back on it or not  *)
(* at all: what a server answers to a request given up is dropped with the *)
(* connection.  Bodies are classed by what the client makes of them.  A    *)
(* listing is one page here; McpClient has the pages.                      *)
(*                                                                         *)
(* The server is external: it is of one era, may change its tools, forget  *)
(* its session, ask for something on a stream, fail, answer late or never. *)
(***************************************************************************)
EXTENDS Headers, FiniteSetsExt

CONSTANTS
    Tool, Schema,   \* the server's tools, and the input schemas they may have
    Args,           \* the arguments a call may have
    OurVersion, LegacyVersion,  \* revisions, numbered in date order
    Offers,         \* the sets of revisions a server may say it supports
    Probed,         \* Probed[k]: how a server of era k may answer discover
    Faults,         \* how any request may fail on its way
    Session, NoSession,
    NoSchema, NoParam, NoAnswer,
    MaxCalls, MaxChanges, MaxAsks   \* bounds

ASSUME HttpAssumption ==
    /\ OurVersion \in Nat /\ LegacyVersion \in Nat
    /\ \A O \in Offers : O \subseteq Nat /\ IsFiniteSet(O)
    /\ \A s \in Schema : IsSchema(s)
    /\ NoHeader \notin Token
    /\ \A a \in Args : \A p \in DOMAIN a : a[p] \in [layers : Nat, odd : BOOLEAN]
    /\ NoSession \notin Session /\ NoSchema \notin Schema
    /\ DOMAIN Probed = {"modern", "legacy"}
    /\ MaxCalls \in Nat /\ MaxChanges \in Nat /\ MaxAsks \in Nat

VARIABLES
    status,         \* "dialling", then "ready" or "failed", then "closed"
    step,           \* roundTrip: "rest", "post", "wait"
    req,            \* the message roundTrip was given
    errand,         \* CallRaw: "none", "list", "call", "relist", "retry"
    nextID, era,
    version,        \* c.ProtocolVersion
    tVersion, legacy, sessionID,    \* the transport's version, legacy, sessionID
    schemas,        \* the schemas of the tools ListTools returned last
    arrived         \* what the open POST has brought and nobody has read

\* The server.
VARIABLES kind, defs, session, posted

\* Bounds and history: nothing in the program reads these.
VARIABLES
    calls, asks,
    changes,        \* how often the tools have changed
    listedAt,       \* ... by the listing that schemas is from
    rejectedAt,     \* ... by the HeaderMismatch a retry follows
    executed,       \* what the server executed: the call, and the POST
    opened, ended,  \* sessions: learned from an answer, ended by DELETE
    cancelled       \* the context of Dial: "no", "closing", "closed"

versionVars == <<version, tVersion>>
sessionVars == <<legacy, sessionID, opened, ended, session>>
callVars    == <<errand, schemas, listedAt, rejectedAt, calls>>
serverVars  == <<kind, defs, asks, changes, executed>>

vars == <<status, era, step, req, nextID, arrived, posted, cancelled,
          versionVars, sessionVars, callVars, serverVars>>

-----------------------------------------------------------------------------
Message(id, method, param) ==
    [id |-> id, method |-> method, param |-> param, call |-> calls']

\* setVersion left out: the transport keeps the version it had.
SetVersionClientOnly_Mutant(v) == version' = v /\ UNCHANGED tVersion

\* c.ProtocolVersion is set, and syncVersion copies it to the transport.
SetVersion(v) == version' = v /\ tVersion' = v

\* pickVersion: ours if it is on offer, otherwise the newest.
PickVersion(offered) ==
    IF OurVersion \in offered \/ offered = {} THEN OurVersion ELSE Max(offered)

\* call: the next id, and the request is roundTrip's.
Call(method, param) ==
    /\ nextID' = nextID + 1
    /\ req' = Message(nextID + 1, method, param)
    /\ step' = "post"

Init ==
    /\ status = "dialling" /\ era = "modern" /\ step = "post" /\ nextID = 1
    /\ req = [id |-> 1, method |-> "discover", param |-> NoParam, call |-> 0]
    /\ version = OurVersion /\ tVersion = OurVersion
    /\ legacy = FALSE /\ sessionID = NoSession
    /\ errand = "none" /\ schemas = [t \in Tool |-> NoSchema]
    /\ arrived = NoAnswer /\ posted = {}
    /\ kind \in {"modern", "legacy"} /\ defs \in [Tool -> Schema]
    /\ session = NoSession
    /\ calls = 0 /\ asks = 0 /\ changes = 0 /\ listedAt = 0 /\ rejectedAt = 0
    /\ executed = {} /\ opened = {} /\ ended = {} /\ cancelled = "no"

-----------------------------------------------------------------------------
(***************************************************************************)
(* post, and what it hears.                                                *)
(***************************************************************************)
SessionHeader(m) == IF legacy THEN sessionID ELSE NoSession

\* The message, its _meta and its headers.
Sent(m) ==
    [id |-> m.id, method |-> m.method, param |-> m.param, call |-> m.call,
     version |-> tVersion,
     meta    |-> IF era = "modern" /\ m.method # "refusal" THEN version ELSE 0,
     session |-> SessionHeader(m),
     headers |-> IF m.method = "call" /\ schemas[m.param.tool] # NoSchema
                 THEN Mirror(schemas[m.param.tool], m.param.args) ELSE {},
     at      |-> listedAt, retry |-> errand = "retry"]

Post ==
    /\ step = "post" /\ step' = "wait"
    /\ posted' = posted \cup {Sent(req)}
    /\ UNCHANGED <<status, era, req, nextID, arrived, cancelled, versionVars,
                   sessionVars, callVars, serverVars>>

\* readStream: an old server asks for something on the stream, and is refused
\* by a POST whose own answer is not looked at; a modern one may not ask.
Asked ==
    /\ step = "wait" /\ arrived # NoAnswer /\ arrived.kind = "ask"
    /\ arrived' = NoAnswer
    /\ posted' = posted \cup {Sent([id |-> 0, method |-> "refusal", param |-> NoParam,
                                    call |-> calls]) : x \in {y \in {1} : legacy}}
    /\ UNCHANGED <<status, era, step, req, nextID, cancelled, versionVars, sessionVars,
                   callVars, serverVars>>

\* The answers, if any, to a request of one of these methods.
Answers(methods) ==
    {a \in {arrived} \ {NoAnswer} :
        step = "wait" /\ req.method \in methods /\ a.kind = "answer"}

Ok(a) == a.status = "2xx" /\ a.code = "ok"

\* What fails does not succeed.
ASSUME FaultsAssumption == \A f \in Faults : ~Ok([status |-> f[1], code |-> f[2]])

-----------------------------------------------------------------------------
(***************************************************************************)
(* Dial: detectEra and legacyInitialize.                                   *)
(***************************************************************************)
Dialled ==
    /\ status' = "ready" /\ step' = "rest"
    /\ UNCHANGED <<req, nextID>>

\* close: a DELETE ends a session of a legacy server.
EndSession ==
    /\ ended' = ended \cup {s \in {sessionID} : legacy /\ s # NoSession}
    /\ session' = IF session \in ended' THEN NoSession ELSE session

DialFails ==
    /\ status' = "failed" /\ step' = "rest"
    /\ EndSession
    /\ UNCHANGED <<req, nextID, era, versionVars, legacy>>

\* isModernHTTPSignal
ModernSignal(a) ==
    /\ a.status # "2xx"
    /\ \/ a.code \in {"mismatch", "capability", "unsupported"}
       \/ a.code = "no method" /\ a.status = "404"

\* isLegacyHTTPSignal; "400" stands for 405 as well.
LegacySignal(a) == a.status \in {"400", "404"} /\ ~ModernSignal(a)

Discovered(a) ==
    /\ arrived' = NoAnswer
    /\ UNCHANGED <<posted, cancelled, callVars, serverVars>>

\* A result, or the revisions of a server that rejects ours.
DiscoverAnswered == \E a \in Answers({"discover"}) :
    /\ Discovered(a)
    /\ Ok(a) \/ (a.code = "unsupported" /\ a.versions # {})
    /\ SetVersion(PickVersion(a.versions))
    /\ Dialled /\ UNCHANGED <<era, sessionVars>>

\* The server is modern, and did not like or offer discover.
ModernRefusal == \E a \in Answers({"discover"}) :
    /\ Discovered(a)
    /\ ModernSignal(a) /\ a.code # "unsupported"
    /\ Dialled /\ UNCHANGED <<era, versionVars, sessionVars>>

AnyRefusalIsLegacy_Mutant == \E a \in Answers({"discover"}) :
    /\ Discovered(a)
    /\ a.status \in {"400", "404"} /\ a.code # "unsupported"
    /\ era' = "legacy" /\ SetVersion(LegacyVersion)
    /\ nextID' = nextID + 1 /\ step' = "post"
    /\ req' = [id |-> nextID + 1, method |-> "initialize", param |-> NoParam, call |-> 0]
    /\ UNCHANGED <<status, sessionVars>>

LegacyInitialize == \E a \in Answers({"discover"}) :
    /\ Discovered(a)
    /\ LegacySignal(a)
    /\ era' = "legacy" /\ SetVersion(LegacyVersion)
    /\ Call("initialize", NoParam)
    /\ UNCHANGED <<status, sessionVars>>

\* Not a question of eras: an HTTP failure of another kind, an error in a 2xx
\* answer, a body that cannot be used, or nothing on offer.
DiscoverFails == \E a \in Answers({"discover"}) :
    /\ Discovered(a)
    /\ ~Ok(a) /\ ~LegacySignal(a)
    /\ IF a.code = "unsupported" THEN a.versions = {} ELSE ~ModernSignal(a)
    /\ DialFails /\ UNCHANGED <<sessionID, opened>>

\* roundTrip takes the session from the headers of any answer to initialize,
\* before it reads the body, and only there.
LearnSession(a) ==
    /\ sessionID' = IF a.session # NoSession THEN a.session ELSE sessionID
    /\ opened' = opened \cup ({a.session} \ {NoSession})

\* legacyMode comes late: the notification goes out without the session.
InitializeAnsweredLate_Mutant == \E a \in Answers({"initialize"}) :
    /\ Discovered(a)
    /\ Ok(a) /\ LearnSession(a)
    /\ \/ a.versions = {} /\ UNCHANGED versionVars
       \/ \E v \in a.versions : SetVersion(v)
    /\ req' = [id |-> 0, method |-> "initialized", param |-> NoParam, call |-> 0]
    /\ step' = "post"
    /\ UNCHANGED <<status, era, nextID, ended, session, legacy>>

\* The server's revision is taken if it names one, legacyMode is switched on,
\* and the initialized notification goes out.
InitializeAnswered == \E a \in Answers({"initialize"}) :
    /\ Discovered(a)
    /\ Ok(a) /\ LearnSession(a)
    /\ \/ a.versions = {} /\ UNCHANGED versionVars
       \/ \E v \in a.versions : SetVersion(v)
    /\ legacy' = TRUE
    /\ req' = Message(0, "initialized", NoParam) /\ step' = "post"
    /\ UNCHANGED <<status, era, nextID, ended, session>>

\* An error, or a body that cannot be used: Dial fails, before legacyMode.
InitializeRefused == \E a \in Answers({"initialize"}) :
    /\ Discovered(a)
    /\ ~Ok(a) /\ LearnSession(a)
    /\ DialFails

\* Of the answer to a notification only the status counts.
InitializedAnswered == \E a \in Answers({"initialized"}) :
    /\ Discovered(a)
    /\ IF a.status = "2xx"
       THEN Dialled /\ UNCHANGED <<era, versionVars, sessionVars>>
       ELSE DialFails /\ UNCHANGED <<sessionID, opened>>

\* The context given to Dial is cancelled.  That starts close, which ends the
\* session if there is one by then, and which Dial does not wait for; the POST
\* has a context of its own and goes on.
CancelDial ==
    /\ status = "dialling" /\ cancelled = "no" /\ cancelled' = "closing"
    /\ UNCHANGED <<status, era, step, req, nextID, arrived, posted, versionVars,
                   sessionVars, callVars, serverVars>>

CloseCancelled ==
    /\ cancelled = "closing" /\ cancelled' = "closed"
    /\ EndSession
    /\ UNCHANGED <<status, era, step, req, nextID, arrived, posted, versionVars, legacy,
                   sessionID, opened, callVars, serverVars>>

-----------------------------------------------------------------------------
(***************************************************************************)
(* ListTools and CallRaw.                                                  *)
(***************************************************************************)
\* A dialled client changes nothing of what Dial found out.
InSession == UNCHANGED <<status, era, cancelled, versionVars, sessionVars, serverVars>>

ReturnHalfway_Mutant == step' = "rest" /\ UNCHANGED <<errand, req, nextID>>

Return == step' = "rest" /\ errand' = "none" /\ UNCHANGED <<req, nextID>>

ListTools ==
    /\ status = "ready" /\ step = "rest" /\ calls < MaxCalls
    /\ calls' = calls + 1
    /\ Call("list", NoParam)
    /\ UNCHANGED <<errand, schemas, listedAt, rejectedAt, arrived, posted>> /\ InSession

\* schemaFor returns nothing.
Unlisted(t) == schemas[t] \in {NoSchema, <<>>}

\* A call of a tool whose schema is not known lists the tools first.
CallRaw(t, args) ==
    /\ status = "ready" /\ step = "rest" /\ calls < MaxCalls
    /\ calls' = calls + 1
    /\ IF Unlisted(t)
       THEN errand' = "list" /\ nextID' = nextID + 1 /\ step' = "post"
            /\ req' = Message(nextID + 1, "list", [tool |-> t, args |-> args])
       ELSE errand' = "call" /\ Call("call", [tool |-> t, args |-> args])
    /\ UNCHANGED <<schemas, listedAt, rejectedAt, arrived, posted>> /\ InSession

KeepOldSchemas_Mutant(a) ==
    /\ schemas' = [t \in Tool |->
                     IF schemas[t] # NoSchema \/ Invalid(a.tools[t]) THEN schemas[t]
                     ELSE a.tools[t]]
    /\ listedAt' = a.at

\* A tool whose annotations are invalid is dropped; the others' schemas
\* replace all that were known.
Remember(a) ==
    /\ schemas' = [t \in Tool |-> IF Invalid(a.tools[t]) THEN NoSchema ELSE a.tools[t]]
    /\ listedAt' = a.at

\* The list is returned, or CallRaw goes on with it.
Listed == \E a \in Answers({"list"}) :
    /\ UNCHANGED <<rejectedAt, calls, posted>> /\ InSession
    /\ Ok(a) /\ Remember(a)
    /\ \/ errand = "none" /\ Return
       \/ errand = "list" /\ errand' = "call" /\ Call("call", req.param)
       \/ errand = "relist" /\ errand' = "retry" /\ Call("call", req.param)
    /\ arrived' = NoAnswer

ListFails == \E a \in Answers({"list"}) :
    /\ ~Ok(a) /\ Return
    /\ arrived' = NoAnswer
    /\ UNCHANGED <<schemas, listedAt, rejectedAt, calls, posted>> /\ InSession

RetryAfterAnyError_Mutant == \E a \in Answers({"call"}) :
    /\ UNCHANGED <<schemas, listedAt, calls, posted>> /\ InSession
    /\ errand = "call" /\ ~Ok(a)
    /\ errand' = "relist" /\ rejectedAt' = a.at
    /\ Call("list", req.param)
    /\ arrived' = NoAnswer

\* HeaderMismatch, the first time: list again, then retry.
Mismatch == \E a \in Answers({"call"}) :
    /\ UNCHANGED <<schemas, listedAt, calls, posted>> /\ InSession
    /\ errand = "call" /\ a.code = "mismatch"
    /\ errand' = "relist" /\ rejectedAt' = a.at
    /\ Call("list", req.param)
    /\ arrived' = NoAnswer

\* A result, or an error, a second HeaderMismatch among them.
CallAnswered == \E a \in Answers({"call"}) :
    /\ a.code # "mismatch" \/ errand = "retry"
    /\ Return
    /\ arrived' = NoAnswer
    /\ UNCHANGED <<schemas, listedAt, rejectedAt, calls, posted>> /\ InSession

\* No connection, or no answer in time; what has arrived is lost, but for the
\* session, if the headers of an answer to initialize have been read.
GivesUp ==
    /\ step = "wait" /\ arrived' = NoAnswer
    /\ IF status = "dialling"
       THEN /\ DialFails /\ UNCHANGED <<errand, cancelled, serverVars>>
            /\ \/ UNCHANGED <<sessionID, opened>>
               \/ \E a \in Answers({"initialize"}) : LearnSession(a)
       ELSE Return /\ InSession
    /\ UNCHANGED <<schemas, listedAt, rejectedAt, calls, posted>>

LeaveSession_Mutant ==
    /\ status = "ready" /\ step = "rest"
    /\ status' = "closed"
    /\ UNCHANGED <<era, step, req, nextID, arrived, posted, cancelled, versionVars,
                   sessionVars, callVars, serverVars>>

Close ==
    /\ status = "ready" /\ step = "rest"
    /\ status' = "closed" /\ EndSession
    /\ UNCHANGED <<era, step, req, nextID, arrived, posted, cancelled, versionVars,
                   legacy, sessionID, opened, callVars, serverVars>>

-----------------------------------------------------------------------------
(***************************************************************************)
(* The server (external).                                                  *)
(***************************************************************************)
Answer(st, code) ==
    [kind |-> "answer", status |-> st, code |-> code, versions |-> {},
     session |-> NoSession, tools |-> <<>>, at |-> changes]

\* What a server reads from a header; an odd text does not get through.
Decode(v) == IF v.layers > 0 THEN [v EXCEPT !.layers = @ - 1] ELSE [v EXCEPT !.odd = FALSE]

\* The annotations a server stands by.
Declared(s) == {n \in Reachable(s) \ {1} : s[n].header \in Token}

\* The call carries every header that its tool, as it is now, asks for.
Fits(r) ==
    LET s == defs[r.param.tool]
        a == r.param.args
    IN  \A n \in Declared(s) :
          Path(s)[n] \in DOMAIN a =>
            \E h \in r.headers : h.name = s[n].header /\ Decode(h.value) = a[Path(s)[n]]

\* A session-based server knows its own session, and no other.  A modern one
\* may know the old handshake as well.
InItsSession(r) == kind = "legacy" => r.session = session

Discovery ==
    UNION {{[Answer(p[1], p[2]) EXCEPT !.versions = O] :
              O \in IF p[2] \in {"ok", "unsupported"} THEN Offers ELSE {{}}} :
           p \in Probed[kind]}

\* The answer of an old server to initialize: at most one revision, and a session.
Welcome ==
    UNION {{[Answer("2xx", "ok") EXCEPT !.versions = O, !.session = s] :
              s \in Session \cup {NoSession}} :
           O \in {P \in Offers : Cardinality(P) < 2}}

Replies(r) ==
    CASE r.method = "discover" -> Discovery
      [] r.method = "initialize" /\ kind = "legacy" -> Welcome
      [] r.method = "initialize" /\ kind = "modern" ->
           {Answer("400", "no method"), Answer("2xx", "ok")}
      [] r.method \in {"initialized", "list", "call"} /\ ~InItsSession(r) ->
           {Answer("404", "none")}
      [] r.method = "list" /\ InItsSession(r) -> {[Answer("2xx", "ok") EXCEPT !.tools = defs]}
      [] r.method = "call" /\ InItsSession(r) /\ kind = "modern" /\ ~Fits(r) ->
           {Answer("400", "mismatch")}
      [] OTHER -> {Answer("2xx", "ok")}

\* What the answer a to the request does at the server, whatever becomes of it
\* then: a call is executed, and initialize opens a session.
TakesEffect(r, a) ==
    /\ executed' = executed \cup
         {[call |-> r.call, id |-> r.id] : x \in {y \in {1} : r.method = "call" /\ Ok(a)}}
    /\ session' = IF r.method = "initialize" /\ Ok(a) THEN a.session ELSE session

\* An answer reaches the client if that still waits for it.
Deliver(r, a) ==
    /\ posted' = posted \ {r}
    /\ IF step = "wait" /\ r.id = req.id /\ r.method = req.method
       THEN arrived = NoAnswer /\ arrived' = a
       ELSE UNCHANGED arrived
    /\ UNCHANGED <<status, era, step, req, nextID, cancelled, versionVars, legacy,
                   sessionID, opened, ended, callVars, kind, defs, asks, changes>>

ServerAnswers == \E r \in posted : \E a \in Replies(r) : TakesEffect(r, a) /\ Deliver(r, a)

\* A call or initialize took effect, and of the answer only the headers can be
\* used; or a request failed on the way, before the server or in it.
ServerFails == \E r \in posted :
    \/ \E a \in Replies(r) :
         /\ r.method \in {"initialize", "call"} /\ Ok(a)
         /\ TakesEffect(r, a)
         /\ Deliver(r, [Answer("2xx", "none") EXCEPT !.session = a.session])
    \/ \E f \in Faults :
         Deliver(r, Answer(f[1], f[2])) /\ UNCHANGED <<executed, session>>

ServerAsks ==
    /\ kind = "legacy" /\ asks < MaxAsks
    /\ step = "wait" /\ arrived = NoAnswer /\ req.method # "initialized"
    /\ \E r \in posted : r.id = req.id
    /\ asks' = asks + 1 /\ arrived' = [kind |-> "ask"]
    /\ UNCHANGED <<status, era, step, req, nextID, posted, cancelled, versionVars,
                   sessionVars, callVars, kind, defs, changes, executed>>

ToolsChange ==
    /\ changes < MaxChanges /\ changes' = changes + 1
    /\ defs' \in [Tool -> Schema] /\ defs' # defs
    /\ UNCHANGED <<status, era, step, req, nextID, arrived, posted, cancelled, versionVars,
                   sessionVars, callVars, kind, asks, executed>>

SessionLost ==
    /\ session # NoSession /\ session' = NoSession
    /\ UNCHANGED <<status, era, step, req, nextID, arrived, posted, cancelled, versionVars,
                   legacy, sessionID, opened, ended, callVars, serverVars>>

-----------------------------------------------------------------------------
Handshake ==
    \/ DiscoverAnswered \/ ModernRefusal \/ LegacyInitialize \/ DiscoverFails
    \/ InitializeAnswered \/ InitializeRefused \/ InitializedAnswered

Calls ==
    \/ ListTools \/ Listed \/ ListFails \/ Mismatch \/ CallAnswered
    \/ \E t \in Tool, args \in Args : CallRaw(t, args)

Server == ServerAnswers \/ ServerFails \/ ServerAsks \/ ToolsChange \/ SessionLost

Halted == status \in {"failed", "closed"} /\ UNCHANGED vars

Next ==
    \/ Post \/ Asked \/ GivesUp \/ Handshake \/ CancelDial \/ CloseCancelled
    \/ Calls \/ Close \/ Server \/ Halted

Spec == Init /\ [][Next]_vars
=============================================================================

------------------------------ MODULE McpClient ------------------------------
(***************************************************************************)
(* internal/mcp over stdio: the synchronous client that `serve`, `init`    *)
(* and `verify` speak through (Dial, ListTools, ListResources, CallRaw,    *)
(* Close), the transport under it and the reader goroutine of the child.   *)
(* One call at a time; its caller is one goroutine.                        *)
(*                                                                         *)
(* The child is external: it reads its stdin in order, answers what it     *)
(* read in any order, late or never, says things of its own, and dies.  It *)
(* may stop reading, too: a write to its stdin has no timeout.             *)
(* ListPrompts is ListResources with another method; HTTP is left out.     *)
(***************************************************************************)
EXTENDS Integers, Sequences, FiniteSetsExt

CONSTANTS
    OurVersion,     \* ProtocolVersion; revisions are numbered in date order
    LegacyVersion,  \* the revision offered in initialize
    Offers,         \* the sets of revisions a server may say it supports
    Cursor, First,  \* page cursors; First is the empty one
    NextCursor,     \* NextCursor[c]: what the page at c says comes next
    Payload,        \* the params of the calls forwarded by CallRaw
    Metas,          \* what those params carry as _meta
    CallerMeta, NoMeta, NoParam,
    ChanCap,        \* messages the reader holds: its channel and its hand
    PipeCap,        \* messages a pipe holds
    MaxCalls,       \* bound: API calls after Dial
    MaxUnsolicited, \* bound: what the server says unasked
    MaxPages        \* bound: pages of a listing that has not come to its end

ASSUME ClientAssumption ==
    /\ OurVersion \in Nat /\ LegacyVersion \in Nat /\ OurVersion # LegacyVersion
    /\ Offers \subseteq SUBSET Nat /\ \A O \in Offers : IsFiniteSet(O)
    /\ First \in Cursor /\ NextCursor \in [Cursor -> Cursor]
    /\ Metas \subseteq {CallerMeta, NoMeta}
    /\ ChanCap \in Nat \ {0} /\ PipeCap \in Nat \ {0}
    /\ MaxCalls \in Nat /\ MaxUnsolicited \in Nat /\ MaxPages \in Nat

VARIABLES
    status,         \* "dialling", then "ready" or "failed", then "closed"
    step,           \* roundTrip: "rest", "write", "wait" or "refuse"
    req,            \* the message roundTrip was given
    nextID, era, version,
    gathered,       \* all: the pages ListTools or ListResources has so far
    stdin, stdout,  \* the pipes of the child
    incoming,       \* what the reader has read and roundTrip has not
    reader          \* "reading"; "ended" by the end of stdout, "broken" by a bad line

\* The child.
VARIABLES alive, unanswered

\* Bounds and history: nothing in the program reads these.
VARIABLES
    calls, unsolicited,
    wire,           \* what the client wrote, in order
    answered,       \* what the server answered
    returned        \* how each API call came back

clientVars  == <<status, step, req, nextID, era, version, gathered>>
serverVars  == <<alive, unanswered, unsolicited, answered>>
readerVars  == <<stdout, incoming, reader>>
historyVars == <<calls, wire, returned>>

vars == <<clientVars, stdin, readerVars, serverVars, historyVars>>

-----------------------------------------------------------------------------
Request(id, method, param, meta) ==
    [kind |-> "request", id |-> id, method |-> method, param |-> param, meta |-> meta]

Initialized == [kind |-> "notification", id |-> 0, method |-> "initialized",
                param |-> NoParam, meta |-> NoMeta]

Refusal == [kind |-> "refusal", id |-> 0, method |-> "none",
            param |-> NoParam, meta |-> NoMeta]

Listing == {"tools/list", "resources/list"}

\* encodeParams: a modern request describes itself; otherwise params go as given.
Meta(e, v, given) == IF e = "modern" THEN v ELSE given

\* pickVersion: ours if it is on offer, otherwise the newest.
PickVersion(offered) ==
    IF OurVersion \in offered \/ offered = {} THEN OurVersion ELSE Max(offered)

SameID_Mutant(method, param, given) ==
    /\ req' = Request(nextID, method, param, Meta(era', version', given))
    /\ step' = "write"
    /\ UNCHANGED nextID

\* call: the next id, and the request is roundTrip's.
Call(method, param, given) ==
    /\ nextID' = nextID + 1
    /\ req' = Request(nextID + 1, method, param, Meta(era', version', given))
    /\ step' = "write"

Init ==
    /\ status = "dialling" /\ era = "modern" /\ version = OurVersion
    /\ nextID = 1 /\ step = "write"
    /\ req = Request(1, "discover", NoParam, OurVersion)
    /\ gathered = <<>>
    /\ stdin = <<>> /\ stdout = <<>> /\ incoming = <<>> /\ reader = "reading"
    /\ alive = TRUE /\ unanswered = {} /\ unsolicited = 0
    /\ calls = 0 /\ wire = <<>> /\ answered = {} /\ returned = {}

-----------------------------------------------------------------------------
(***************************************************************************)
(* How a call ends.                                                        *)
(***************************************************************************)
Dialled ==
    /\ status' = "ready" /\ step' = "rest"
    /\ UNCHANGED <<req, nextID, gathered, alive, returned>>

\* The child is killed, and Dial returns the error.
DialFails ==
    /\ status' = "failed" /\ step' = "rest" /\ alive' = FALSE
    /\ UNCHANGED <<req, nextID, era, version, gathered, returned>>

LegacyInitialize ==
    /\ era' = "legacy" /\ version' = LegacyVersion
    /\ Call("initialize", NoParam, NoMeta)
    /\ UNCHANGED <<status, gathered, alive, returned>>

Returns(outcome, got) ==
    /\ returned' = returned \cup
         {[id |-> req.id, method |-> req.method, param |-> req.param,
           outcome |-> outcome, got |-> got]}
    /\ step' = "rest" /\ gathered' = <<>>
    /\ UNCHANGED <<status, req, nextID, era, version, alive>>

\* roundTrip returned an error, or a response that carries one.
Fails(outcome) ==
    \/ req.method = "discover" /\ LegacyInitialize
    \/ req.method \in {"initialize", "initialized"} /\ DialFails
    \/ req.method \in Listing \cup {"call"} /\ Returns(outcome, <<>>)

-----------------------------------------------------------------------------
(***************************************************************************)
(* roundTrip.                                                              *)
(***************************************************************************)
WriteRequest ==
    /\ step = "write" /\ alive /\ Len(stdin) < PipeCap
    /\ stdin' = Append(stdin, req) /\ wire' = Append(wire, req)
    /\ \/ /\ req.kind = "request" /\ step' = "wait"
          /\ UNCHANGED <<status, req, nextID, era, version, gathered, alive, returned>>
       \/ /\ req.kind = "notification" /\ Dialled
          /\ UNCHANGED <<era, version>>
    /\ UNCHANGED <<readerVars, unanswered, unsolicited, answered, calls>>

WriteFails ==
    /\ step = "write" /\ ~alive
    /\ Fails("closed")
    /\ UNCHANGED <<stdin, readerVars, unanswered, unsolicited, answered, calls, wire>>

AnyAnswer_Mutant(m) == m.kind = "answer"

Own(m) == m.kind = "answer" /\ m.id = req.id

\* What a receive from the channel would return, if anything.
Arrived == {incoming[i] : i \in DOMAIN incoming \cap {1}}

Take(m) ==
    /\ step = "wait"
    /\ incoming' = Tail(incoming)
    /\ UNCHANGED <<stdin, stdout, reader, unanswered, unsolicited, answered, calls, wire>>

\* A notification, or an answer nobody waits for any more.
Ignore == \E m \in Arrived :
    /\ Take(m)
    /\ m.kind # "request" /\ ~Own(m)
    /\ UNCHANGED <<clientVars, alive, returned>>

TakeRequest == \E m \in Arrived :
    /\ Take(m)
    /\ m.kind = "request"
    /\ step' = "refuse"
    /\ UNCHANGED <<status, req, nextID, era, version, gathered, alive, returned>>

\* The refusal is written; an error doing so is dropped.
Refuse ==
    /\ step = "refuse" /\ step' = "wait"
    /\ \/ alive /\ Len(stdin) < PipeCap
          /\ stdin' = Append(stdin, Refusal) /\ wire' = Append(wire, Refusal)
       \/ ~alive /\ UNCHANGED <<stdin, wire>>
    /\ UNCHANGED <<status, req, nextID, era, version, gathered, readerVars,
                   serverVars, calls, returned>>

CloseOvertakes_Mutant ==
    /\ step = "wait" /\ reader # "reading"
    /\ Fails("closed")
    /\ UNCHANGED <<stdin, readerVars, unanswered, unsolicited, answered, calls, wire>>

\* The channel is closed, and empty.
FindClosed ==
    /\ step = "wait" /\ reader # "reading" /\ incoming = <<>>
    /\ Fails("closed")
    /\ UNCHANGED <<stdin, readerVars, unanswered, unsolicited, answered, calls, wire>>

TimesOutDialling_Mutant ==
    /\ step = "wait" /\ status = "dialling"
    /\ Fails("timed out")
    /\ UNCHANGED <<stdin, readerVars, unanswered, unsolicited, answered, calls, wire>>

TimesOut ==
    /\ step = "wait"
    /\ Fails("timed out")
    /\ UNCHANGED <<stdin, readerVars, unanswered, unsolicited, answered, calls, wire>>

Answered(methods, codes, m) == Take(m) /\ Own(m) /\ req.method \in methods /\ m.code \in codes

-----------------------------------------------------------------------------
(***************************************************************************)
(* detectEra and legacyInitialize, on the answers they wait for.           *)
(***************************************************************************)
\* The server is modern: it answered discover, or rejected our revision.
DiscoverAnswered == \E m \in Arrived :
    /\ Answered({"discover"}, {"ok", "unsupported"}, m)
    /\ m.code = "ok" \/ m.versions # {}
    /\ version' = PickVersion(m.versions)
    /\ Dialled /\ UNCHANGED era

NothingOffered == \E m \in Arrived :
    /\ Answered({"discover"}, {"unsupported"}, m) /\ m.versions = {}
    /\ DialFails

\* Ready as soon as initialize is answered.
NotInitialized_Mutant == \E m \in Arrived :
    /\ Answered({"initialize"}, {"ok"}, m)
    /\ \/ m.versions = {} /\ UNCHANGED version
       \/ version' \in m.versions
    /\ Dialled /\ UNCHANGED era

\* initialize is answered: take the server's revision, if it names one.
InitializeAnswered == \E m \in Arrived :
    /\ Answered({"initialize"}, {"ok"}, m)
    /\ \/ m.versions = {} /\ UNCHANGED version
       \/ version' \in m.versions
    /\ req' = Initialized /\ step' = "write"
    /\ UNCHANGED <<status, nextID, era, gathered, alive, returned>>

RefusedCodes == {"error", "no method"}

HandshakeRefused == \E m \in Arrived :
    /\ Answered({"discover", "initialize"}, RefusedCodes, m)
    /\ Fails("error")

\* The context given to Dial is cancelled: the child is killed, and whatever
\* Dial waits for ends.  (stop() may lose the race with Dial's return; what
\* follows is then what ServerExits allows.)
CancelDial ==
    /\ status = "dialling" /\ alive
    /\ alive' = FALSE
    /\ UNCHANGED <<clientVars, stdin, readerVars, unanswered, unsolicited, answered,
                   historyVars>>

-----------------------------------------------------------------------------
(***************************************************************************)
(* The calls of a dialled client.                                          *)
(***************************************************************************)
Begin(method, param, given) ==
    /\ status = "ready" /\ step = "rest" /\ calls < MaxCalls
    /\ calls' = calls + 1
    /\ UNCHANGED <<era, version>>
    /\ Call(method, param, given)
    /\ UNCHANGED <<status, gathered, stdin, readerVars, serverVars, wire, returned>>

List == \E method \in Listing : Begin(method, First, NoMeta)

CallRaw == \E p \in Payload, given \in Metas : Begin("call", p, given)

\* The loop ends at no cursor, or at the same one again; a cycle of two cursors
\* or more has no end.
LastPage(c) == NextCursor[c] \in {First, c}

PageArrives == \E m \in Arrived :
    /\ Answered(Listing, {"ok"}, m)
    /\ \/ /\ LastPage(req.param)
          /\ Returns("ok", Append(gathered, m.about))
       \/ /\ ~LastPage(req.param) /\ Len(gathered) < MaxPages
          /\ gathered' = Append(gathered, m.about)
          /\ UNCHANGED <<era, version>>
          /\ Call(req.method, NextCursor[req.param], NoMeta)
          /\ UNCHANGED <<status, alive, returned>>

\* A server without resources is one with none; without tools, it is an error.
ListingRefused == \E m \in Arrived :
    /\ Answered(Listing, RefusedCodes, m)
    /\ IF m.code = "no method" /\ req.method # "tools/list"
       THEN Returns("none", <<>>)
       ELSE Returns("error", <<>>)

CallAnswered == \E m \in Arrived :
    /\ Answered({"call"}, {"ok", "error", "no method"}, m)
    /\ Returns(m.code, <<m.about>>)

Close ==
    /\ status = "ready" /\ step = "rest"
    /\ status' = "closed" /\ alive' = FALSE
    /\ UNCHANGED <<step, req, nextID, era, version, gathered, stdin, readerVars,
                   unanswered, unsolicited, answered, historyVars>>

-----------------------------------------------------------------------------
(***************************************************************************)
(* readLoop.                                                               *)
(***************************************************************************)
ReadUnbounded_Mutant ==
    /\ reader = "reading" /\ stdout # <<>> /\ Head(stdout).kind # "garbage"
    /\ incoming' = Append(incoming, Head(stdout))
    /\ stdout' = Tail(stdout)
    /\ UNCHANGED <<clientVars, stdin, reader, serverVars, historyVars>>

ReadMessage ==
    /\ reader = "reading" /\ stdout # <<>> /\ Head(stdout).kind # "garbage"
    /\ Len(incoming) < ChanCap
    /\ incoming' = Append(incoming, Head(stdout))
    /\ stdout' = Tail(stdout)
    /\ UNCHANGED <<clientVars, stdin, reader, serverVars, historyVars>>

\* readErr is set, incoming is closed, and nothing is read any more.
ReadFails(how) ==
    /\ reader = "reading" /\ reader' = how
    /\ UNCHANGED <<clientVars, stdin, stdout, incoming, serverVars, historyVars>>

ReadEnd == stdout = <<>> /\ ~alive /\ ReadFails("ended")

\* A line that is no message ends the session, though the child is alive.
ReadGarbage == stdout # <<>> /\ Head(stdout).kind = "garbage" /\ ReadFails("broken")

-----------------------------------------------------------------------------
(***************************************************************************)
(* The child (external).                                                   *)
(***************************************************************************)
ServerReads ==
    /\ alive /\ stdin # <<>>
    /\ stdin' = Tail(stdin)
    /\ unanswered' = unanswered \cup {r \in {Head(stdin)} : r.kind = "request"}
    /\ UNCHANGED <<clientVars, readerVars, alive, unsolicited, answered, historyVars>>

Codes(method) ==
    {"ok", "error"} \cup (IF method \in Listing THEN {"no method"} ELSE {})
                    \cup (IF method = "discover" THEN {"unsupported"} ELSE {})

Versions(method, code) ==
    IF method = "discover" /\ code # "error" THEN Offers
    ELSE IF method = "initialize" /\ code = "ok"
         THEN {O \in Offers : Cardinality(O) < 2} ELSE {{}}

Says(m) ==
    /\ alive /\ Len(stdout) < PipeCap
    /\ stdout' = Append(stdout, m)
    /\ UNCHANGED <<clientVars, stdin, incoming, reader, alive, historyVars>>

ServerAnswers == \E r \in unanswered : \E code \in Codes(r.method) :
    \E O \in Versions(r.method, code) :
    LET m == [kind |-> "answer", id |-> r.id, code |-> code, versions |-> O,
              about |-> <<r.method, r.param>>]
    IN  /\ Says(m)
        /\ unanswered' = unanswered \ {r}
        /\ answered' = answered \cup {m}
        /\ UNCHANGED unsolicited

ServerSpeaks == \E k \in {"request", "notification", "garbage"} :
    /\ unsolicited < MaxUnsolicited
    /\ unsolicited' = unsolicited + 1
    /\ Says([kind |-> k, id |-> 0])
    /\ UNCHANGED <<unanswered, answered>>

ServerExits ==
    /\ alive /\ alive' = FALSE
    /\ UNCHANGED <<clientVars, stdin, readerVars, unanswered, unsolicited, answered,
                   historyVars>>

-----------------------------------------------------------------------------
RoundTrip == WriteRequest \/ WriteFails \/ Ignore \/ TakeRequest \/ Refuse \/ FindClosed
Handshake == DiscoverAnswered \/ NothingOffered \/ InitializeAnswered \/ HandshakeRefused
Results   == PageArrives \/ ListingRefused \/ CallAnswered

Reader == ReadMessage \/ ReadEnd \/ ReadGarbage
Child  == ServerReads \/ ServerAnswers \/ ServerSpeaks \/ ServerExits

\* The reader may be left behind, waiting for room in a channel nobody empties.
Halted == status \in {"failed", "closed"} /\ UNCHANGED vars

Next ==
    \/ RoundTrip \/ TimesOut \/ Handshake \/ Results
    \/ List \/ CallRaw \/ Close \/ CancelDial
    \/ Reader \/ Child \/ Halted

Spec == Init /\ [][Next]_vars

\* Goroutines are scheduled and timers fire.  Nothing makes the child read, answer
\* or exit: with its stdout full it could not read if it wanted to.
FairSpec ==
    /\ Spec
    /\ WF_vars(RoundTrip \/ Handshake \/ Results) /\ WF_vars(TimesOut)
    /\ WF_vars(Reader)
=============================================================================

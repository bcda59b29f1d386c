------------------------- MODULE McpClientProperties -------------------------
(***************************************************************************)
(* What a caller of internal/mcp may rely on, whatever the child does.     *)
(***************************************************************************)
EXTENDS McpClient

Method == {"discover", "initialize", "tools/list", "resources/list", "call"}

About == Method \X (Cursor \cup Payload \cup {NoParam})

Message ==
    [kind : {"request"}, id : Nat, method : Method,
     param : Cursor \cup Payload \cup {NoParam},
     meta : Nat \cup {CallerMeta, NoMeta}] \cup {Initialized, Refusal}

Answer ==
    [kind : {"answer"}, id : Nat, code : {"ok", "error", "no method", "unsupported"},
     versions : Offers \cup {{}}, about : About]

FromServer == Answer \cup [kind : {"request", "notification", "garbage"}, id : {0}]

\* Every variable has the values the code gives it, and no queue exceeds its
\* capacity.
TypeOK ==
    /\ status \in {"dialling", "ready", "failed", "closed"}
    /\ step \in {"rest", "write", "wait", "refuse"}
    /\ req \in Message /\ req.kind # "refusal"
    /\ nextID \in Nat /\ era \in {"modern", "legacy"} /\ version \in Nat
    /\ gathered \in Seq(About)
    /\ stdin \in Seq(Message) /\ Len(stdin) <= PipeCap
    /\ stdout \in Seq(FromServer) /\ Len(stdout) <= PipeCap
    /\ incoming \in Seq(FromServer) /\ Len(incoming) <= ChanCap
    /\ reader \in {"reading", "ended", "broken"} /\ alive \in BOOLEAN
    /\ unanswered \subseteq Message /\ answered \subseteq Answer
    /\ calls \in 0..MaxCalls /\ unsolicited \in 0..MaxUnsolicited
    /\ wire \in Seq(Message)
    /\ \A r \in returned :
         /\ r.method \in Listing \cup {"call"}
         /\ r.outcome \in {"ok", "error", "no method", "none", "closed", "timed out"}
         /\ r.got \in Seq(About)

-----------------------------------------------------------------------------
\* The result a forwarded call returns was computed for that call and those
\* params: never the late answer of a call that timed out, nor one of the
\* handshake's (transport.go: "returns the response carrying the same id").
OwnAnswer ==
    \A r \in returned :
      r.method = "call" /\ r.outcome \in {"ok", "error", "no method"}
        => r.got = <<<<"call", r.param>>>>

\* A listing that succeeds is the server's whole listing, page by page in
\* cursor order, whatever late pages of an abandoned listing arrive meanwhile.
ListingIsWhole ==
    \A r \in returned :
      r.method \in Listing /\ r.outcome = "ok"
        => LET n == Len(r.got) IN
           /\ n > 0 /\ r.got[1] = <<r.method, First>>
           /\ \A i \in 1..n - 1 : r.got[i + 1] = <<r.method, NextCursor[r.got[i][2]]>>
           /\ NextCursor[r.got[n][2]] \in {First, r.got[n][2]}

\* The revision the client goes on with is the one that follows from what the
\* server itself said: to discover if it is taken as modern, to initialize if
\* as legacy, and never from a discover answer that came too late.
VersionAgreed ==
    status \in {"ready", "closed"} =>
      \E a \in answered :
        \/ /\ era = "modern" /\ a.about[1] = "discover" /\ a.code \in {"ok", "unsupported"}
           /\ version = PickVersion(a.versions)
        \/ /\ era = "legacy" /\ a.about[1] = "initialize" /\ a.code = "ok"
           /\ IF a.versions = {} THEN version = LegacyVersion ELSE version \in a.versions

\* On the wire every call fits the era: in a session it follows the initialized
\* notification, and without one it describes itself, by the agreed revision.
CallsFitEra ==
    \A i \in DOMAIN wire :
      wire[i].method \in Listing \cup {"call"} =>
        IF \E j \in 1..i : wire[j].method = "initialize"
        THEN /\ \E j \in 1..i : wire[j] = Initialized
             /\ wire[i].meta \in {CallerMeta, NoMeta}
        ELSE wire[i].meta = version

\* A server that answered and then exited is not reported as having hung up:
\* the reader hands over what the pipe still held before the channel closes.
\* (One that wrote a line that is no message before its answer is.)
NoAnswerLost ==
    \A r \in returned :
      r.outcome = "closed" /\ reader # "broken" => \A a \in answered : a.id # r.id

\* roundTrip is in a write to a child that is alive and does not read: it has
\* stopped, or it is itself held by a stdout that is full because the reader's
\* channel is, which roundTrip empties only after its write.
HeldWriting == alive /\ step \in {"write", "refuse"} /\ Len(stdin) = PipeCap

\* The server's cursors have come round: a page was fetched twice.
GoesRound == \E i, j \in DOMAIN gathered : i < j /\ gathered[i] = gathered[j]

\* Every call returns, and so does Dial: a server that answers nothing, floods
\* the channel, sends requests of its own or dies cannot hold the client, once
\* what the client writes has got into its stdin, unless it goes on answering
\* with cursors that go round (roundTrip, ListTools).
EveryCallReturns == step # "rest" ~> step = "rest" \/ HeldWriting \/ GoesRound
=============================================================================

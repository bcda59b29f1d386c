------------------------- MODULE HttpClientProperties -------------------------
(***************************************************************************)
(* What the client promises over Streamable HTTP.                          *)
(***************************************************************************)
EXTENDS HttpClient

RequestShape(m) ==
    /\ m.id \in 0 .. nextID
    /\ m.method \in {"discover", "initialize", "initialized", "list", "call", "refusal"}
    /\ m.call \in 0 .. MaxCalls
    /\ m.param = NoParam \/ m.param.tool \in Tool

\* Every variable keeps its shape; a request is out only while roundTrip has
\* one in hand, and a retry belongs to a call that was rejected.
TypeOK ==
    /\ status \in {"dialling", "ready", "failed", "closed"}
    /\ step \in {"rest", "post", "wait"}
    /\ status \in {"failed", "closed"} => step = "rest"
    /\ status = "dialling" => step # "rest"
    /\ RequestShape(req) /\ \A r \in posted : RequestShape(r)
    /\ errand \in {"none", "list", "call", "relist", "retry"}
    /\ errand # "none" => status = "ready" /\ step # "rest"
    /\ arrived # NoAnswer => step = "wait"
    /\ version \in Nat /\ tVersion \in Nat
    /\ sessionID \in Session \cup {NoSession} /\ session \in Session \cup {NoSession}
    /\ schemas \in [Tool -> Schema \cup {NoSchema}]
    /\ defs \in [Tool -> Schema]
    /\ listedAt \in 0 .. changes /\ rejectedAt \in 0 .. changes
    /\ opened \subseteq Session /\ ended \subseteq Session

-----------------------------------------------------------------------------
\* What any era rests on: an old server neither answers discover nor refuses it
\* in the words of a modern one, a modern server never refuses it in other
\* words, and what fails on the way looks like neither (client.go:107-110).
Signal(p) == [status |-> p[1], code |-> p[2]]

ASSUME EraAssumption ==
    /\ \A p \in Probed["modern"] \cup Faults : ~LegacySignal(Signal(p))
    /\ \A p \in Probed["legacy"] \cup Faults :
          ~Ok(Signal(p)) /\ ~ModernSignal(Signal(p)) /\ p[2] # "unsupported"

\* A dialled client speaks the era of its server, whatever refused discover:
\* only a body that no modern server sends leads to the old handshake
\* (client.go:123-129, isModernHTTPSignal).
EraRight == status = "ready" => era = kind

\* The version header of a request and the version in its _meta agree, and a
\* call of a dialled client carries the version settled by the handshake,
\* though the client and the transport each keep a copy (syncVersion).
VersionsAgree ==
    \A r \in posted :
        /\ r.meta # 0 => r.version = r.meta
        /\ r.method \in {"list", "call"} => r.version = version

\* After the handshake every request carries the session a session-based server
\* handed out, the notification that ends the handshake and the refusals
\* included, and none if it handed out none (http.go:24-28).
SessionEchoed ==
    \A r \in posted :
        r.method \notin {"discover", "initialize"} =>
            IF opened = {} THEN r.session = NoSession ELSE r.session \in opened

\* A session in use, that of a handshake whose initialize succeeded, is ended,
\* however Dial fails after that, also when its context is cancelled between two
\* messages, and when a dialled client is closed (http.go:343-344).
EstablishedEnded == status \in {"failed", "closed"} /\ legacy => opened \subseteq ended

\* "close ends a legacy session with DELETE" (http.go:343): every session the
\* client has learned from a server is ended when it fails or is closed.
SessionsEnded == status \in {"failed", "closed"} => opened \subseteq ended

\* One CallRaw has the tool run at most once: its retry follows a rejection,
\* never an answer that was lost (client.go:233-235).
ExecutedOnce == \A x, y \in executed : x.call = y.call => x = y

\* A call sent with the definitions as they still are carries every header its
\* tool asks for, readable as it was meant; a retry is never sent with the
\* definitions that were rejected (client.go:221-222, 234-235).
CallsFitSchema ==
    \A r \in posted :
        r.method = "call" =>
          /\ r.at = changes /\ schemas[r.param.tool] # NoSchema => Fits(r)
          /\ r.retry /\ r.id = req.id => r.at >= rejectedAt

\* The rules for annotations as headers.go:33-36 and 53-55 state them, of the
\* schema as a whole.
Above(s) ==
    LET above[n \in DOMAIN s] == IF n = 1 THEN {1} ELSE {n} \cup above[s[n].up]
    IN  above

Malformed(s) ==
    LET marked == {n \in DOMAIN s : s[n].header # NoHeader}
    IN  \/ \E n \in marked :
              \/ \E m \in Above(s)[n] : s[m].via \notin {"root", "properties"}
              \/ s[n].header \notin Token
              \/ s[n].type \notin {"integer", "string", "boolean"}
        \/ \E m, n \in marked : m # n /\ Lower[s[m].header] = Lower[s[n].header]

\* A tool is dropped only for cause: a call goes out without the schema of a tool
\* that the last listing had, as it still is, only if its annotations break the
\* rules (headers.go:15-16).
OnlyMalformedDropped ==
    \A r \in posted :
        r.method = "call" /\ r.at = changes /\ schemas[r.param.tool] = NoSchema
          => Malformed(defs[r.param.tool])

\* "an annotation under any of them invalidates the tool" (headers.go:53-55): the
\* tools that are kept have none that breaks the rules.
KeptWellFormed == \A t \in Tool : schemas[t] # NoSchema => ~Malformed(schemas[t])
=============================================================================

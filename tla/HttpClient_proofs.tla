---------------------------- MODULE HttpClient_proofs ----------------------------
(***************************************************************************)
(* HttpClient for every server, every set of tools and schemas, and any    *)
(* number of calls: what a caller of internal/mcp may rely on over HTTP.   *)
(***************************************************************************)
EXTENDS HttpClientProperties, FiniteSetTheorems, TLAPS

(***************************************************************************)
(* The client's moves.  A dialling client has a request of Dial's in hand, *)
(* a dialled one a request of its only call or nothing.                    *)
(***************************************************************************)
PhaseOK ==
    /\ status \in {"dialling", "ready", "failed", "closed"}
    /\ step \in {"rest", "post", "wait"}
    /\ status \in {"failed", "closed"} => step = "rest"
    /\ step = "rest" => errand = "none" /\ status # "dialling"
    /\ status = "dialling" =>
         /\ errand = "none"
         /\ req.method \in {"discover", "initialize", "initialized"}
         /\ legacy <=> req.method = "initialized"
    /\ status = "ready" /\ step # "rest" =>
         /\ \/ req.method = "list" /\ errand \in {"none", "list", "relist"}
            \/ req.method = "call" /\ errand \in {"call", "retry"}
         /\ req.call = calls
    /\ arrived # NoAnswer => step = "wait"

\* What a step of the client leaves of the traffic.
Reads == arrived' = NoAnswer /\ UNCHANGED <<posted, executed>>

InDial == status = "dialling" /\ step = "wait" /\ UNCHANGED <<errand, calls>>

TurnsLegacy ==
    /\ Reads /\ InDial /\ req.method = "discover" /\ LegacyInitialize
    /\ step' = "post" /\ nextID' = nextID + 1 /\ UNCHANGED <<status, legacy>>
    /\ req' = [id |-> nextID + 1, method |-> "initialize", param |-> NoParam, call |-> calls]

Notifies ==
    /\ Reads /\ InDial /\ req.method = "initialize" /\ InitializeAnswered
    /\ step' = "post" /\ UNCHANGED <<status, nextID>> /\ legacy' = TRUE
    /\ req' = [id |-> 0, method |-> "initialized", param |-> NoParam, call |-> calls]

Settles ==
    /\ Reads /\ InDial
    /\ DiscoverAnswered \/ ModernRefusal \/ InitializedAnswered
    /\ status' = "ready" /\ step' = "rest" /\ UNCHANGED <<req, nextID, legacy>>

Fails ==
    /\ Reads /\ InDial /\ DialFails
    /\ status' = "failed" /\ step' = "rest" /\ UNCHANGED <<req, nextID>>
    /\ UNCHANGED sessionID \/ req.method = "initialize"

Asks(method, param) ==
    /\ status = "ready" /\ step' = "post" /\ nextID' = nextID + 1 /\ InSession
    /\ req' = [id |-> nextID + 1, method |-> method, param |-> param, call |-> calls']

Begins ==
    /\ step = "rest" /\ calls < MaxCalls /\ calls' = calls + 1
    /\ UNCHANGED <<arrived, posted, executed, schemas, listedAt, rejectedAt>>
    /\ \/ Asks("list", NoParam) /\ UNCHANGED errand
       \/ \E t \in Tool, args \in Args :
            \/ errand' = "list" /\ Asks("list", [tool |-> t, args |-> args])
            \/ /\ errand' = "call" /\ schemas[t] # NoSchema
               /\ Asks("call", [tool |-> t, args |-> args])

GoesOn ==
    /\ Listed /\ Reads /\ step = "wait" /\ req.method = "list" /\ UNCHANGED calls
    /\ \/ errand = "list" /\ errand' = "call"
       \/ errand = "relist" /\ errand' = "retry"
    /\ Asks("call", req.param)

Relists ==
    /\ Reads /\ step = "wait" /\ req.method = "call" /\ UNCHANGED calls /\ Mismatch
    /\ errand = "call" /\ errand' = "relist"
    /\ Asks("list", req.param)

Rests ==
    /\ Reads /\ status = "ready" /\ step = "wait" /\ step' = "rest" /\ errand' = "none"
    /\ UNCHANGED <<req, nextID, calls>> /\ InSession

Closes ==
    /\ Close /\ status = "ready" /\ step = "rest" /\ status' = "closed"
    /\ UNCHANGED <<step, req, errand, nextID, calls, arrived, posted, executed, legacy>>

\* The steps of the server, and those that leave the request in hand alone.
Idles ==
    /\ UNCHANGED <<status, step, req, errand, nextID, calls, legacy>>
    /\ arrived' = arrived \/ arrived' = NoAnswer \/ step = "wait"

LEMMA HandshakeMoves ==
  ASSUME PhaseOK, Handshake
  PROVE  TurnsLegacy \/ Notifies \/ Settles \/ Fails
<1>1. ASSUME NEW M, \E a \in Answers(M) : Discovered(a), M \subseteq {"discover", "initialize", "initialized"}
      PROVE  Reads /\ InDial /\ req.method \in M
  <2>1. step = "wait" /\ req.method \in M /\ Reads /\ UNCHANGED <<errand, calls>>
    BY <1>1 DEF Answers, Discovered, Reads, callVars, serverVars
  <2>2. status = "dialling"
    BY <1>1, <2>1 DEF PhaseOK
  <2>. QED
    BY <2>1, <2>2 DEF InDial
<1>2. DiscoverAnswered \/ ModernRefusal => Settles
  BY <1>1 DEF DiscoverAnswered, ModernRefusal, Dialled, Settles, sessionVars
<1>3. LegacyInitialize => TurnsLegacy
  BY <1>1 DEF LegacyInitialize, Call, Message, TurnsLegacy, sessionVars, InDial
<1>4. DiscoverFails => Fails
  BY <1>1 DEF DiscoverFails, DialFails, Fails
<1>5. InitializeAnswered => Notifies
  BY <1>1 DEF InitializeAnswered, Message, Notifies, InDial
<1>6. InitializeRefused => Fails
  BY <1>1 DEF InitializeRefused, DialFails, Fails
<1>7. InitializedAnswered => Settles \/ Fails
  BY <1>1 DEF InitializedAnswered, Dialled, DialFails, Settles, Fails, sessionVars
<1>. QED
  BY <1>2, <1>3, <1>4, <1>5, <1>6, <1>7 DEF Handshake

LEMMA CallMoves ==
  ASSUME PhaseOK, Calls
  PROVE  Begins \/ GoesOn \/ Relists \/ Rests
<1>1. ASSUME NEW M, Answers(M) # {}, M \subseteq {"list", "call"}
      PROVE  status = "ready" /\ step = "wait" /\ req.method \in M
  BY <1>1 DEF Answers, PhaseOK
<1>2. ListTools => Begins
  BY DEF ListTools, Call, Message, Begins, Asks, InSession, serverVars
<1>3. ASSUME NEW t \in Tool, NEW args \in Args, CallRaw(t, args) PROVE Begins
  <2>1. CASE Unlisted(t)
    <3>1. errand' = "list" /\ Asks("list", [tool |-> t, args |-> args])
      BY <1>3, <2>1 DEF CallRaw, Message, Asks
    <3>. QED
      BY <1>3, <3>1 DEF CallRaw, Begins, InSession, serverVars
  <2>2. CASE ~Unlisted(t)
    <3>1. errand' = "call" /\ Asks("call", [tool |-> t, args |-> args]) /\ schemas[t] # NoSchema
      BY <1>3, <2>2 DEF CallRaw, Call, Message, Asks, Unlisted
    <3>. QED
      BY <1>3, <3>1 DEF CallRaw, Begins, InSession, serverVars
  <2>. QED
    BY <2>1, <2>2
<1>4. ASSUME Listed PROVE GoesOn \/ Rests
  <2>1. PICK a \in Answers({"list"}) :
          /\ UNCHANGED <<rejectedAt, calls, posted>> /\ InSession
          /\ \/ errand = "none" /\ Return
             \/ errand = "list" /\ errand' = "call" /\ Call("call", req.param)
             \/ errand = "relist" /\ errand' = "retry" /\ Call("call", req.param)
          /\ arrived' = NoAnswer
    BY <1>4 DEF Listed
  <2>2. status = "ready" /\ step = "wait" /\ req.method = "list"
    BY <1>1, <2>1
  <2>3. Return => Rests
    BY <2>1, <2>2 DEF Return, Rests, Reads, InSession, serverVars
  <2>4. Call("call", req.param) => Asks("call", req.param)
    BY <2>1, <2>2 DEF Call, Message, Asks
  <2>. QED
    BY <1>4, <2>1, <2>2, <2>3, <2>4 DEF GoesOn, Reads, InSession, serverVars
<1>5. ASSUME ListFails \/ CallAnswered PROVE Rests
  <2>1. \E a \in Answers({"list"}) \cup Answers({"call"}) :
          /\ Return /\ arrived' = NoAnswer
          /\ UNCHANGED <<calls, posted>> /\ InSession
    BY <1>5 DEF ListFails, CallAnswered
  <2>2. status = "ready" /\ step = "wait"
    BY <1>1, <2>1
  <2>. QED
    BY <2>1, <2>2 DEF Return, Rests, Reads, InSession, serverVars
<1>6. ASSUME Mismatch PROVE Relists
  <2>1. /\ Answers({"call"}) # {} /\ UNCHANGED <<calls, posted>> /\ InSession
        /\ errand = "call" /\ errand' = "relist" /\ Call("list", req.param)
        /\ arrived' = NoAnswer
    BY <1>6 DEF Mismatch
  <2>2. status = "ready" /\ step = "wait" /\ req.method = "call"
    BY <1>1, <2>1
  <2>3. Asks("list", req.param)
    BY <2>1, <2>2 DEF Call, Message, Asks
  <2>. QED
    BY <1>6, <2>1, <2>2, <2>3 DEF Relists, Reads, InSession, serverVars
<1>. QED
  BY <1>2, <1>3, <1>4, <1>5, <1>6 DEF Calls

LEMMA Moves ==
  ASSUME PhaseOK, [Next]_vars
  PROVE  \/ Idles \/ Post \/ TurnsLegacy \/ Notifies \/ Settles \/ Fails
         \/ Begins \/ GoesOn \/ Relists \/ Rests \/ Closes
<1>1. ASSUME GivesUp PROVE Fails \/ Rests
  <2>1. CASE status = "dialling"
    <3>1. UNCHANGED sessionID \/ req.method = "initialize"
      BY <1>1, <2>1 DEF GivesUp, Answers
    <3>. QED
      BY <1>1, <2>1, <3>1 DEF GivesUp, DialFails, Fails, InDial, Reads, serverVars
  <2>2. CASE status # "dialling"
    <3>1. status = "ready" /\ step = "wait"
      BY <1>1, <2>2 DEF GivesUp, PhaseOK
    <3>. QED
      BY <1>1, <3>1, <2>2 DEF GivesUp, Return, Rests, Reads, InSession, serverVars
  <2>. QED
    BY <2>1, <2>2
<1>2. Asked \/ CancelDial \/ CloseCancelled \/ UNCHANGED vars => Idles
  BY DEF Asked, CancelDial, CloseCancelled, Idles, vars, callVars, sessionVars
<1>3. ServerAnswers \/ ServerFails => Idles
  BY DEF ServerAnswers, ServerFails, Deliver, Idles, callVars
<1>4. ServerAsks \/ ToolsChange \/ SessionLost => Idles
  BY DEF ServerAsks, ToolsChange, SessionLost, Idles, callVars, sessionVars
<1>5. Close => Closes
  BY DEF Close, Closes, callVars, serverVars
<1>. QED
  BY <1>1, <1>2, <1>3, <1>4, <1>5, HandshakeMoves, CallMoves DEF Next, Server, Halted

-----------------------------------------------------------------------------
(***************************************************************************)
(* Types.  The request in hand; the requests on their way; what came back; *)
(* the revisions and the session; and the tools, as they are and as they   *)
(* were listed.                                                            *)
(***************************************************************************)
RequestOK ==
    /\ nextID \in Nat /\ calls \in 0 .. MaxCalls
    /\ RequestShape(req)

PostedOK == \A r \in posted : RequestShape(r)

ArrivedOK ==
    arrived # NoAnswer /\ arrived.kind = "answer" =>
        /\ arrived.versions \in Offers \cup {{}}
        /\ arrived.session \in Session \cup {NoSession}
        /\ arrived.at \in 0 .. changes
        /\ req.method = "list" /\ Ok(arrived) => arrived.tools \in [Tool -> Schema]

VersionOK == version \in Nat /\ tVersion \in Nat

SessionOK ==
    /\ sessionID \in Session \cup {NoSession} /\ session \in Session \cup {NoSession}
    /\ opened \subseteq Session /\ ended \subseteq Session /\ legacy \in BOOLEAN

ToolsOK ==
    /\ kind \in {"modern", "legacy"}
    /\ changes \in Nat /\ listedAt \in 0 .. changes /\ rejectedAt \in 0 .. changes
    /\ defs \in [Tool -> Schema] /\ schemas \in [Tool -> Schema \cup {NoSchema}]

TypeInv ==
    PhaseOK /\ RequestOK /\ PostedOK /\ ArrivedOK /\ VersionOK /\ SessionOK /\ ToolsOK

LEMMA TypeInvIsType == TypeInv => TypeOK
BY DEF TypeInv, PhaseOK, RequestOK, PostedOK, VersionOK, SessionOK, ToolsOK, TypeOK

LEMMA TypeInvInit == Init => TypeInv
<1>. SUFFICES ASSUME Init PROVE TypeInv
  OBVIOUS
<1>1. PhaseOK /\ RequestOK
  BY HttpAssumption DEF Init, PhaseOK, RequestOK, RequestShape
<1>2. PostedOK /\ ArrivedOK /\ VersionOK
  BY HttpAssumption DEF Init, PostedOK, ArrivedOK, VersionOK
<1>3. SessionOK
  BY DEF Init, SessionOK
<1>4. ToolsOK
  BY DEF Init, ToolsOK
<1>. QED
  BY <1>1, <1>2, <1>3, <1>4 DEF TypeInv

LEMMA PhaseStep ==
  ASSUME PhaseOK, [Next]_vars
  PROVE  PhaseOK'
<1>1. Idles => PhaseOK'
  BY DEF Idles, PhaseOK
<1>2. Post => PhaseOK'
  BY DEF Post, PhaseOK, callVars, sessionVars
<1>3. TurnsLegacy \/ Notifies => PhaseOK'
  BY DEF TurnsLegacy, Notifies, InDial, Reads, PhaseOK
<1>4. Settles \/ Fails => PhaseOK'
  BY DEF Settles, Fails, InDial, Reads, PhaseOK
<1>5. Begins => PhaseOK'
  BY DEF Begins, Asks, InSession, PhaseOK
<1>6. GoesOn \/ Relists => PhaseOK'
  BY DEF GoesOn, Relists, Asks, InSession, Reads, PhaseOK
<1>7. Rests \/ Closes => PhaseOK'
  BY DEF Rests, Closes, InSession, Reads, PhaseOK
<1>. QED
  BY <1>1, <1>2, <1>3, <1>4, <1>5, <1>6, <1>7, Moves

LEMMA RequestStep ==
  ASSUME TypeInv, [Next]_vars
  PROVE  RequestOK' /\ nextID' >= nextID
<1>. USE HttpAssumption DEF TypeInv, RequestOK, RequestShape
<1>1. Idles => RequestOK' /\ nextID' >= nextID
  BY DEF Idles
<1>2. Post => RequestOK' /\ nextID' >= nextID
  BY DEF Post, callVars
<1>3. TurnsLegacy \/ Notifies => RequestOK' /\ nextID' >= nextID
  BY DEF TurnsLegacy, Notifies, InDial
<1>4. Settles \/ Fails => RequestOK' /\ nextID' >= nextID
  BY DEF Settles, Fails, InDial
<1>5. Begins => RequestOK' /\ nextID' >= nextID
  BY DEF Begins, Asks
<1>6. GoesOn \/ Relists => RequestOK' /\ nextID' >= nextID
  BY DEF GoesOn, Relists, Asks
<1>7. Rests \/ Closes => RequestOK' /\ nextID' >= nextID
  BY DEF Rests, Closes
<1>. QED
  BY <1>1, <1>2, <1>3, <1>4, <1>5, <1>6, <1>7, Moves

\* The steps that touch the requests on their way.
LEMMA PostedFrame ==
  ASSUME [Next]_vars
  PROVE  \/ UNCHANGED posted \/ Post \/ Asked
         \/ \E r \in posted : posted' = posted \ {r}
<1>1. ServerAnswers \/ ServerFails => \E r \in posted : posted' = posted \ {r}
  BY DEF ServerAnswers, ServerFails, Deliver
<1>2. ServerAsks \/ ToolsChange \/ SessionLost \/ Close \/ CancelDial \/ CloseCancelled
        \/ UNCHANGED vars \/ GivesUp
      => UNCHANGED posted
  BY DEF ServerAsks, ToolsChange, SessionLost, Close, CancelDial, CloseCancelled, vars, GivesUp
<1>3. Handshake => UNCHANGED posted
  BY DEF Handshake, DiscoverAnswered, ModernRefusal, LegacyInitialize, DiscoverFails,
     InitializeAnswered, InitializeRefused, InitializedAnswered, Discovered
<1>4. Calls => UNCHANGED posted
  BY DEF Calls, ListTools, CallRaw, Listed, ListFails, Mismatch, CallAnswered
<1>. QED
  BY <1>1, <1>2, <1>3, <1>4 DEF Next, Server, Halted

LEMMA SentFacts ==
  ASSUME NEW m
  PROVE  /\ Sent(m).id = m.id /\ Sent(m).method = m.method /\ Sent(m).call = m.call
         /\ Sent(m).param = m.param /\ Sent(m).version = tVersion
         /\ Sent(m).session = SessionHeader(m)
         /\ Sent(m).meta \in {0, version} /\ Sent(m).at = listedAt
         /\ Sent(m).retry <=> errand = "retry"
BY DEF Sent

Refusal == [id |-> 0, method |-> "refusal", param |-> NoParam, call |-> calls]

LEMMA PostedStep ==
  ASSUME TypeInv, [Next]_vars
  PROVE  PostedOK'
<1>. USE DEF TypeInv, PostedOK, RequestShape
<1>1. nextID \in Nat /\ nextID' \in Nat /\ nextID' >= nextID
  BY RequestStep DEF RequestOK
<1>2. \A r \in posted : RequestShape(r)'
  BY <1>1
<1>3. Post => PostedOK'
  BY <1>2, SentFacts DEF Post, RequestOK
<1>4. ASSUME Asked PROVE PostedOK'
  <2>1. posted' \subseteq posted \cup {Sent(Refusal)} /\ UNCHANGED nextID
    BY <1>4 DEF Asked, Refusal
  <2>2. RequestShape(Sent(Refusal))
    BY <1>1, SentFacts DEF Refusal, RequestOK
  <2>. QED
    BY <2>1, <2>2
<1>. QED
  BY <1>2, <1>3, <1>4, PostedFrame

\* What an answer brings, and what becomes of its request.
Answered(r, a) ==
    /\ r \in posted /\ posted' = posted \ {r}
    /\ \/ step = "wait" /\ r.id = req.id /\ r.method = req.method /\ arrived' = a
       \/ UNCHANGED arrived
    /\ \/ UNCHANGED executed
       \/ /\ r.method = "call" /\ a.code # "mismatch"
          /\ executed' = executed \cup {[call |-> r.call, id |-> r.id]}
    /\ session' \in {session, a.session}
    /\ a.kind = "answer" /\ a.at = changes
    /\ a.versions \in Offers \cup {{}} /\ a.session \in Session \cup {NoSession}
    /\ r.method = "list" /\ Ok(a) => a.tools = defs
    /\ r.method = "discover" =>
         \E p \in Probed[kind] \cup Faults : a.status = p[1] /\ a.code = p[2]
    /\ UNCHANGED <<status, era, step, req, nextID, versionVars, legacy, sessionID, opened,
                   ended, callVars, kind, defs, changes>>

LEMMA PlainAnswer ==
  ASSUME NEW st, NEW code
  PROVE  /\ Answer(st, code).kind = "answer" /\ Answer(st, code).at = changes
         /\ Answer(st, code).status = st /\ Answer(st, code).code = code
         /\ Answer(st, code).versions = {} /\ Answer(st, code).session = NoSession
BY DEF Answer

LEMMA ReplyFacts ==
  ASSUME NEW r, NEW a \in Replies(r), kind \in {"modern", "legacy"}
  PROVE  /\ a.kind = "answer" /\ a.at = changes
         /\ a.versions \in Offers \cup {{}} /\ a.session \in Session \cup {NoSession}
         /\ r.method = "list" /\ Ok(a) => a.tools = defs
         /\ r.method = "discover" =>
              \E p \in Probed[kind] : a.status = p[1] /\ a.code = p[2]
<1>1. CASE r.method = "discover"
  <2>1. a \in Discovery
    BY <1>1 DEF Replies
  <2>2. PICK p \in Probed[kind] : \E O \in Offers \cup {{}} :
          a = [Answer(p[1], p[2]) EXCEPT !.versions = O]
    BY <2>1 DEF Discovery
  <2>. QED
    BY <1>1, <2>2 DEF Answer
<1>2. CASE r.method = "initialize" /\ kind = "legacy"
  <2>1. a \in Welcome
    BY <1>2 DEF Replies
  <2>2. PICK O \in Offers, s \in Session \cup {NoSession} :
          a = [Answer("2xx", "ok") EXCEPT !.versions = O, !.session = s]
    BY <2>1 DEF Welcome
  <2>. QED
    BY <1>2, <2>2 DEF Answer
<1>3. CASE r.method = "list" /\ InItsSession(r)
  <2>1. a = [Answer("2xx", "ok") EXCEPT !.tools = defs]
    BY <1>3 DEF Replies
  <2>. QED
    BY <1>3, <2>1 DEF Answer
<1>4. CASE r.method = "list" /\ ~InItsSession(r)
  <2>1. a = Answer("404", "none")
    BY <1>4 DEF Replies
  <2>. QED
    BY <1>4, <2>1 DEF Answer, Ok
<1>5. CASE r.method = "initialize" /\ kind = "modern"
  <2>1. Replies(r) = {Answer("400", "no method"), Answer("2xx", "ok")}
    BY <1>5 DEF Replies
  <2>2. PICK st, code : a = Answer(st, code)
    BY <2>1
  <2>3. a.kind = "answer" /\ a.at = changes /\ a.versions = {} /\ a.session = NoSession
    BY <2>2, PlainAnswer
  <2>. QED
    BY <1>5, <2>3
<1>6. CASE r.method \notin {"discover", "initialize", "list"}
  <2>1. a \in {Answer("404", "none"), Answer("400", "mismatch"), Answer("2xx", "ok")}
    BY <1>6 DEF Replies
  <2>. QED
    BY <1>6, <2>1 DEF Answer
<1>. QED
  BY <1>1, <1>2, <1>3, <1>4, <1>5, <1>6

LEMMA ServerMoves ==
  ASSUME TypeInv, ServerAnswers \/ ServerFails
  PROVE  \E r, a : Answered(r, a)
<1>1. ASSUME NEW r \in posted, NEW a, Deliver(r, a)
      PROVE  /\ r \in posted /\ posted' = posted \ {r}
             /\ \/ step = "wait" /\ r.id = req.id /\ r.method = req.method /\ arrived' = a
                \/ UNCHANGED arrived
             /\ UNCHANGED <<status, era, step, req, nextID, versionVars, legacy, sessionID,
                            opened, ended, callVars, kind, defs, changes>>
  BY <1>1 DEF Deliver
<1>. USE DEF TypeInv, ToolsOK
\* What takes effect, and what the client gets of it: the answer, or its headers.
<1>2. ASSUME NEW r \in posted, NEW a \in Replies(r), TakesEffect(r, a), NEW b, Deliver(r, b),
             b.code \in {a.code, "none"}, b.session = a.session, b.kind = "answer",
             b.at = changes, b.versions \in Offers \cup {{}},
             r.method = "list" /\ Ok(b) => b.tools = defs,
             r.method = "discover" =>
               \E p \in Probed[kind] \cup Faults : b.status = p[1] /\ b.code = p[2]
      PROVE  Answered(r, b)
  <2>1. a.session \in Session \cup {NoSession}
    BY ReplyFacts
  <2>2. session' \in {session, b.session}
    BY <1>2 DEF TakesEffect
  <2>3. CASE r.method = "call" /\ Ok(a)
    <3>1. executed' = executed \cup {[call |-> r.call, id |-> r.id]}
      BY <1>2, <2>3 DEF TakesEffect
    <3>2. b.code # "mismatch"
      BY <1>2, <2>3 DEF Ok
    <3>. QED
      BY <1>1, <1>2, <2>1, <2>2, <2>3, <3>1, <3>2 DEF Answered
  <2>4. CASE ~(r.method = "call" /\ Ok(a))
    <3>1. UNCHANGED executed
      BY <1>2, <2>4 DEF TakesEffect
    <3>. QED
      BY <1>1, <1>2, <2>1, <2>2, <3>1 DEF Answered
  <2>. QED
    BY <2>3, <2>4
<1>3. CASE ServerAnswers
  <2>1. PICK r \in posted : \E a \in Replies(r) : TakesEffect(r, a) /\ Deliver(r, a)
    BY <1>3 DEF ServerAnswers
  <2>a. PICK a \in Replies(r) : TakesEffect(r, a) /\ Deliver(r, a)
    BY <2>1
  <2>2. Answered(r, a)
    BY <1>2, <2>a, ReplyFacts
  <2>. QED
    BY <2>2
<1>4. CASE ServerFails
  <2>1. PICK r \in posted :
          \/ \E a \in Replies(r) :
               /\ r.method \in {"initialize", "call"} /\ Ok(a)
               /\ TakesEffect(r, a)
               /\ Deliver(r, [Answer("2xx", "none") EXCEPT !.session = a.session])
          \/ \E f \in Faults :
               Deliver(r, Answer(f[1], f[2])) /\ UNCHANGED <<executed, session>>
    BY <1>4 DEF ServerFails
  <2>2. ASSUME NEW a \in Replies(r), r.method \in {"initialize", "call"}, TakesEffect(r, a),
               Deliver(r, [Answer("2xx", "none") EXCEPT !.session = a.session])
        PROVE  \E b : Answered(r, b)
    <3>. DEFINE b == [Answer("2xx", "none") EXCEPT !.session = a.session]
    <3>1. /\ b.kind = "answer" /\ b.at = changes /\ b.code = "none"
          /\ b.versions = {} /\ b.session = a.session
      BY DEF Answer
    <3>2. Deliver(r, b)
      BY <2>2
    <3>. HIDE DEF b
    <3>3. Answered(r, b)
      BY <1>2, <2>2, <3>1, <3>2
    <3>. QED
      BY <3>3
  <2>3. ASSUME NEW f \in Faults, Deliver(r, Answer(f[1], f[2])),
               UNCHANGED <<executed, session>>
        PROVE  Answered(r, Answer(f[1], f[2]))
    <3>. DEFINE b == Answer(f[1], f[2])
    <3>1. /\ b.kind = "answer" /\ b.at = changes /\ b.status = f[1] /\ b.code = f[2]
          /\ b.versions = {} /\ b.session = NoSession
      BY PlainAnswer
    <3>2. Deliver(r, b)
      BY <2>3
    <3>3. ~Ok(b)
      BY <3>1, FaultsAssumption DEF Ok
    <3>. HIDE DEF b
    <3>4. Answered(r, b)
      BY <1>1, <2>3, <3>1, <3>2, <3>3 DEF Answered
    <3>. QED
      BY <3>4 DEF b
  <2>. QED
    BY <2>1, <2>2, <2>3
<1>. QED
  BY <1>3, <1>4

\* How what has arrived comes to be there.
LEMMA ArrivedMoves ==
  ASSUME TypeInv, [Next]_vars
  PROVE  \/ arrived' = NoAnswer
         \/ /\ UNCHANGED <<arrived, req>>
            /\ UNCHANGED changes \/ ToolsChange
         \/ arrived'.kind = "ask"
         \/ \E r, a : /\ Answered(r, a) /\ arrived' = a /\ step = "wait"
                     /\ r.id = req.id /\ r.method = req.method
<1>1. ASSUME ServerAnswers \/ ServerFails
      PROVE  \/ UNCHANGED <<arrived, req, changes>>
             \/ \E r, a : /\ Answered(r, a) /\ arrived' = a /\ step = "wait"
                         /\ r.id = req.id /\ r.method = req.method
  <2>1. PICK r, a : Answered(r, a)
    BY <1>1, ServerMoves
  <2>2. UNCHANGED arrived => UNCHANGED <<arrived, req, changes>>
    BY <2>1 DEF Answered
  <2>3. UNCHANGED arrived \/ (arrived' = a /\ step = "wait" /\ r.id = req.id /\ r.method = req.method)
    BY <2>1 DEF Answered
  <2>. QED
    BY <2>1, <2>2, <2>3
<1>2. ServerAsks => arrived'.kind = "ask"
  BY DEF ServerAsks
<1>3. Post \/ CancelDial \/ CloseCancelled \/ Close \/ SessionLost \/ UNCHANGED vars
      => UNCHANGED <<arrived, req, changes>>
  BY DEF Post, CancelDial, CloseCancelled, Close, SessionLost, vars, serverVars
<1>4. ToolsChange => UNCHANGED <<arrived, req>>
  BY DEF ToolsChange
<1>5. Handshake \/ GivesUp \/ Asked => arrived' = NoAnswer
  BY DEF Handshake, DiscoverAnswered, ModernRefusal, LegacyInitialize, DiscoverFails,
     InitializeAnswered, InitializeRefused, InitializedAnswered, Discovered, GivesUp, Asked
<1>6. ASSUME Calls PROVE arrived' = NoAnswer
  <2>1. arrived' = NoAnswer \/ (step = "rest" /\ UNCHANGED arrived)
    BY <1>6 DEF Calls, ListTools, CallRaw, Listed, ListFails, Mismatch, CallAnswered
  <2>. QED
    BY <2>1 DEF TypeInv, PhaseOK
<1>. QED
  BY <1>1, <1>2, <1>3, <1>4, <1>5, <1>6 DEF Next, Server, Halted

LEMMA ArrivedStep ==
  ASSUME TypeInv, [Next]_vars
  PROVE  ArrivedOK'
<1>. USE DEF TypeInv
<1>1. arrived' = NoAnswer \/ arrived'.kind = "ask" => ArrivedOK'
  BY DEF ArrivedOK
<1>2. ASSUME UNCHANGED <<arrived, req>>, UNCHANGED changes \/ ToolsChange PROVE ArrivedOK'
  <2>1. changes' \in {changes, changes + 1} /\ changes \in Nat
    BY <1>2 DEF ToolsChange, ToolsOK
  <2>. QED
    BY <1>2, <2>1 DEF ArrivedOK
<1>3. ASSUME NEW r, NEW a, Answered(r, a), r.method = req.method, arrived' = a PROVE ArrivedOK'
  <2>1. /\ a.at = changes /\ a.versions \in Offers \cup {{}} /\ a.session \in Session \cup {NoSession}
        /\ req.method = "list" /\ Ok(a) => a.tools = defs
        /\ UNCHANGED <<req, changes>>
    BY <1>3 DEF Answered
  <2>2. defs \in [Tool -> Schema] /\ changes \in Nat
    BY DEF ToolsOK
  <2>. QED
    BY <1>3, <2>1, <2>2 DEF ArrivedOK, Ok
<1>. QED
  BY <1>1, <1>2, <1>3, ArrivedMoves

-----------------------------------------------------------------------------
(***************************************************************************)
(* pickVersion picks a revision: a finite set of them has a greatest one,  *)
(* for the sets of those above its members, ordered by strict inclusion,   *)
(* have a minimal one.                                                     *)
(***************************************************************************)
LEMMA MaxIsMember ==
  ASSUME NEW O \in SUBSET Nat, IsFiniteSet(O), O # {}
  PROVE  Max(O) \in O
<1>. DEFINE R == StrictSubsetOrdering(Nat)
            Beyond(n) == {m \in O : m > n}
            T == {Beyond(n) : n \in O}
<1>1. T \subseteq FiniteSubsetsOf(Nat)
  <2>. SUFFICES ASSUME NEW n \in O PROVE Beyond(n) \in FiniteSubsetsOf(Nat)
    OBVIOUS
  <2>1. Beyond(n) \subseteq O /\ Beyond(n) \subseteq Nat
    OBVIOUS
  <2>2. IsFiniteSet(Beyond(n))
    BY <2>1, FS_Subset
  <2>. QED
    BY <2>1, <2>2 DEF FiniteSubsetsOf
<1>2. IsWellFoundedOn(R, FiniteSubsetsOf(Nat))
  BY FS_StrictSubsetOrderingWellFounded
<1>3. T # {}
  OBVIOUS
<1>4. PICK x \in T : \A y \in T : ~ (<<y, x>> \in R)
  <2>. HIDE DEF R, T
  <2>. QED
    BY <1>1, <1>2, <1>3, WFMin
<1>5. PICK n \in O : x = Beyond(n)
  OBVIOUS
<1>6. \A m \in O : n >= m
  <2>. SUFFICES ASSUME NEW m \in O, ~(n >= m) PROVE FALSE
    OBVIOUS
  <2>0. m \in Nat /\ n \in Nat /\ m > n /\ \A k \in O : k \in Nat
    OBVIOUS
  <2>1. Beyond(m) \subseteq Beyond(n) /\ m \in Beyond(n) /\ m \notin Beyond(m)
    <3>. HIDE DEF R, T
    <3>1. \A k \in O : k > m => k > n
      BY <2>0
    <3>2. m > n /\ ~(m > m)
      BY <2>0
    <3>. QED
      BY <3>1, <3>2
  <2>2. Beyond(m) \in SUBSET Nat /\ Beyond(n) \in SUBSET Nat /\ Beyond(m) # Beyond(n)
    BY <2>1
  <2>3. <<Beyond(m), Beyond(n)>> \in R
    BY <2>1, <2>2 DEF StrictSubsetOrdering
  <2>. QED
    BY <1>4, <1>5, <2>3
<1>. QED
  BY <1>6 DEF Max

LEMMA PickedIsVersion ==
  ASSUME NEW O \in Offers \cup {{}}
  PROVE  PickVersion(O) \in Nat
<1>1. O \in SUBSET Nat /\ IsFiniteSet(O)
  BY HttpAssumption, FS_EmptySet
<1>. QED
  BY <1>1, HttpAssumption, MaxIsMember DEF PickVersion

\* The facts an answer that was awaited comes with.
LEMMA AwaitedFacts ==
  ASSUME TypeInv, NEW M, NEW a \in Answers(M)
  PROVE  /\ a = arrived /\ step = "wait" /\ req.method \in M
         /\ a.kind = "answer" /\ a.versions \in Offers \cup {{}}
         /\ a.session \in Session \cup {NoSession} /\ a.at \in 0 .. changes
         /\ req.method = "list" /\ Ok(a) => a.tools \in [Tool -> Schema]
BY DEF Answers, TypeInv, ArrivedOK

\* Only a dialling client changes its version, and both copies of it.
LEMMA VersionMoves ==
  ASSUME TypeInv, [Next]_vars
  PROVE  \/ UNCHANGED versionVars
         \/ /\ status = "dialling" /\ UNCHANGED posted
            /\ \E v \in Nat : SetVersion(v)
<1>1. ASSUME DiscoverAnswered \/ LegacyInitialize \/ InitializeAnswered
      PROVE  status = "dialling" /\ UNCHANGED posted
  <2>1. step = "wait" /\ req.method \in {"discover", "initialize"} /\ UNCHANGED posted
    BY <1>1, AwaitedFacts DEF DiscoverAnswered, LegacyInitialize, InitializeAnswered, Discovered
  <2>. QED
    BY <2>1 DEF TypeInv, PhaseOK
<1>2. ASSUME DiscoverAnswered PROVE \E v \in Nat : SetVersion(v)
  <2>1. PICK a \in Answers({"discover"}) : SetVersion(PickVersion(a.versions))
    BY <1>2 DEF DiscoverAnswered
  <2>2. PickVersion(a.versions) \in Nat
    BY <2>1, AwaitedFacts, PickedIsVersion
  <2>. QED
    BY <2>1, <2>2
<1>3. LegacyInitialize => \E v \in Nat : SetVersion(v)
  BY HttpAssumption DEF LegacyInitialize
<1>4. ASSUME InitializeAnswered PROVE UNCHANGED versionVars \/ \E v \in Nat : SetVersion(v)
  <2>1. PICK a \in Answers({"initialize"}) :
          UNCHANGED versionVars \/ \E v \in a.versions : SetVersion(v)
    BY <1>4 DEF InitializeAnswered
  <2>2. a.versions \subseteq Nat
    BY <2>1, AwaitedFacts, HttpAssumption
  <2>. QED
    BY <2>1, <2>2
<1>5. ModernRefusal \/ DiscoverFails \/ InitializeRefused \/ InitializedAnswered \/ GivesUp
      => UNCHANGED versionVars
  BY DEF ModernRefusal, DiscoverFails, InitializeRefused, InitializedAnswered, DialFails,
     GivesUp, InSession
<1>6. Calls => UNCHANGED versionVars
  BY DEF Calls, ListTools, CallRaw, Listed, ListFails, Mismatch, CallAnswered, InSession
<1>7. Post \/ Asked \/ CancelDial \/ CloseCancelled \/ Close \/ UNCHANGED vars
      => UNCHANGED versionVars
  BY DEF Post, Asked, CancelDial, CloseCancelled, Close, vars
<1>8. Server => UNCHANGED versionVars
  BY DEF Server, ServerAnswers, ServerFails, Deliver, ServerAsks, ToolsChange, SessionLost
<1>. QED
  BY <1>1, <1>2, <1>3, <1>4, <1>5, <1>6, <1>7, <1>8 DEF Next, Handshake, Halted

\* Dial fails with a session learned: the body of the answer was an error, or unusable, or
\* did not come in time.
LearnsAndFails ==
    /\ \E a \in Answers({"initialize"}) : LearnSession(a)
    /\ status' = "failed" /\ UNCHANGED <<legacy, posted>>

\* Only an answer to initialize brings a session.
LEMMA SessionMoves ==
  ASSUME TypeInv, [Next]_vars
  PROVE  /\ \/ UNCHANGED <<legacy, sessionID, opened>>
            \/ LearnsAndFails
            \/ InitializeAnswered
         /\ UNCHANGED ended \/ EndSession
         /\ session' \in {session, NoSession} \cup Session
<1>1. ASSUME UNCHANGED <<legacy, sessionID, opened, ended>>, session' \in {session, NoSession} \cup Session
      PROVE  /\ UNCHANGED <<legacy, sessionID, opened>> /\ UNCHANGED ended
             /\ session' \in {session, NoSession} \cup Session
  BY <1>1
<1>2. EndSession => session' \in {session, NoSession}
  BY DEF EndSession
<1>3. DiscoverAnswered \/ ModernRefusal \/ LegacyInitialize => UNCHANGED sessionVars
  BY DEF DiscoverAnswered, ModernRefusal, LegacyInitialize
<1>4. DiscoverFails => EndSession /\ UNCHANGED <<legacy, opened, sessionID>>
  BY DEF DiscoverFails, DialFails
<1>5. InitializeRefused => EndSession /\ LearnsAndFails
  BY DEF InitializeRefused, DialFails, Discovered, LearnsAndFails
<1>6. InitializedAnswered \/ GivesUp
      => \/ UNCHANGED sessionVars
         \/ EndSession /\ (UNCHANGED <<legacy, opened, sessionID>> \/ LearnsAndFails)
  BY DEF InitializedAnswered, GivesUp, DialFails, InSession, LearnsAndFails
<1>7. InitializeAnswered => UNCHANGED ended /\ UNCHANGED session
  BY DEF InitializeAnswered
<1>8. Calls => UNCHANGED sessionVars
  BY DEF Calls, ListTools, CallRaw, Listed, ListFails, Mismatch, CallAnswered, InSession
<1>9. Post \/ Asked \/ CancelDial \/ UNCHANGED vars \/ ServerAsks \/ ToolsChange
      => UNCHANGED sessionVars
  BY DEF Post, Asked, CancelDial, vars, ServerAsks, ToolsChange
<1>10. CloseCancelled \/ Close => EndSession /\ UNCHANGED <<legacy, opened, sessionID>>
  BY DEF CloseCancelled, Close
<1>11. SessionLost => UNCHANGED <<legacy, sessionID, opened, ended>> /\ session' = NoSession
  BY DEF SessionLost
<1>12. ASSUME ServerAnswers \/ ServerFails
       PROVE  UNCHANGED <<legacy, sessionID, opened, ended>> /\ session' \in {session, NoSession} \cup Session
  <2>1. PICK r, a : Answered(r, a)
    BY <1>12, ServerMoves
  <2>. QED
    BY <2>1 DEF Answered
<1>13. UNCHANGED sessionVars => UNCHANGED <<legacy, sessionID, opened, ended, session>>
  BY DEF sessionVars
<1>. HIDE DEF EndSession, LearnsAndFails
<1>. QED
  BY <1>2, <1>3, <1>4, <1>5, <1>6, <1>7, <1>8, <1>9, <1>10, <1>11, <1>12, <1>13
     DEF Next, Handshake, Server, Halted

LEMMA SessionStep ==
  ASSUME TypeInv, [Next]_vars
  PROVE  SessionOK'
<1>. USE DEF TypeInv, SessionOK
<1>1. session' \in Session \cup {NoSession}
  BY SessionMoves
<1>2. ended' \subseteq Session
  BY SessionMoves DEF EndSession
<1>3. ASSUME NEW a \in Answers({"initialize"}), LearnSession(a)
      PROVE  sessionID' \in Session \cup {NoSession} /\ opened' \subseteq Session
  <2>1. a.session \in Session \cup {NoSession}
    BY AwaitedFacts
  <2>. QED
    BY <1>3, <2>1 DEF LearnSession
<1>4. LearnsAndFails => sessionID' \in Session \cup {NoSession} /\ opened' \subseteq Session
                        /\ UNCHANGED legacy
  BY <1>3 DEF LearnsAndFails
<1>5. InitializeAnswered => sessionID' \in Session \cup {NoSession} /\ opened' \subseteq Session
                            /\ legacy' = TRUE
  BY <1>3 DEF InitializeAnswered
<1>. QED
  BY <1>1, <1>2, <1>4, <1>5, SessionMoves

\* A listing is remembered, and the tools may change; no step does both.
LEMMA ToolsMoves ==
  ASSUME TypeInv, [Next]_vars
  PROVE  /\ \/ UNCHANGED <<schemas, listedAt>>
            \/ /\ Listed /\ UNCHANGED <<changes, defs>>
               /\ \E a \in Answers({"list"}) : Ok(a) /\ Remember(a)
         /\ \/ UNCHANGED rejectedAt
            \/ /\ Mismatch /\ UNCHANGED <<changes, defs>>
               /\ \E a \in Answers({"call"}) : rejectedAt' = a.at
         /\ \/ UNCHANGED <<changes, defs>>
            \/ changes' = changes + 1 /\ defs' \in [Tool -> Schema]
         /\ UNCHANGED kind
<1>1. Handshake => UNCHANGED <<schemas, listedAt, rejectedAt, changes, defs, kind>>
  BY DEF Handshake, DiscoverAnswered, ModernRefusal, LegacyInitialize, DiscoverFails,
     InitializeAnswered, InitializeRefused, InitializedAnswered, Discovered, callVars, serverVars
<1>2. GivesUp \/ Post \/ Asked \/ CancelDial \/ CloseCancelled \/ Close \/ UNCHANGED vars
      => UNCHANGED <<schemas, listedAt, rejectedAt, changes, defs, kind>>
  BY DEF GivesUp, Post, Asked, CancelDial, CloseCancelled, Close, vars, InSession, callVars, serverVars
<1>3. ListTools \/ ListFails \/ CallAnswered \/ (\E t \in Tool, args \in Args : CallRaw(t, args))
      => UNCHANGED <<schemas, listedAt, rejectedAt, changes, defs, kind>>
  BY DEF ListTools, ListFails, CallAnswered, CallRaw, InSession, serverVars
<1>4. Listed => /\ UNCHANGED <<rejectedAt, changes, defs, kind>>
                /\ \E a \in Answers({"list"}) : Ok(a) /\ Remember(a)
  BY DEF Listed, InSession, serverVars
<1>5. Mismatch => /\ UNCHANGED <<schemas, listedAt, changes, defs, kind>>
                  /\ \E a \in Answers({"call"}) : rejectedAt' = a.at
  BY DEF Mismatch, InSession, serverVars
<1>6. SessionLost \/ ServerAsks => UNCHANGED <<schemas, listedAt, rejectedAt, changes, defs, kind>>
  BY DEF SessionLost, ServerAsks, callVars, serverVars
<1>7. ServerAnswers \/ ServerFails => UNCHANGED <<schemas, listedAt, rejectedAt, changes, defs, kind>>
  BY DEF ServerAnswers, ServerFails, Deliver, callVars
<1>8. ToolsChange => /\ UNCHANGED <<schemas, listedAt, rejectedAt, kind>>
                     /\ changes' = changes + 1 /\ defs' \in [Tool -> Schema]
  BY DEF ToolsChange, callVars
<1>. QED
  BY <1>1, <1>2, <1>3, <1>4, <1>5, <1>6, <1>7, <1>8 DEF Next, Calls, Server, Halted

LEMMA ToolsStep ==
  ASSUME TypeInv, [Next]_vars
  PROVE  ToolsOK' /\ changes' >= changes
<1>. USE DEF TypeInv, ToolsOK
<1>1. changes' \in Nat /\ changes' >= changes /\ defs' \in [Tool -> Schema]
      /\ kind' \in {"modern", "legacy"}
  BY ToolsMoves
<1>2. listedAt' \in 0 .. changes' /\ schemas' \in [Tool -> Schema \cup {NoSchema}]
  <2>1. UNCHANGED <<schemas, listedAt>>
        => listedAt' \in 0 .. changes' /\ schemas' \in [Tool -> Schema \cup {NoSchema}]
    BY <1>1
  <2>2. ASSUME NEW a \in Answers({"list"}), Ok(a), Remember(a), UNCHANGED <<changes, defs>>
        PROVE  listedAt' \in 0 .. changes' /\ schemas' \in [Tool -> Schema \cup {NoSchema}]
    <3>1. a.tools \in [Tool -> Schema] /\ a.at \in 0 .. changes
      BY <2>2, AwaitedFacts
    <3>. QED
      BY <2>2, <3>1 DEF Remember
  <2>. QED
    BY <2>1, <2>2, ToolsMoves
<1>3. rejectedAt' \in 0 .. changes'
  <2>1. \A a \in Answers({"call"}) : a.at \in 0 .. changes
    BY AwaitedFacts
  <2>. QED
    BY <1>1, <2>1, ToolsMoves
<1>. QED
  BY <1>1, <1>2, <1>3

LEMMA TypeInvStep == TypeInv /\ [Next]_vars => TypeInv'
<1>. SUFFICES ASSUME TypeInv, [Next]_vars PROVE TypeInv'
  OBVIOUS
<1>1. PhaseOK' /\ RequestOK'
  BY PhaseStep, RequestStep DEF TypeInv
<1>2. VersionOK'
  BY VersionMoves DEF TypeInv, VersionOK, versionVars, SetVersion
<1>. QED
  BY <1>1, <1>2, PostedStep, ArrivedStep, SessionStep, ToolsStep DEF TypeInv

LEMMA TypeInvHolds == Spec => []TypeInv
BY TypeInvInit, TypeInvStep, PTL DEF Spec

\* Every variable keeps its type: a request is out only while roundTrip has one in
\* hand, and CallRaw's errand ends with it, whichever way it ends.
THEOREM TypeCorrect == Spec => []TypeOK
BY TypeInvHolds, TypeInvIsType, PTL

-----------------------------------------------------------------------------
(***************************************************************************)
(* Eras.  What discover's answer says, the server is.                      *)
(***************************************************************************)
EraInv ==
    /\ status = "ready" => era = kind
    /\ status = "dialling" /\ req.method # "discover" => era = "legacy" /\ kind = "legacy"
    /\ status = "dialling" /\ req.method = "discover" => era = "modern"
    /\ arrived # NoAnswer /\ arrived.kind = "answer" /\ req.method = "discover" =>
          \E p \in Probed[kind] \cup Faults : arrived.status = p[1] /\ arrived.code = p[2]

LEMMA SignalFacts ==
  ASSUME NEW a, NEW p, a.status = p[1], a.code = p[2]
  PROVE  /\ LegacySignal(Signal(p)) <=> LegacySignal(a)
         /\ ModernSignal(Signal(p)) <=> ModernSignal(a)
         /\ Ok(Signal(p)) <=> Ok(a)
BY DEF Signal, LegacySignal, ModernSignal, Ok

LEMMA EraMoves ==
  ASSUME [Next]_vars
  PROVE  (UNCHANGED era \/ LegacyInitialize) /\ UNCHANGED kind
<1>1. Handshake \/ GivesUp => (UNCHANGED era \/ LegacyInitialize) /\ UNCHANGED kind
  BY DEF Handshake, DiscoverAnswered, ModernRefusal, DiscoverFails, InitializeAnswered,
     InitializeRefused, InitializedAnswered, LegacyInitialize, Discovered, DialFails, GivesUp,
     InSession, serverVars
<1>2. Calls \/ Post \/ Asked \/ CancelDial \/ CloseCancelled \/ Close \/ UNCHANGED vars
      => UNCHANGED <<era, kind>>
  BY DEF Calls, ListTools, CallRaw, Listed, ListFails, Mismatch, CallAnswered, InSession,
     Post, Asked, CancelDial, CloseCancelled, Close, vars, serverVars
<1>3. Server => UNCHANGED <<era, kind>>
  BY DEF Server, ServerAnswers, ServerFails, Deliver, ServerAsks, ToolsChange, SessionLost,
     serverVars
<1>. QED
  BY <1>1, <1>2, <1>3 DEF Next, Halted

LEMMA EraInvStep == TypeInv /\ EraInv /\ [Next]_vars => EraInv'
<1>. SUFFICES ASSUME TypeInv, EraInv, [Next]_vars PROVE EraInv'
  OBVIOUS
<1>0. kind' = kind /\ kind \in {"modern", "legacy"} /\ PhaseOK /\ PhaseOK'
  BY EraMoves, PhaseStep DEF TypeInv, ToolsOK
<1>1. ASSUME arrived' # NoAnswer, arrived'.kind = "answer", req'.method = "discover"
      PROVE  \E p \in Probed[kind] \cup Faults : arrived'.status = p[1] /\ arrived'.code = p[2]
  BY <1>1, ArrivedMoves DEF EraInv, Answered
<1>2. ASSUME NEW a \in Answers({"discover"})
      PROVE  /\ LegacySignal(a) => kind = "legacy"
             /\ Ok(a) \/ ModernSignal(a) \/ a.code = "unsupported" => kind = "modern"
  <2>1. PICK p \in Probed[kind] \cup Faults : a.status = p[1] /\ a.code = p[2]
    BY <1>2 DEF EraInv, Answers
  <2>. QED
    BY <1>0, <2>1, SignalFacts, EraAssumption
<1>3. LegacyInitialize => /\ era' = "legacy" /\ kind = "legacy"
                          /\ step = "wait" /\ step' = "post" /\ UNCHANGED status
                          /\ req.method = "discover" /\ req'.method = "initialize"
  BY <1>2 DEF LegacyInitialize, Call, Message, Answers
<1>4. DiscoverAnswered \/ ModernRefusal => kind = "modern" /\ req.method = "discover"
  BY <1>2 DEF DiscoverAnswered, ModernRefusal, Answers
<1>5. InitializedAnswered => req.method = "initialized"
  BY DEF InitializedAnswered, Answers
<1>. DEFINE Settled == /\ status' = "ready" => era' = kind
                       /\ status' = "dialling" /\ req'.method # "discover" => era' = "legacy" /\ kind = "legacy"
                       /\ status' = "dialling" /\ req'.method = "discover" => era' = "modern"
<1>6. CASE Idles \/ Post
  <2>1. UNCHANGED <<status, req, era>>
    BY <1>3, <1>6, EraMoves DEF Idles, Post
  <2>2. Settled
    BY <2>1 DEF EraInv
  <2>. QED
    BY <1>0, <1>1, <2>2 DEF EraInv
<1>7. CASE TurnsLegacy
  <2>1. Settled
    BY <1>3, <1>7 DEF TurnsLegacy, InDial
  <2>. QED
    BY <1>0, <1>1, <2>1 DEF EraInv
<1>8. CASE Notifies
  <2>1. status = "dialling" /\ req.method = "initialize" /\ UNCHANGED <<era, status>>
        /\ req'.method = "initialized"
    BY <1>3, <1>8, EraMoves DEF Notifies, InDial
  <2>2. Settled
    BY <2>1 DEF EraInv
  <2>. QED
    BY <1>0, <1>1, <2>2 DEF EraInv
<1>9. CASE Settles
  <2>1. status = "dialling" /\ status' = "ready" /\ UNCHANGED era
    BY <1>3, <1>9, EraMoves DEF Settles, InDial
  <2>2. era = kind
    BY <1>4, <1>5, <1>9, <2>1 DEF Settles, EraInv
  <2>. QED
    BY <1>0, <1>1, <2>1, <2>2 DEF EraInv
<1>10. CASE Fails \/ Closes
  <2>1. status' \in {"failed", "closed"}
    BY <1>10 DEF Fails, Closes
  <2>. QED
    BY <1>0, <1>1, <2>1 DEF EraInv
<1>11. CASE Begins \/ GoesOn \/ Relists \/ Rests
  <2>1. status = "ready" /\ status' = "ready" /\ UNCHANGED era
    BY <1>11 DEF Begins, GoesOn, Relists, Rests, Asks, InSession
  <2>. QED
    BY <1>0, <1>1, <2>1 DEF EraInv
<1>. QED
  BY <1>0, <1>6, <1>7, <1>8, <1>9, <1>10, <1>11, Moves

\* A dialled client speaks the era of its server, for every server that answers
\* discover in the words of its own era.
THEOREM EraRightHolds == Spec => []EraRight
<1>1. Init => EraInv
  BY DEF Init, EraInv
<1>2. EraInv => EraRight
  BY DEF EraInv, EraRight
<1>. QED
  BY <1>1, <1>2, EraInvStep, TypeInvHolds, PTL DEF Spec

-----------------------------------------------------------------------------
(***************************************************************************)
(* Revisions.  The two copies move together, and while they move no call   *)
(* is on its way.                                                          *)
(***************************************************************************)
VersionInv ==
    /\ version = tVersion
    /\ status = "dialling" => \A r \in posted : r.method \notin {"list", "call"}
    /\ VersionsAgree

LEMMA VersionInvStep == TypeInv /\ VersionInv /\ [Next]_vars => VersionInv'
<1>. SUFFICES ASSUME TypeInv, VersionInv, [Next]_vars PROVE VersionInv'
  OBVIOUS
<1>1. version' = tVersion'
  BY VersionMoves DEF VersionInv, versionVars, SetVersion
<1>2. ASSUME status' = "dialling" PROVE \A r \in posted' : r.method \notin {"list", "call"}
  <2>1. status = "dialling" /\ PhaseOK
    BY <1>2, Moves DEF TypeInv, PhaseOK, Idles, Post, TurnsLegacy, Notifies, Settles, Fails, Begins,
       GoesOn, Relists, Rests, Closes, InDial, Asks, InSession
  <2>2. Post => posted' = posted \cup {Sent(req)} /\ req.method \notin {"list", "call"}
    BY <2>1 DEF Post, PhaseOK
  <2>3. Asked => posted' \subseteq posted \cup {Sent(Refusal)}
    BY DEF Asked, Refusal
  <2>4. Refusal.method \notin {"list", "call"}
    BY DEF Refusal
  <2>. QED
    BY <2>1, <2>2, <2>3, <2>4, PostedFrame, SentFacts DEF VersionInv
<1>3. CASE UNCHANGED versionVars
  <2>1. UNCHANGED <<version, tVersion>> /\ version = tVersion
    BY <1>3 DEF versionVars, VersionInv
  <2>2. Post => posted' = posted \cup {Sent(req)}
    BY DEF Post
  <2>3. Asked => posted' \subseteq posted \cup {Sent(Refusal)}
    BY DEF Asked, Refusal
  <2>4. VersionsAgree'
    BY <2>1, <2>2, <2>3, PostedFrame, SentFacts DEF VersionInv, VersionsAgree
  <2>. QED
    BY <1>1, <1>2, <2>4 DEF VersionInv
<1>4. CASE status = "dialling" /\ UNCHANGED posted
  BY <1>1, <1>2, <1>4 DEF VersionInv, VersionsAgree
<1>. QED
  BY <1>3, <1>4, VersionMoves

LEMMA VersionInvHolds == Spec => []VersionInv
<1>1. Init => VersionInv
  BY DEF Init, VersionInv, VersionsAgree
<1>. QED
  BY <1>1, VersionInvStep, TypeInvHolds, PTL DEF Spec

\* The header and the _meta of a request name one revision, and a call's is the one the
\* handshake settled.
THEOREM VersionsAgreeHolds == Spec => []VersionsAgree
<1>1. VersionInv => VersionsAgree
  BY DEF VersionInv
<1>. QED
  BY <1>1, VersionInvHolds, PTL

-----------------------------------------------------------------------------
(***************************************************************************)
(* The session.  A client in legacy mode knows the one session that was    *)
(* opened, as long as it may have to send it or to end it.  Before that    *)
(* none is known, unless Dial fails with it.                               *)
(***************************************************************************)
SessionKnown ==
    /\ legacy => opened = {sessionID} \ {NoSession}
    /\ ~legacy /\ status # "failed" => opened = {}

NoneYet ==
    /\ status = "dialling" /\ ~legacy => sessionID = NoSession
    /\ status \in {"dialling", "failed"} /\ ~legacy =>
         \A r \in posted : r.method \in {"discover", "initialize"}

SessionInv == SessionKnown /\ NoneYet /\ SessionEchoed /\ EstablishedEnded

\* What an accepted or refused initialize means for the session.
LEMMA InitializeFacts ==
  ASSUME TypeInv, SessionInv, [Next]_vars
  PROVE  /\ InitializeAnswered =>
              /\ status = "dialling" /\ ~legacy /\ legacy' = TRUE /\ UNCHANGED <<posted, status>>
              /\ opened' = {sessionID'} \ {NoSession}
         /\ LearnsAndFails => status = "dialling" /\ ~legacy /\ ~legacy' /\ status' = "failed"
<1>1. ASSUME Answers({"initialize"}) # {} PROVE status = "dialling" /\ ~legacy
  <2>1. step = "wait" /\ req.method = "initialize"
    BY <1>1 DEF Answers
  <2>. QED
    BY <2>1 DEF TypeInv, PhaseOK
<1>2. ASSUME InitializeAnswered
      PROVE  /\ status = "dialling" /\ ~legacy /\ legacy' = TRUE /\ UNCHANGED <<posted, status>>
             /\ opened' = {sessionID'} \ {NoSession}
  <2>1. PICK a \in Answers({"initialize"}) :
          LearnSession(a) /\ legacy' = TRUE /\ UNCHANGED <<posted, status>>
    BY <1>2 DEF InitializeAnswered, Discovered
  <2>2. status = "dialling" /\ ~legacy
    BY <1>1, <2>1
  <2>3. opened = {} /\ sessionID = NoSession
    BY <2>2 DEF SessionInv, SessionKnown, NoneYet
  <2>. QED
    BY <2>1, <2>2, <2>3 DEF LearnSession
<1>3. LearnsAndFails => status = "dialling" /\ ~legacy /\ ~legacy' /\ status' = "failed"
  BY <1>1 DEF LearnsAndFails
<1>. QED
  BY <1>2, <1>3

LEMMA SessionInvStep == TypeInv /\ SessionInv /\ [Next]_vars => SessionInv'
<1>. SUFFICES ASSUME TypeInv, SessionInv, [Next]_vars PROVE SessionInv'
  OBVIOUS
<1>0. PhaseOK /\ legacy \in BOOLEAN
  BY DEF TypeInv, SessionOK
\* Dial ends with legacy as it was, and nothing leaves "failed".
<1>a. /\ status' # "failed" => status # "failed"
      /\ status' = "dialling" => status = "dialling"
      /\ status' = "failed" /\ status # "failed" => status = "dialling" /\ UNCHANGED posted
  BY <1>0, Moves DEF PhaseOK, Idles, Post, TurnsLegacy, Notifies, Settles, Fails, Begins,
     GoesOn, Relists, Rests, Closes, InDial, Reads, Asks, InSession
<1>1. SessionKnown'
  <2>1. CASE UNCHANGED <<legacy, sessionID, opened>>
    BY <1>a, <2>1 DEF SessionInv, SessionKnown
  <2>2. CASE LearnsAndFails
    BY <2>2, InitializeFacts DEF SessionKnown
  <2>3. CASE InitializeAnswered
    BY <2>3, InitializeFacts DEF SessionKnown
  <2>. QED
    BY <2>1, <2>2, <2>3, SessionMoves
<1>2. Post => posted' = posted \cup {Sent(req)}
  BY DEF Post
<1>3. Asked => IF legacy THEN posted' = posted \cup {Sent(Refusal)} ELSE UNCHANGED posted
  BY DEF Asked, Refusal
<1>4. NoneYet'
  <2>1. ASSUME status' = "dialling", ~legacy'
        PROVE  sessionID' = NoSession /\ \A r \in posted' : r.method \in {"discover", "initialize"}
    <3>1. status = "dialling" /\ UNCHANGED <<legacy, sessionID>>
      BY <1>a, <2>1, InitializeFacts, SessionMoves
    <3>2. sessionID = NoSession /\ \A r \in posted : r.method \in {"discover", "initialize"}
      BY <2>1, <3>1 DEF SessionInv, NoneYet
    <3>3. req.method \in {"discover", "initialize"}
      BY <1>0, <2>1, <3>1 DEF PhaseOK
    <3>. QED
      BY <1>2, <1>3, <2>1, <3>1, <3>2, <3>3, PostedFrame, SentFacts
  <2>2. ASSUME status' = "failed", ~legacy'
        PROVE  \A r \in posted' : r.method \in {"discover", "initialize"}
    <3>1. ~legacy
      BY <2>2, InitializeFacts, SessionMoves
    <3>2. CASE status # "failed"
      BY <1>a, <2>2, <3>1, <3>2 DEF SessionInv, NoneYet
    <3>3. CASE status = "failed"
      <4>1. ~Post /\ ~Asked
        BY <1>0, <3>3 DEF PhaseOK, Post, Asked
      <4>. QED
        BY <3>1, <3>3, <4>1, PostedFrame DEF SessionInv, NoneYet
    <3>. QED
      BY <3>2, <3>3
  <2>. QED
    BY <2>1, <2>2 DEF NoneYet
<1>5. SessionEchoed'
  <2>1. CASE InitializeAnswered
    <3>1. UNCHANGED posted /\ \A r \in posted : r.method \in {"discover", "initialize"}
      BY <2>1, InitializeFacts DEF SessionInv, NoneYet
    <3>. QED
      BY <3>1 DEF SessionEchoed
  <2>2. CASE LearnsAndFails
    <3>1. UNCHANGED posted /\ \A r \in posted : r.method \in {"discover", "initialize"}
      BY <2>2, InitializeFacts DEF LearnsAndFails, SessionInv, NoneYet
    <3>. QED
      BY <3>1 DEF SessionEchoed
  <2>3. CASE UNCHANGED opened
    <3>1. ASSUME NEW m, m.method \in {"discover", "initialize"} \/ legacy \/ opened = {}
          PROVE  Sent(m).method \notin {"discover", "initialize"} =>
                   IF opened = {} THEN Sent(m).session = NoSession ELSE Sent(m).session \in opened
      BY <3>1, SentFacts DEF SessionHeader, SessionInv, SessionKnown
    <3>2. CASE status = "failed"
      <4>1. ~Post /\ ~Asked
        BY <1>0, <3>2 DEF PhaseOK, Post, Asked
      <4>2. posted' \subseteq posted
        BY <4>1, PostedFrame
      <4>. QED
        BY <2>3, <4>2 DEF SessionInv, SessionEchoed
    <3>3. CASE status # "failed"
      <4>1. legacy \/ opened = {}
        BY <1>0, <3>3 DEF SessionInv, SessionKnown
      <4>2. \A r \in posted' : r \in posted \/ r = Sent(req) \/ r = Sent(Refusal)
        BY <1>2, <1>3, PostedFrame
      <4>. QED
        BY <2>3, <3>1, <4>1, <4>2 DEF SessionInv, SessionEchoed
    <3>. QED
      BY <3>2, <3>3
  <2>. QED
    BY <2>1, <2>2, <2>3, SessionMoves
<1>6. EstablishedEnded'
  <2>. SUFFICES ASSUME status' \in {"failed", "closed"}, legacy' PROVE opened' \subseteq ended'
    BY DEF EstablishedEnded
  <2>1. UNCHANGED <<legacy, sessionID, opened>>
    BY InitializeFacts, SessionMoves DEF TypeInv, PhaseOK
  <2>2. ended \subseteq ended'
    BY SessionMoves DEF EndSession
  <2>3. CASE status \in {"failed", "closed"}
    BY <2>1, <2>2, <2>3 DEF SessionInv, EstablishedEnded
  <2>4. CASE Fails \/ Closes
    <3>1. EndSession
      BY <2>4 DEF Fails, DialFails, Closes, Close
    <3>2. opened = {sessionID} \ {NoSession}
      BY <2>1 DEF SessionInv, SessionKnown
    <3>. QED
      BY <2>1, <3>1, <3>2 DEF EndSession
  <2>. QED
    BY <1>0, <2>3, <2>4, Moves DEF PhaseOK, Idles, Post, TurnsLegacy, Notifies, Settles, Begins,
       GoesOn, Relists, Rests, InDial, Asks, InSession
<1>. QED
  BY <1>1, <1>4, <1>5, <1>6 DEF SessionInv

LEMMA SessionInvHolds == Spec => []SessionInv
<1>1. Init => SessionInv
  BY DEF Init, SessionInv, SessionKnown, NoneYet, SessionEchoed, EstablishedEnded
<1>. QED
  BY <1>1, SessionInvStep, TypeInvHolds, PTL DEF Spec

\* After the handshake every request carries the session that was handed out, and none
\* if none was.
THEOREM SessionEchoedHolds == Spec => []SessionEchoed
<1>1. SessionInv => SessionEchoed
  BY DEF SessionInv
<1>. QED
  BY <1>1, SessionInvHolds, PTL

\* Once initialize has succeeded, a client that fails to dial, is cancelled or is closed
\* has ended the session it had.  (Of a session whose initialize failed this is not so:
\* close ends none before legacyMode, http.go:349.)
THEOREM EstablishedEndedHolds == Spec => []EstablishedEnded
<1>1. SessionInv => EstablishedEnded
  BY DEF SessionInv
<1>. QED
  BY <1>1, SessionInvHolds, PTL

-----------------------------------------------------------------------------
(***************************************************************************)
(* Once.  The number of a call goes out a second time only when nothing    *)
(* with that number is on its way or was executed: before the first POST,  *)
(* and from the rejection of the first to the second.                      *)
(***************************************************************************)
CallsPosted == {r \in posted : r.method = "call"}

\* No server has seen the call in hand, or it has rejected it.
Unseen ==
    /\ \A r \in CallsPosted : r.call # calls
    /\ \A x \in executed : x.call # calls

Rejected ==
    step = "wait" /\ req.method = "call" /\ arrived # NoAnswer
      /\ arrived.kind = "answer" /\ arrived.code = "mismatch"

Owed ==
    /\ status = "ready"
    /\ errand \in {"list", "relist"} \/ (step = "post" /\ req.method = "call") \/ Rejected

NumbersDrawn ==
    /\ \A r \in CallsPosted : r.id \in 0 .. nextID /\ r.call \in 0 .. calls
    /\ \A x \in executed : x.call \in 0 .. calls

\* A request waiting to be posted has an id of its own, and the answer to a call is an
\* answer to the call in hand.
IdsFresh ==
    /\ step = "post" /\ req.method = "call" => \A r \in CallsPosted : r.id # req.id
    /\ step = "wait" /\ req.method = "call" =>
         \A r \in CallsPosted : r.id = req.id => r.call = req.call

OneSeen ==
    /\ \A r, s \in CallsPosted : r.call = s.call => r = s
    /\ \A r \in CallsPosted, x \in executed : r.call # x.call
    /\ ExecutedOnce

OnceInv == NumbersDrawn /\ IdsFresh /\ OneSeen /\ (Owed => Unseen)

LEMMA TrafficMoves ==
  ASSUME TypeInv, [Next]_vars
  PROVE  \/ /\ Post /\ UNCHANGED executed
            /\ CallsPosted' = CallsPosted \cup {r \in {Sent(req)} : req.method = "call"}
         \/ \E r, a : Answered(r, a)
         \/ UNCHANGED <<CallsPosted, executed>>
<1>1. ASSUME Post PROVE UNCHANGED executed /\ posted' = posted \cup {Sent(req)}
  BY <1>1 DEF Post, serverVars
<1>2. ASSUME Asked PROVE UNCHANGED <<CallsPosted, executed>>
  <2>1. posted \subseteq posted' /\ posted' \subseteq posted \cup {Sent(Refusal)} /\ UNCHANGED executed
    <3>1. posted' = posted \cup {Sent(Refusal) : x \in {y \in {1} : legacy}} /\ UNCHANGED executed
      BY <1>2 DEF Asked, Refusal, serverVars
    <3>. QED
      BY <3>1
  <2>2. Sent(Refusal).method = "refusal"
    BY SentFacts DEF Refusal
  <2>. QED
    BY <2>1, <2>2 DEF CallsPosted
<1>3. ServerAnswers \/ ServerFails => \E r, a : Answered(r, a)
  BY ServerMoves
<1>4. ServerAsks \/ ToolsChange \/ SessionLost \/ Close \/ CancelDial \/ CloseCancelled
        \/ UNCHANGED vars \/ GivesUp
      => UNCHANGED <<posted, executed>>
  BY DEF ServerAsks, ToolsChange, SessionLost, Close, CancelDial, CloseCancelled, vars, GivesUp,
     InSession, serverVars
<1>5. Handshake => UNCHANGED <<posted, executed>>
  BY DEF Handshake, DiscoverAnswered, ModernRefusal, LegacyInitialize, DiscoverFails,
     InitializeAnswered, InitializeRefused, InitializedAnswered, Discovered, serverVars
<1>6. Calls => UNCHANGED <<posted, executed>>
  BY DEF Calls, ListTools, CallRaw, Listed, ListFails, Mismatch, CallAnswered, InSession, serverVars
<1>7. Sent(req).method = req.method
  BY SentFacts
<1>8. Post => CallsPosted' = CallsPosted \cup {r \in {Sent(req)} : req.method = "call"}
  BY <1>1, <1>7 DEF CallsPosted
<1>9. UNCHANGED <<posted, executed>> => UNCHANGED <<CallsPosted, executed>>
  BY DEF CallsPosted
<1>. QED
  BY <1>1, <1>2, <1>3, <1>4, <1>5, <1>6, <1>8, <1>9 DEF Next, Server, Halted

\* The POST of a call is the first that a server sees of it, or it follows a rejection.
LEMMA PostKeepsOnce ==
  ASSUME TypeInv, OnceInv, [Next]_vars, Post
  PROVE  OnceInv'
<1>1. /\ step = "post" /\ step' = "wait" /\ arrived' = arrived /\ arrived = NoAnswer
      /\ UNCHANGED <<status, req, errand, nextID, calls, executed>>
      /\ CallsPosted' = CallsPosted \cup {r \in {Sent(req)} : req.method = "call"}
  <2>1. step = "post" /\ step' = "wait" /\ arrived' = arrived
        /\ UNCHANGED <<status, req, errand, nextID, calls, executed>>
    BY DEF Post, callVars, serverVars
  <2>2. arrived = NoAnswer
    BY <2>1 DEF TypeInv, PhaseOK
  <2>3. posted' = posted \cup {Sent(req)} /\ Sent(req).method = req.method
    BY SentFacts DEF Post
  <2>4. CallsPosted' = CallsPosted \cup {r \in {Sent(req)} : req.method = "call"}
    BY <2>3 DEF CallsPosted
  <2>. QED
    BY <2>1, <2>2, <2>4
<1>2. ~Rejected'
  BY <1>1 DEF Rejected
<1>3. CASE req.method # "call"
  <2>1. UNCHANGED CallsPosted
    BY <1>1, <1>3
  <2>2. Owed' => Unseen'
    BY <1>1, <1>2, <1>3, <2>1 DEF OnceInv, Owed, Unseen
  <2>. QED
    BY <1>1, <1>3, <2>1, <2>2 DEF OnceInv, NumbersDrawn, IdsFresh, OneSeen, ExecutedOnce
<1>4. CASE req.method = "call"
  <2>1. status = "ready" /\ req.call = calls /\ errand \in {"call", "retry"}
        /\ calls \in Nat /\ nextID \in Nat
    BY <1>1, <1>4 DEF TypeInv, PhaseOK, RequestOK
  <2>2. Unseen
    BY <1>1, <1>4, <2>1 DEF OnceInv, Owed
  <2>3. CallsPosted' = CallsPosted \cup {Sent(req)}
    BY <1>1, <1>4
  <2>4. Sent(req).id = req.id /\ Sent(req).call = calls /\ req.id \in 0 .. nextID
    BY <2>1, SentFacts DEF TypeInv, RequestOK, RequestShape
  <2>5. NumbersDrawn'
    BY <1>1, <2>1, <2>3, <2>4 DEF OnceInv, NumbersDrawn
  <2>6. IdsFresh'
    BY <1>1, <1>4, <2>1, <2>3, <2>4 DEF OnceInv, IdsFresh
  <2>7. OneSeen'
    BY <1>1, <2>2, <2>3, <2>4 DEF OnceInv, OneSeen, Unseen, ExecutedOnce
  <2>8. ~Owed'
    BY <1>1, <1>2, <2>1 DEF Owed
  <2>. QED
    BY <2>5, <2>6, <2>7, <2>8 DEF OnceInv
<1>. QED
  BY <1>3, <1>4

\* An answer: the request is gone, and if it was executed it was not rejected.
LEMMA AnswerKeepsOnce ==
  ASSUME TypeInv, OnceInv, NEW r, NEW a, Answered(r, a), [Next]_vars
  PROVE  OnceInv'
<1>1. /\ r \in posted /\ posted' = posted \ {r}
      /\ UNCHANGED <<status, step, req, errand, nextID, calls>>
  BY DEF Answered, callVars
<1>2. CallsPosted' = CallsPosted \ {r}
  BY <1>1 DEF CallsPosted
<1>3. NumbersDrawn' /\ OneSeen'
  <2>1. CASE UNCHANGED executed
    BY <1>1, <1>2, <2>1 DEF OnceInv, NumbersDrawn, OneSeen, ExecutedOnce
  <2>2. CASE r.method = "call" /\ executed' = executed \cup {[call |-> r.call, id |-> r.id]}
    <3>1. r \in CallsPosted
      BY <1>1, <2>2 DEF CallsPosted
    <3>2. \A x \in executed' : x \in executed \/ x = [call |-> r.call, id |-> r.id]
      BY <2>2
    <3>3. NumbersDrawn'
      BY <1>1, <1>2, <3>1, <3>2 DEF OnceInv, NumbersDrawn
    <3>4. \A s \in CallsPosted', x \in executed' : s.call # x.call
      BY <1>2, <3>1, <3>2 DEF OnceInv, OneSeen
    <3>5. ExecutedOnce'
      BY <3>1, <3>2 DEF OnceInv, OneSeen, ExecutedOnce
    <3>. QED
      BY <1>2, <3>3, <3>4, <3>5 DEF OnceInv, OneSeen
  <2>. QED
    BY <2>1, <2>2 DEF Answered
<1>4. IdsFresh'
  BY <1>1, <1>2 DEF OnceInv, IdsFresh
<1>5. ASSUME Owed' PROVE Unseen'
  <2>1. CASE Owed
    <3>1. Unseen
      BY <2>1 DEF OnceInv
    <3>2. r.method = "call" => r.call # calls
      BY <1>1, <3>1 DEF Unseen, CallsPosted
    <3>. QED
      BY <1>1, <1>2, <3>1, <3>2 DEF Unseen, Answered
  <2>2. CASE ~Owed
    <3>1. Rejected' /\ ~Rejected /\ status = "ready"
      BY <1>1, <1>5, <2>2 DEF Owed
    <3>2. /\ step = "wait" /\ req.method = "call" /\ r.id = req.id /\ r.method = "call"
          /\ arrived' = a /\ a.code = "mismatch"
      BY <1>1, <3>1 DEF Rejected, Answered
    <3>3. r \in CallsPosted /\ r.call = calls
      BY <1>1, <3>1, <3>2 DEF CallsPosted, OnceInv, IdsFresh, TypeInv, PhaseOK
    <3>4. UNCHANGED executed
      BY <3>2 DEF Answered
    <3>. QED
      BY <1>1, <1>2, <3>3, <3>4 DEF Unseen, OnceInv, OneSeen
  <2>. QED
    BY <2>1, <2>2
<1>. QED
  BY <1>3, <1>4, <1>5 DEF OnceInv

LEMMA OnceInvStep == TypeInv /\ OnceInv /\ [Next]_vars => OnceInv'
<1>. SUFFICES ASSUME TypeInv, OnceInv, [Next]_vars PROVE OnceInv'
  OBVIOUS
<1>0. PhaseOK /\ nextID \in Nat /\ calls \in Nat
  BY DEF TypeInv, RequestOK
<1>1. CASE Post
  BY <1>1, PostKeepsOnce
<1>2. CASE \E r, a : Answered(r, a)
  BY <1>2, AnswerKeepsOnce
<1>. DEFINE Quiet == UNCHANGED <<CallsPosted, executed>>
<1>3. CASE Quiet /\ Idles
  <2>1. UNCHANGED <<status, step, req, errand, nextID, calls>>
    BY <1>3 DEF Idles
  <2>2. Rejected' => Rejected \/ \E r, a : Answered(r, a)
    BY <2>1, ArrivedMoves DEF Rejected
  <2>3. CASE ~\E r, a : Answered(r, a)
    BY <1>3, <2>1, <2>2, <2>3
       DEF OnceInv, NumbersDrawn, IdsFresh, OneSeen, ExecutedOnce, Owed, Unseen
  <2>. QED
    BY <1>2, <2>3
<1>4. CASE Quiet /\ (TurnsLegacy \/ Notifies)
  <2>1. status' = "dialling" /\ req'.method # "call" /\ nextID' \in {nextID, nextID + 1} /\ UNCHANGED calls
    BY <1>4 DEF TurnsLegacy, Notifies, InDial
  <2>. QED
    BY <1>0, <1>4, <2>1 DEF OnceInv, NumbersDrawn, IdsFresh, OneSeen, ExecutedOnce, Owed
<1>5. CASE Quiet /\ (Settles \/ Fails \/ Rests \/ Closes)
  <2>1. step' = "rest" /\ errand' = "none" /\ UNCHANGED <<req, nextID, calls>>
    BY <1>0, <1>5 DEF Settles, Fails, Rests, Closes, InDial, PhaseOK
  <2>. QED
    BY <1>5, <2>1 DEF OnceInv, NumbersDrawn, IdsFresh, OneSeen, ExecutedOnce, Owed, Rejected
<1>6. CASE Quiet /\ Begins
  <2>1. calls' = calls + 1 /\ nextID' = nextID + 1 /\ req'.id = nextID + 1 /\ step' = "post"
    BY <1>6 DEF Begins, Asks
  <2>2. Unseen'
    BY <1>0, <1>6, <2>1 DEF OnceInv, NumbersDrawn, Unseen
  <2>. QED
    BY <1>0, <1>6, <2>1, <2>2 DEF OnceInv, NumbersDrawn, IdsFresh, OneSeen, ExecutedOnce
<1>7. CASE Quiet /\ (GoesOn \/ Relists)
  <2>1. UNCHANGED calls /\ nextID' = nextID + 1 /\ req'.id = nextID + 1 /\ step' = "post"
        /\ status = "ready"
    BY <1>7 DEF GoesOn, Relists, Asks
  <2>2. GoesOn => Owed
    BY <2>1 DEF GoesOn, Owed
  <2>3. Relists => Owed
    BY <2>1 DEF Relists, Mismatch, Answers, Owed, Rejected
  <2>4. Unseen'
    BY <1>7, <2>1, <2>2, <2>3 DEF OnceInv, Unseen
  <2>. QED
    BY <1>0, <1>7, <2>1, <2>4 DEF OnceInv, NumbersDrawn, IdsFresh, OneSeen, ExecutedOnce
<1>. QED
  BY <1>0, <1>1, <1>2, <1>3, <1>4, <1>5, <1>6, <1>7, Moves, TrafficMoves

LEMMA OnceInvHolds == Spec => []OnceInv
<1>1. Init => OnceInv
  BY DEF Init, OnceInv, NumbersDrawn, IdsFresh, OneSeen, ExecutedOnce, Owed, Unseen, Rejected,
     CallsPosted
<1>. QED
  BY <1>1, OnceInvStep, TypeInvHolds, PTL DEF Spec

\* One CallRaw has the tool run at most once, though it may send its call twice and any
\* answer may be lost.
THEOREM ExecutedOnceHolds == Spec => []ExecutedOnce
<1>1. OnceInv => ExecutedOnce
  BY DEF OnceInv, OneSeen
<1>. QED
  BY <1>1, OnceInvHolds, PTL

-----------------------------------------------------------------------------
(***************************************************************************)
(* Schemas.  A table of subschemas points from each to an earlier one, so  *)
(* what is read off it from the first on is there for every table, and a   *)
(* claim that fails fails at a first place.                                *)
(***************************************************************************)
\* A set of numbers that is not empty has a least one: of the ranges that end in its
\* members, ordered by strict inclusion, one is minimal.
LEMMA LeastExists ==
  ASSUME NEW S \in SUBSET Nat, S # {}
  PROVE  \E m \in S : \A j \in S : m <= j
<1>. DEFINE R == StrictSubsetOrdering(Nat)
            T == {0 .. n : n \in S}
<1>1. T \subseteq FiniteSubsetsOf(Nat)
  <2>. SUFFICES ASSUME NEW n \in S PROVE 0 .. n \in FiniteSubsetsOf(Nat)
    OBVIOUS
  <2>1. n \in Int /\ 0 \in Int /\ 0 .. n \subseteq Nat
    OBVIOUS
  <2>2. IsFiniteSet(0 .. n)
    BY <2>1, FS_Interval
  <2>. QED
    BY <2>1, <2>2 DEF FiniteSubsetsOf
<1>2. IsWellFoundedOn(R, FiniteSubsetsOf(Nat))
  BY FS_StrictSubsetOrderingWellFounded
<1>3. T # {}
  OBVIOUS
<1>4. PICK x \in T : \A y \in T : ~ (<<y, x>> \in R)
  <2>. HIDE DEF R, T
  <2>. QED
    BY <1>1, <1>2, <1>3, WFMin
<1>5. PICK m \in S : x = 0 .. m
  OBVIOUS
<1>. SUFFICES ASSUME NEW j \in S, ~(m <= j) PROVE FALSE
  OBVIOUS
<1>6. m \in Nat /\ j \in Nat /\ j < m
  OBVIOUS
<1>7. 0 .. j \subseteq 0 .. m /\ 0 .. j # 0 .. m
  <2>1. m \in 0 .. m /\ m \notin 0 .. j
    BY <1>6
  <2>. QED
    BY <1>6, <2>1
<1>8. <<0 .. j, 0 .. m>> \in R
  BY <1>6, <1>7 DEF StrictSubsetOrdering
<1>. QED
  BY <1>4, <1>5, <1>8

\* A table whose entries point to earlier ones, filled in from the first on.
Fillable(k, up, A, first, next) ==
    /\ k \in Nat /\ \A n \in 2 .. k : up[n] \in 1 .. n - 1
    /\ first \in A /\ next \in [(1 .. k) \X A -> A]

Fills(f, k, up, A, first, next) ==
    /\ f \in [1 .. k -> A]
    /\ \A n \in 1 .. k : f[n] = IF n = 1 THEN first ELSE next[<<n, f[up[n]]>>]

\* Every such table can be filled in: there is no first place where it cannot.
LEMMA TableExists ==
  ASSUME NEW k, NEW up, NEW A, NEW first, NEW next, Fillable(k, up, A, first, next)
  PROVE  \E f : Fills(f, k, up, A, first, next)
<1>. USE DEF Fillable, Fills
<1>. DEFINE Filled(f, m) ==
              \A n \in 1 .. m : f[n] = IF n = 1 THEN first ELSE next[<<n, f[up[n]]>>]
            Bad == {m \in 0 .. k : ~ \E f \in [1 .. m -> A] : Filled(f, m)}
<1>1. CASE Bad = {}
  BY <1>1
<1>2. CASE Bad # {}
  <2>1. PICK m \in Bad : \A j \in Bad : m <= j
    <3>1. Bad \in SUBSET Nat
      OBVIOUS
    <3>. HIDE DEF Bad
    <3>. QED
      BY <1>2, <3>1, LeastExists
  <2>2. m \in 0 .. k /\ ~ \E f \in [1 .. m -> A] : Filled(f, m)
    OBVIOUS
  <2>3. m # 0
    <3>1. CASE m = 0
      <4>1. 1 .. m = {}
        BY <3>1
      <4>2. [n \in 1 .. m |-> first] \in [1 .. m -> A]
        OBVIOUS
      <4>. QED
        BY <2>2, <4>1, <4>2
    <3>. QED
      BY <3>1
  <2>4. m \in Nat /\ m - 1 \in 0 .. k /\ ~(m <= m - 1) /\ m \in 1 .. k
    BY <2>2, <2>3
  <2>5. PICK f \in [1 .. m - 1 -> A] : Filled(f, m - 1)
    BY <2>1, <2>4
  <2>. DEFINE new == IF m = 1 THEN first ELSE next[<<m, f[up[m]]>>]
              g == [n \in 1 .. m |-> IF n = m THEN new ELSE f[n]]
  <2>6. new \in A
    <3>1. CASE m = 1
      BY <3>1
    <3>2. CASE m # 1
      <4>1. m \in 2 .. k
        BY <2>4, <3>2
      <4>2. up[m] \in 1 .. m - 1
        BY <4>1
      <4>3. f[up[m]] \in A /\ <<m, f[up[m]]>> \in (1 .. k) \X A
        BY <2>4, <4>2
      <4>. QED
        BY <3>2, <4>3
    <3>. QED
      BY <3>1, <3>2
  <2>7. \A n \in 1 .. m : n # m => n \in 1 .. m - 1 /\ n \in 1 .. k
    BY <2>4
  <2>8. g \in [1 .. m -> A]
    BY <2>6, <2>7
  <2>9. \A n \in 1 .. m : n # m => g[n] = f[n]
    OBVIOUS
  <2>10. g[m] = new
    BY <2>4
  <2>11. \A n \in 1 .. m : n # 1 => up[n] \in 1 .. m /\ up[n] # m
    <3>. SUFFICES ASSUME NEW n \in 1 .. m, n # 1 PROVE up[n] \in 1 .. m /\ up[n] # m
      OBVIOUS
    <3>1. n \in 2 .. k /\ n <= m
      BY <2>4
    <3>2. up[n] \in 1 .. n - 1
      BY <3>1
    <3>. QED
      BY <2>4, <3>1, <3>2
  <2>12. Filled(g, m)
    <3>. SUFFICES ASSUME NEW n \in 1 .. m
                  PROVE  g[n] = IF n = 1 THEN first ELSE next[<<n, g[up[n]]>>]
      OBVIOUS
    <3>. HIDE DEF g
    <3>1. n # 1 => g[up[n]] = f[up[n]]
      BY <2>9, <2>11
    <3>2. CASE n = m
      BY <2>10, <3>1, <3>2
    <3>3. CASE n # m
      BY <2>5, <2>7, <2>9, <3>1, <3>3
    <3>. QED
      BY <3>2, <3>3
  <2>. QED
    BY <2>2, <2>8, <2>12
<1>. QED
  BY <1>1, <1>2

\* The tables that Reachable and Visited read, and a step of the walk.
Reach(s) ==
    CHOOSE reach : reach =
        [n \in DOMAIN s |-> n = 1 \/ (s[n].via = "properties" /\ reach[s[n].up])]

Walked(s, n, above) ==
    LET single == s[n].via \in Singles
    IN  IF above = "schema" /\ single /\ ~Described(s, n) THEN "opened"
        ELSE IF above = "schema" \/ (above = "opened" /\ single) THEN "schema"
        ELSE "missed"

Walk(s) ==
    CHOOSE walk : walk =
        [n \in DOMAIN s |-> IF n = 1 THEN "schema" ELSE Walked(s, n, walk[s[n].up])]

Props(s) == {s[n].prop : n \in DOMAIN s}

LEMMA SchemaFacts ==
  ASSUME NEW s, IsSchema(s)
  PROVE  /\ Len(s) \in Nat /\ DOMAIN s = 1 .. Len(s)
         /\ \A n \in 2 .. Len(s) : s[n].up \in 1 .. n - 1
BY DEF IsSchema

\* A subschema is reached through properties, one above the other, from the root.
LEMMA ReachFacts ==
  ASSUME NEW s, IsSchema(s), NEW n \in DOMAIN s
  PROVE  n \in Reachable(s) <=>
            n = 1 \/ (s[n].via = "properties" /\ s[n].up \in Reachable(s))
<1>. DEFINE k == Len(s)
            up == [i \in 1 .. k |-> s[i].up]
            next == [p \in (1 .. k) \X BOOLEAN |-> s[p[1]].via = "properties" /\ p[2]]
            Body(f) == [i \in DOMAIN s |-> i = 1 \/ (s[i].via = "properties" /\ f[s[i].up])]
<1>1. k \in Nat /\ DOMAIN s = 1 .. k /\ \A i \in 2 .. k : s[i].up \in 1 .. i - 1
  BY SchemaFacts
<1>2. \E f : f = Body(f)
  <2>1. next \in [(1 .. k) \X BOOLEAN -> BOOLEAN]
    OBVIOUS
  <2>2. \A i \in 2 .. k : up[i] = s[i].up
    BY <1>1
  <2>. k \in Nat /\ \A i \in 2 .. k : up[i] \in 1 .. i - 1
    BY <1>1, <2>2
  <2>. Fillable(k, up, BOOLEAN, TRUE, next)
    BY <2>1 DEF Fillable
  <2>3. PICK f : Fills(f, k, up, BOOLEAN, TRUE, next)
    <3>. HIDE DEF k, up, next
    <3>. QED
      BY TableExists
  <2>4. \A i \in 1 .. k : f[i] = (i = 1 \/ (s[i].via = "properties" /\ f[s[i].up]))
    <3>. SUFFICES ASSUME NEW i \in 1 .. k
                  PROVE  f[i] = (i = 1 \/ (s[i].via = "properties" /\ f[s[i].up]))
      OBVIOUS
    <3>1. CASE i = 1
      BY <2>3, <3>1 DEF Fills
    <3>2. CASE i # 1
      <4>1. i \in 2 .. k
        BY <1>1, <3>2
      <4>2. up[i] = s[i].up /\ s[i].up \in 1 .. k
        BY <1>1, <2>2, <4>1
      <4>3. f[s[i].up] \in BOOLEAN
        BY <2>3, <4>2 DEF Fills
      <4>4. next[<<i, f[s[i].up]>>] = (s[i].via = "properties" /\ f[s[i].up])
        BY <4>3
      <4>. QED
        BY <2>3, <3>2, <4>2, <4>4 DEF Fills
    <3>. QED
      BY <3>1, <3>2
  <2>5. f = Body(f)
    BY <1>1, <2>3, <2>4 DEF Fills
  <2>. QED
    BY <2>5
<1>3. Reach(s) = Body(Reach(s))
  BY <1>2 DEF Reach
<1>4. Reachable(s) = {i \in DOMAIN s : Reach(s)[i]}
  BY DEF Reachable, Reach
<1>5. Reach(s)[n] <=> n = 1 \/ (s[n].via = "properties" /\ Reach(s)[s[n].up])
  BY <1>3
<1>6. n # 1 => s[n].up \in DOMAIN s
  BY <1>1
<1>. QED
  BY <1>4, <1>5, <1>6

\* The walk goes on through properties.
LEMMA WalkFacts ==
  ASSUME NEW s, IsSchema(s), NEW n \in DOMAIN s, n # 1 => s[n].via = "properties" /\ s[n].up \in Visited(s)
  PROVE  n \in Visited(s)
<1>. DEFINE k == Len(s)
            A == {"schema", "opened", "missed"}
            up == [i \in 1 .. k |-> s[i].up]
            next == [p \in (1 .. k) \X A |-> Walked(s, p[1], p[2])]
            Body(f) == [i \in DOMAIN s |-> IF i = 1 THEN "schema" ELSE Walked(s, i, f[s[i].up])]
<1>1. k \in Nat /\ DOMAIN s = 1 .. k /\ \A i \in 2 .. k : s[i].up \in 1 .. i - 1
  BY SchemaFacts
<1>2. \E f : f = Body(f)
  <2>1. next \in [(1 .. k) \X A -> A]
    BY DEF Walked
  <2>2. \A i \in 2 .. k : up[i] = s[i].up
    BY <1>1
  <2>. k \in Nat /\ \A i \in 2 .. k : up[i] \in 1 .. i - 1
    BY <1>1, <2>2
  <2>3. "schema" \in A
    OBVIOUS
  <2>. Fillable(k, up, A, "schema", next)
    BY <2>1, <2>3 DEF Fillable
  <2>4. PICK f : Fills(f, k, up, A, "schema", next)
    <3>. HIDE DEF k, up, next, A
    <3>. QED
      BY TableExists
  <2>5. \A i \in 1 .. k : f[i] = IF i = 1 THEN "schema" ELSE Walked(s, i, f[s[i].up])
    <3>. SUFFICES ASSUME NEW i \in 1 .. k, i # 1 PROVE f[i] = Walked(s, i, f[s[i].up])
      BY <2>4 DEF Fills
    <3>1. i \in 2 .. k
      BY <1>1
    <3>2. up[i] = s[i].up /\ s[i].up \in 1 .. k
      BY <1>1, <2>2, <3>1
    <3>3. f[s[i].up] \in A
      BY <2>4, <3>2 DEF Fills
    <3>. HIDE DEF A
    <3>4. next[<<i, f[s[i].up]>>] = Walked(s, i, f[s[i].up])
      BY <3>3
    <3>. QED
      BY <2>4, <3>2, <3>4 DEF Fills
  <2>6. f = Body(f)
    BY <1>1, <2>4, <2>5 DEF Fills
  <2>. QED
    BY <2>6
<1>3. Walk(s) = Body(Walk(s))
  BY <1>2 DEF Walk
<1>4. Visited(s) = {i \in DOMAIN s : Walk(s)[i] = "schema"}
  BY DEF Visited, Walk, Walked
<1>5. Walk(s)[n] = IF n = 1 THEN "schema" ELSE Walked(s, n, Walk(s)[s[n].up])
  BY <1>3
<1>6. s[n].via = "properties" => Walked(s, n, "schema") = "schema"
  BY DEF Walked, Singles
<1>. QED
  BY <1>4, <1>5, <1>6

\* A property has a path: that of the subschema it stands in and its own name.
LEMMA PathFacts ==
  ASSUME NEW s, IsSchema(s), NEW n \in DOMAIN s, n # 1, s[n].via = "properties"
  PROVE  Path(s)[n] # <<>>
<1>. DEFINE k == Len(s)
            A == Seq(Props(s))
            Extended(i, above) == IF s[i].via = "properties" THEN Append(above, s[i].prop) ELSE above
            up == [i \in 1 .. k |-> s[i].up]
            next == [p \in (1 .. k) \X A |-> Extended(p[1], p[2])]
            Body(f) == [i \in DOMAIN s |-> IF i = 1 THEN <<>> ELSE Extended(i, f[s[i].up])]
<1>1. k \in Nat /\ DOMAIN s = 1 .. k /\ \A i \in 2 .. k : s[i].up \in 1 .. i - 1
  BY SchemaFacts
<1>2. \A i \in 1 .. k, above \in A : Extended(i, above) \in A
  <2>. SUFFICES ASSUME NEW i \in 1 .. k, NEW above \in A PROVE Append(above, s[i].prop) \in A
    OBVIOUS
  <2>1. s[i].prop \in Props(s)
    BY <1>1 DEF Props
  <2>. QED
    BY <2>1
<1>3. <<>> \in A
  OBVIOUS
<1>4. \E f : f = Body(f)
  <2>1. next \in [(1 .. k) \X A -> A]
    <3>. HIDE DEF A, Extended, k
    <3>. QED
      BY <1>2
  <2>2. \A i \in 2 .. k : up[i] = s[i].up
    BY <1>1
  <2>. k \in Nat /\ \A i \in 2 .. k : up[i] \in 1 .. i - 1
    BY <1>1, <2>2
  <2>. Fillable(k, up, A, <<>>, next)
    BY <1>3, <2>1 DEF Fillable
  <2>4. PICK f : Fills(f, k, up, A, <<>>, next)
    <3>. HIDE DEF k, up, next, A
    <3>. QED
      BY TableExists
  <2>5. \A i \in 1 .. k : f[i] = IF i = 1 THEN <<>> ELSE Extended(i, f[s[i].up])
    <3>. SUFFICES ASSUME NEW i \in 1 .. k, i # 1 PROVE f[i] = Extended(i, f[s[i].up])
      BY <2>4 DEF Fills
    <3>1. i \in 2 .. k
      BY <1>1
    <3>2. up[i] = s[i].up /\ s[i].up \in 1 .. k
      BY <1>1, <2>2, <3>1
    <3>. HIDE DEF A, Extended
    <3>3. f[s[i].up] \in A
      BY <2>4, <3>2 DEF Fills
    <3>4. next[<<i, f[s[i].up]>>] = Extended(i, f[s[i].up])
      BY <3>3
    <3>. QED
      BY <2>4, <3>2, <3>4 DEF Fills
  <2>. HIDE DEF Extended
  <2>6. f = Body(f)
    BY <1>1, <2>4, <2>5 DEF Fills
  <2>. QED
    BY <2>6
<1>5. Path(s) = CHOOSE f : f = Body(f)
  BY DEF Path
<1>6. Path(s) = Body(Path(s))
  <2>. HIDE DEF Body
  <2>. QED
    BY <1>4, <1>5
<1>7. \A i \in 1 .. k : Path(s)[i] = IF i = 1 THEN <<>> ELSE Extended(i, Path(s)[s[i].up])
  <2>. HIDE DEF Extended
  <2>. QED
    BY <1>1, <1>6
<1>. HIDE DEF Body, Extended
<1>. DEFINE Bad == {i \in 1 .. k : Path(s)[i] \notin A}
<1>8. Bad = {}
  <2>. SUFFICES ASSUME Bad # {} PROVE FALSE
    OBVIOUS
  <2>1. Bad \in SUBSET Nat
    OBVIOUS
  <2>2. PICK m \in Bad : \A j \in Bad : m <= j
    <3>. HIDE DEF Bad
    <3>. QED
      BY <2>1, LeastExists
  <2>. HIDE DEF A
  <2>3. m # 1 /\ m \in 2 .. k
    BY <1>3, <1>7
  <2>4. s[m].up \in 1 .. k /\ s[m].up < m
    BY <1>1, <2>3
  <2>5. Path(s)[s[m].up] \in A
    BY <2>2, <2>3, <2>4
  <2>. QED
    BY <1>2, <1>7, <2>3, <2>5
<1>9. s[n].up \in 1 .. k /\ Path(s)[s[n].up] \in A
  <2>. HIDE DEF A
  <2>1. n \in 2 .. k
    BY <1>1
  <2>. QED
    BY <1>1, <1>8, <2>1
<1>10. Path(s)[n] = Append(Path(s)[s[n].up], s[n].prop)
  BY <1>1, <1>7 DEF Extended
<1>. QED
  BY <1>9, <1>10

\* The walk misses nothing that the arguments reach: no first place is missed.
LEMMA ReachableIsVisited ==
  ASSUME NEW s, IsSchema(s)
  PROVE  Reachable(s) \subseteq Visited(s)
<1>. SUFFICES ASSUME NEW Bad, Bad = Reachable(s) \ Visited(s), Bad # {} PROVE FALSE
  OBVIOUS
<1>1. DOMAIN s = 1 .. Len(s) /\ Len(s) \in Nat /\ Reachable(s) \subseteq DOMAIN s
  BY SchemaFacts DEF Reachable
<1>2. Bad \in SUBSET Nat
  BY <1>1
<1>3. PICK m \in Bad : \A j \in Bad : m <= j
  BY <1>2, LeastExists
<1>4. m \in DOMAIN s /\ m \in Reachable(s) /\ m \notin Visited(s)
  BY <1>1
<1>5. m # 1 => s[m].via = "properties" /\ s[m].up \in Reachable(s) /\ s[m].up \in 1 .. m - 1
  BY <1>1, <1>4, ReachFacts, SchemaFacts
<1>6. m # 1 => s[m].up \in Visited(s)
  <2>. SUFFICES ASSUME m # 1, s[m].up \notin Visited(s) PROVE FALSE
    OBVIOUS
  <2>1. s[m].up \in Bad /\ s[m].up < m /\ m \in Nat /\ s[m].up \in Nat
    BY <1>1, <1>4, <1>5
  <2>. QED
    BY <1>3, <2>1
<1>. QED
  BY <1>4, <1>5, <1>6, WalkFacts

\* What a client writes into a header, a server reads out of it.
LEMMA DecodeEncode ==
  ASSUME NEW v \in [layers : Nat, odd : BOOLEAN]
  PROVE  Decode(Encode(v)) = v
<1>1. CASE NeedsEncoding(v)
  <2>1. Encode(v) = [v EXCEPT !.layers = v.layers + 1]
    BY <1>1 DEF Encode
  <2>2. Encode(v) = [layers |-> v.layers + 1, odd |-> v.odd] /\ v.layers \in Nat
    BY <2>1
  <2>3. Decode(Encode(v)) = [layers |-> v.layers + 1 - 1, odd |-> v.odd]
    BY <2>2 DEF Decode
  <2>. QED
    BY <2>2, <2>3
<1>2. CASE ~NeedsEncoding(v)
  <2>1. Encode(v) = v /\ v.layers = 0 /\ ~v.odd
    BY <1>2 DEF Encode, NeedsEncoding
  <2>2. v = [layers |-> v.layers, odd |-> v.odd] /\ v.odd = FALSE
    BY <2>1
  <2>. QED
    BY <2>1, <2>2 DEF Decode
<1>. QED
  BY <1>1, <1>2

\* A header for every annotation the server stands by, and its value comes through.
LEMMA MirroredFits ==
  ASSUME NEW s \in Schema, NEW args \in Args, ~Invalid(s),
         NEW n \in Declared(s), Path(s)[n] \in DOMAIN args
  PROVE  \E h \in Mirror(s, args) :
            h.name = s[n].header /\ Decode(h.value) = args[Path(s)[n]]
<1>1. IsSchema(s)
  BY HttpAssumption
<1>2. n \in Reachable(s) /\ n # 1 /\ s[n].header \in Token /\ n \in DOMAIN s
  BY DEF Declared, Reachable
<1>3. s[n].via = "properties"
  BY <1>1, <1>2, ReachFacts
<1>4. Path(s)[n] # <<>>
  BY <1>1, <1>2, <1>3, PathFacts
<1>5. n \in Visited(s)
  BY <1>1, <1>2, ReachableIsVisited
<1>6. s[n].header # NoHeader
  BY <1>2, HttpAssumption
<1>7. n \in Annotated(s)
  BY <1>4, <1>5, <1>6 DEF Annotated
<1>. DEFINE h == [name |-> s[n].header, value |-> Encode(args[Path(s)[n]])]
<1>8. h \in Mirror(s, args)
  BY <1>7 DEF Mirror
<1>9. args[Path(s)[n]] \in [layers : Nat, odd : BOOLEAN]
  BY HttpAssumption
<1>10. h.name = s[n].header /\ Decode(h.value) = args[Path(s)[n]]
  BY <1>9, DecodeEncode
<1>. QED
  BY <1>8, <1>10

\* What stands above a subschema: itself, and what stands above the one it stands in.
LEMMA AboveFacts ==
  ASSUME NEW s, IsSchema(s)
  PROVE  \A n \in DOMAIN s :
            Above(s)[n] = IF n = 1 THEN {1} ELSE {n} \cup Above(s)[s[n].up]
<1>. DEFINE k == Len(s)
            A == SUBSET (1 .. k)
            up == [i \in 1 .. k |-> s[i].up]
            next == [p \in (1 .. k) \X A |-> {p[1]} \cup p[2]]
            Body(f) == [i \in DOMAIN s |-> IF i = 1 THEN {1} ELSE {i} \cup f[s[i].up]]
<1>1. k \in Nat /\ DOMAIN s = 1 .. k /\ \A i \in 2 .. k : s[i].up \in 1 .. i - 1
  BY SchemaFacts
<1>2. \E f : f = Body(f)
  <2>1. CASE k = 0
    <3>1. DOMAIN s = {}
      BY <1>1, <2>1
    <3>. QED
      BY <3>1
  <2>2. CASE k # 0
    <3>1. next \in [(1 .. k) \X A -> A]
      OBVIOUS
    <3>2. \A i \in 2 .. k : up[i] = s[i].up
      BY <1>1
    <3>. k \in Nat /\ \A i \in 2 .. k : up[i] \in 1 .. i - 1
      BY <1>1, <3>2
    <3>3. {1} \in A
      BY <1>1, <2>2
    <3>. Fillable(k, up, A, {1}, next)
      BY <3>1, <3>3 DEF Fillable
    <3>4. PICK f : Fills(f, k, up, A, {1}, next)
      <4>. HIDE DEF k, up, next, A
      <4>. QED
        BY TableExists
    <3>5. \A i \in 1 .. k : f[i] = IF i = 1 THEN {1} ELSE {i} \cup f[s[i].up]
      <4>. SUFFICES ASSUME NEW i \in 1 .. k, i # 1 PROVE f[i] = {i} \cup f[s[i].up]
        BY <3>4 DEF Fills
      <4>1. i \in 2 .. k
        BY <1>1
      <4>2. up[i] = s[i].up /\ s[i].up \in 1 .. k
        BY <1>1, <3>2, <4>1
      <4>. HIDE DEF A
      <4>3. f[s[i].up] \in A
        BY <3>4, <4>2 DEF Fills
      <4>4. next[<<i, f[s[i].up]>>] = {i} \cup f[s[i].up]
        BY <4>3
      <4>. QED
        BY <3>4, <4>2, <4>4 DEF Fills
    <3>6. f = Body(f)
      BY <1>1, <3>4, <3>5 DEF Fills
    <3>. QED
      BY <3>6
  <2>. QED
    BY <2>1, <2>2
<1>3. Above(s) = CHOOSE f : f = Body(f)
  BY DEF Above
<1>4. Above(s) = Body(Above(s))
  <2>. HIDE DEF Body
  <2>. QED
    BY <1>2, <1>3
<1>. QED
  BY <1>1, <1>4

\* Nothing but properties stands above what the arguments reach.
LEMMA ReachableIsOpen ==
  ASSUME NEW s, IsSchema(s)
  PROVE  \A n \in DOMAIN s :
            n \in Reachable(s) <=> \A m \in Above(s)[n] : s[m].via \in {"root", "properties"}
<1>. DEFINE Open(n) == \A m \in Above(s)[n] : s[m].via \in {"root", "properties"}
            Bad == {n \in DOMAIN s : ~(n \in Reachable(s) <=> Open(n))}
<1>1. DOMAIN s = 1 .. Len(s) /\ Len(s) \in Nat /\ \A i \in 2 .. Len(s) : s[i].up \in 1 .. i - 1
  BY SchemaFacts
<1>. SUFFICES ASSUME Bad # {} PROVE FALSE
  OBVIOUS
<1>2. Bad \in SUBSET Nat
  BY <1>1
<1>3. PICK m \in Bad : \A j \in Bad : m <= j
  <2>. HIDE DEF Bad
  <2>. QED
    BY <1>2, LeastExists
<1>4. m \in DOMAIN s /\ m \in Nat /\ Above(s)[m] = IF m = 1 THEN {1} ELSE {m} \cup Above(s)[s[m].up]
  <2>1. m \in DOMAIN s /\ m \in Nat
    BY <1>1
  <2>. HIDE DEF Bad
  <2>. QED
    BY <2>1, AboveFacts
<1>5. m \in Reachable(s) <=> m = 1 \/ (s[m].via = "properties" /\ s[m].up \in Reachable(s))
  BY <1>4, ReachFacts
<1>6. s[m].via = "root" <=> m = 1
  BY <1>4 DEF IsSchema
<1>7. CASE m = 1
  BY <1>4, <1>5, <1>6, <1>7
<1>8. CASE m # 1
  <2>1. s[m].up \in DOMAIN s /\ s[m].up < m /\ s[m].up \in Nat
    BY <1>1, <1>4, <1>8
  <2>2. s[m].up \notin Bad
    <3>. HIDE DEF Bad
    <3>. QED
      BY <1>3, <1>4, <2>1
  <2>3. s[m].up \in Reachable(s) <=> Open(s[m].up)
    BY <2>1, <2>2
  <2>4. Open(m) <=> s[m].via \in {"root", "properties"} /\ Open(s[m].up)
    BY <1>4, <1>8
  <2>. QED
    BY <1>5, <1>6, <1>8, <2>3, <2>4
<1>. QED
  BY <1>7, <1>8

\* headerAnnotations rejects only what the rules reject.
LEMMA InvalidIsMalformed ==
  ASSUME NEW s, IsSchema(s), Invalid(s)
  PROVE  Malformed(s)
<1>1. Annotated(s) \subseteq {n \in DOMAIN s : s[n].header # NoHeader}
  BY DEF Annotated, Visited
<1>2. \A n \in DOMAIN s :
        n \notin Reachable(s) <=> \E m \in Above(s)[n] : s[m].via \notin {"root", "properties"}
  BY ReachableIsOpen
<1>. QED
  BY <1>1, <1>2 DEF Invalid, Wrong, Clash, Malformed

-----------------------------------------------------------------------------
(***************************************************************************)
(* Headers.  While the tools are those that were listed, the client keeps  *)
(* of each what Remember keeps, and the calls that went out since carry    *)
(* the headers that follow from it.                                        *)
(***************************************************************************)
Calling == [tool : Tool, args : Args]

ParamsInv ==
    /\ errand # "none" => req.param \in Calling
    /\ \A r \in CallsPosted : r.param \in Calling

\* What Remember keeps of a schema.
KeptOf(s) == IF Invalid(s) THEN NoSchema ELSE s

HeadersOf(s, args) == IF s # NoSchema THEN Mirror(s, args) ELSE {}

Fresh == listedAt = changes => \A t \in Tool : schemas[t] = KeptOf(defs[t])

\* The tools have been listed before, and not in vain.
HasListed ==
    \/ \E t \in Tool : schemas[t] # NoSchema
    \/ errand \in {"call", "relist", "retry"}
    \/ CallsPosted # {}

ListedInv ==
    /\ HasListed => Fresh
    /\ \A t \in Tool : schemas[t] # NoSchema => ~Invalid(schemas[t])
    /\ arrived # NoAnswer /\ arrived.kind = "answer" =>
         /\ arrived.at >= listedAt
         /\ req.method = "list" /\ Ok(arrived) /\ arrived.at = changes => arrived.tools = defs

MirroredInv ==
    \A r \in CallsPosted :
        /\ r.at \in 0 .. listedAt
        /\ r.at = changes => r.headers = HeadersOf(KeptOf(defs[r.param.tool]), r.param.args)

RetryInv ==
    /\ errand = "retry" => listedAt >= rejectedAt
    /\ errand = "relist" /\ arrived # NoAnswer /\ arrived.kind = "answer" =>
         arrived.at >= rejectedAt
    /\ \A r \in CallsPosted : r.retry /\ r.id = req.id => r.at >= rejectedAt

HeadersInv == ParamsInv /\ ListedInv /\ MirroredInv /\ RetryInv

\* A call in hand follows a listing, or a schema that was known.
LEMMA CallInHand ==
  ASSUME PhaseOK, req.method = "call", step # "rest"
  PROVE  status = "ready" /\ errand \in {"call", "retry"}
BY DEF PhaseOK

\* What a listing brings, and which errands go on with it.
LEMMA ListedFacts ==
  ASSUME TypeInv, Listed
  PROVE  /\ arrived # NoAnswer /\ arrived.kind = "answer" /\ Ok(arrived)
         /\ req.method = "list" /\ Remember(arrived)
         /\ arrived' = NoAnswer /\ UNCHANGED <<posted, rejectedAt, changes, defs>>
         /\ arrived.tools \in [Tool -> Schema] /\ arrived.at \in 0 .. changes
         /\ errand' = "retry" => errand = "relist"
         /\ errand' # "relist"
<1>1. PICK a \in Answers({"list"}) :
        /\ UNCHANGED <<rejectedAt, calls, posted>> /\ InSession
        /\ Ok(a) /\ Remember(a) /\ arrived' = NoAnswer
        /\ \/ errand = "none" /\ Return
           \/ errand = "list" /\ errand' = "call"
           \/ errand = "relist" /\ errand' = "retry"
  BY DEF Listed
<1>2. a = arrived /\ req.method = "list" /\ a.kind = "answer" /\ a # NoAnswer
      /\ a.at \in 0 .. changes /\ a.tools \in [Tool -> Schema]
  <2>1. req.method = "list" /\ a # NoAnswer
    BY DEF Answers
  <2>. QED
    BY <1>1, <2>1, AwaitedFacts
<1>3. UNCHANGED <<changes, defs>>
  BY <1>1 DEF InSession, serverVars
<1>. QED
  BY <1>1, <1>2, <1>3 DEF Return

LEMMA MismatchFacts ==
  ASSUME TypeInv, Mismatch
  PROVE  /\ arrived' = NoAnswer /\ UNCHANGED <<posted, listedAt, schemas>>
         /\ errand' = "relist" /\ req'.id = nextID + 1
BY DEF Mismatch, Call, Message

\* Listings are not older than what is known, and the tools do not change behind them.
LEMMA ToolsKeep ==
  ASSUME TypeInv, ListedInv, [Next]_vars
  PROVE  /\ ~Listed => UNCHANGED <<schemas, listedAt>>
         /\ ~Mismatch => UNCHANGED rejectedAt
         /\ UNCHANGED <<changes, defs>> \/ changes' = changes + 1
         /\ listedAt' >= listedAt
<1>1. /\ ~Listed => UNCHANGED <<schemas, listedAt>>
      /\ ~Mismatch => UNCHANGED rejectedAt
      /\ UNCHANGED <<changes, defs>> \/ changes' = changes + 1
  BY ToolsMoves
<1>2. listedAt \in Nat
  BY DEF TypeInv, ToolsOK
<1>3. Listed => listedAt' >= listedAt
  BY ListedFacts DEF ListedInv, Remember
<1>. QED
  BY <1>1, <1>2, <1>3

\* Only Post adds a call to those on their way.
LEMMA CallsFrame ==
  ASSUME TypeInv, [Next]_vars
  PROVE  \/ Post /\ req.method = "call" /\ CallsPosted' = CallsPosted \cup {Sent(req)}
         \/ CallsPosted' \subseteq CallsPosted
<1>1. ASSUME NEW r, NEW a, Answered(r, a) PROVE CallsPosted' \subseteq CallsPosted
  BY <1>1 DEF Answered, CallsPosted
<1>. QED
  BY <1>1, TrafficMoves

LEMMA ParamsStep ==
  ASSUME TypeInv, ParamsInv, [Next]_vars
  PROVE  ParamsInv'
<1>0. PhaseOK
  BY DEF TypeInv
<1>1. ASSUME errand' # "none" PROVE req'.param \in Calling
  <2>1. CASE Idles \/ Post
    BY <1>1, <2>1 DEF ParamsInv, Idles, Post, callVars
  <2>2. ~(TurnsLegacy \/ Notifies \/ Settles \/ Fails)
    BY <1>0, <1>1 DEF TurnsLegacy, Notifies, Settles, Fails, InDial, PhaseOK
  <2>3. CASE Begins
    BY <1>0, <1>1, <2>3 DEF Begins, Asks, Calling, PhaseOK
  <2>4. CASE GoesOn \/ Relists
    BY <2>4 DEF GoesOn, Relists, Asks, ParamsInv
  <2>5. ~(Rests \/ Closes)
    BY <1>0, <1>1 DEF Rests, Closes, PhaseOK
  <2>. QED
    BY <1>0, <2>1, <2>2, <2>3, <2>4, <2>5, Moves
<1>2. ASSUME Post, req.method = "call" PROVE Sent(req).param \in Calling
  <2>1. errand \in {"call", "retry"}
    BY <1>0, <1>2, CallInHand DEF Post
  <2>. QED
    BY <2>1, SentFacts DEF ParamsInv
<1>3. \A r \in CallsPosted' : r.param \in Calling
  BY <1>2, CallsFrame DEF ParamsInv
<1>. QED
  BY <1>1, <1>3 DEF ParamsInv

\* Nothing but a listing makes up for a listing.
LEMMA HasListedBefore ==
  ASSUME TypeInv, [Next]_vars, ~Listed, HasListed'
  PROVE  HasListed
<1>0. PhaseOK /\ UNCHANGED schemas
  BY ToolsMoves DEF TypeInv
<1>1. ASSUME errand' \in {"call", "relist", "retry"} PROVE HasListed
  <2>1. CASE UNCHANGED errand
    BY <1>1, <2>1 DEF HasListed
  <2>2. Idles \/ Post \/ TurnsLegacy \/ Notifies \/ Settles \/ Fails \/ Closes => UNCHANGED errand
    BY DEF Idles, Post, TurnsLegacy, Notifies, Settles, Fails, Closes, InDial, callVars
  <2>3. CASE Begins
    BY <1>1, <2>1, <2>3 DEF Begins, HasListed
  <2>4. ~GoesOn /\ ~Rests
    BY <1>1 DEF GoesOn, Rests
  <2>5. CASE Relists
    BY <2>5 DEF Relists, HasListed
  <2>. QED
    BY <1>0, <2>1, <2>2, <2>3, <2>4, <2>5, Moves
<1>2. ASSUME CallsPosted' # {} PROVE HasListed
  <2>1. CASE Post /\ req.method = "call"
    <3>1. errand \in {"call", "retry"}
      BY <1>0, <2>1, CallInHand DEF Post
    <3>. QED
      BY <3>1 DEF HasListed
  <2>2. CASE CallsPosted' \subseteq CallsPosted
    BY <1>2, <2>2 DEF HasListed
  <2>. QED
    BY <2>1, <2>2, CallsFrame
<1>. QED
  BY <1>0, <1>1, <1>2 DEF HasListed

LEMMA ListedStep ==
  ASSUME TypeInv, ListedInv, [Next]_vars
  PROVE  ListedInv'
<1>0. changes \in Nat /\ listedAt \in 0 .. changes
  BY DEF TypeInv, ToolsOK
<1>1. ASSUME HasListed' PROVE Fresh'
  <2>1. CASE Listed
    <3>1. /\ Remember(arrived) /\ UNCHANGED <<changes, defs>>
          /\ arrived.at = changes => arrived.tools = defs
      BY <2>1, ListedFacts DEF ListedInv
    <3>. QED
      BY <3>1 DEF Remember, Fresh, KeptOf
  <2>2. CASE ~Listed
    <3>1. HasListed /\ UNCHANGED <<schemas, listedAt>>
      BY <1>1, <2>2, HasListedBefore, ToolsKeep
    <3>2. Fresh
      BY <3>1 DEF ListedInv
    <3>. QED
      BY <1>0, <3>1, <3>2, ToolsKeep DEF Fresh
  <2>. QED
    BY <2>1, <2>2
<1>2. ASSUME NEW t \in Tool, schemas'[t] # NoSchema PROVE ~Invalid(schemas'[t])
  <2>1. CASE Listed
    <3>1. schemas' = [u \in Tool |-> IF Invalid(arrived.tools[u]) THEN NoSchema ELSE arrived.tools[u]]
      BY <2>1, ListedFacts DEF Remember
    <3>. QED
      BY <1>2, <3>1
  <2>2. CASE ~Listed
    BY <1>2, <2>2, ToolsKeep DEF ListedInv
  <2>. QED
    BY <2>1, <2>2
<1>3. ASSUME arrived' # NoAnswer, arrived'.kind = "answer"
      PROVE  /\ arrived'.at >= listedAt'
             /\ req'.method = "list" /\ Ok(arrived') /\ arrived'.at = changes' => arrived'.tools = defs'
  <2>0. UNCHANGED listedAt
    BY <1>3, ListedFacts, ToolsKeep
  <2>1. CASE UNCHANGED <<arrived, req>>
    <3>1. arrived.at \in 0 .. changes
      BY <1>3, <2>1 DEF TypeInv, ArrivedOK
    <3>2. CASE UNCHANGED <<changes, defs>>
      BY <1>3, <2>0, <2>1, <3>2 DEF ListedInv
    <3>3. CASE changes' = changes + 1
      <4>1. arrived'.at # changes'
        BY <1>0, <2>1, <3>1, <3>3
      <4>. QED
        BY <1>3, <2>0, <2>1, <4>1 DEF ListedInv
    <3>. QED
      BY <3>2, <3>3, ToolsKeep
  <2>2. CASE \E r, a : /\ Answered(r, a) /\ arrived' = a /\ step = "wait"
                       /\ r.id = req.id /\ r.method = req.method
    <3>1. PICK r, a : Answered(r, a) /\ arrived' = a /\ r.method = req.method
      BY <2>2
    <3>2. /\ a.at = changes /\ UNCHANGED <<req, changes, defs>>
          /\ req.method = "list" /\ Ok(a) => a.tools = defs
      BY <3>1 DEF Answered
    <3>3. a.at >= listedAt'
      BY <1>0, <2>0, <3>2
    <3>4. Ok(arrived') => Ok(a)
      BY <3>1
    <3>. QED
      BY <3>1, <3>2, <3>3, <3>4 
  <2>. QED
    BY <1>3, <2>1, <2>2, ArrivedMoves
<1>. QED
  BY <1>1, <1>2, <1>3 DEF ListedInv, Ok

LEMMA MirroredStep ==
  ASSUME TypeInv, ParamsInv, ListedInv, MirroredInv, [Next]_vars
  PROVE  MirroredInv'
<1>0. /\ changes \in Nat /\ listedAt \in 0 .. changes /\ listedAt' >= listedAt /\ listedAt' \in Nat
      /\ UNCHANGED <<changes, defs>> \/ changes' = changes + 1
  <2>1. listedAt' \in Nat
    BY ToolsStep DEF ToolsOK
  <2>. QED
    BY <2>1, ToolsKeep DEF TypeInv, ToolsOK
<1>. DEFINE Fit(r) == /\ r.at \in 0 .. listedAt'
                      /\ r.at = changes' =>
                           r.headers = HeadersOf(KeptOf(defs'[r.param.tool]), r.param.args)
<1>1. ASSUME NEW r \in CallsPosted PROVE Fit(r)
  <2>1. r.at \in 0 .. listedAt
    BY DEF MirroredInv
  <2>2. CASE UNCHANGED <<changes, defs>>
    BY <1>0, <2>1, <2>2 DEF MirroredInv
  <2>3. CASE changes' = changes + 1
    <3>1. r.at # changes' /\ r.at \in 0 .. listedAt'
      BY <1>0, <2>1, <2>3
    <3>. QED
      BY <3>1
  <2>. QED
    BY <1>0, <2>2, <2>3
<1>2. ASSUME Post, req.method = "call" PROVE Fit(Sent(req))
  <2>1. UNCHANGED <<schemas, listedAt, changes, defs>>
    BY <1>2 DEF Post, callVars, serverVars
  <2>2. errand \in {"call", "retry"}
    BY <1>2, CallInHand DEF Post, TypeInv
  <2>3. HasListed /\ req.param \in Calling
    BY <2>2 DEF HasListed, ParamsInv
  <2>4. req.param.tool \in Tool
    BY <2>3 DEF Calling
  <2>5. Fresh
    BY <2>3 DEF ListedInv
  <2>6. Sent(req).headers = HeadersOf(schemas[req.param.tool], req.param.args)
    BY <1>2 DEF Sent, HeadersOf
  <2>7. Sent(req).at = listedAt /\ Sent(req).param = req.param
    BY SentFacts
  <2>. QED
    BY <1>0, <2>1, <2>4, <2>5, <2>6, <2>7 DEF Fresh
<1>. QED
  BY <1>1, <1>2, CallsFrame DEF MirroredInv

LEMMA RetryStep ==
  ASSUME TypeInv, VersionInv, OnceInv, ListedInv, RetryInv, [Next]_vars
  PROVE  RetryInv'
<1>0. /\ PhaseOK /\ changes \in Nat /\ rejectedAt \in 0 .. changes /\ nextID \in Nat
      /\ \A r \in CallsPosted : r.id \in 0 .. nextID
  BY DEF TypeInv, ToolsOK, RequestOK, OnceInv, NumbersDrawn
<1>1. ~Listed /\ ~Mismatch =>
        /\ errand' = "retry" => errand = "retry"
        /\ errand' = "relist" => errand = "relist"
  BY <1>0, Moves DEF Idles, Post, TurnsLegacy, Notifies, Settles, Fails, Begins, GoesOn, Relists,
     Rests, Closes, InDial, callVars, PhaseOK
<1>2. ASSUME errand' = "retry" PROVE listedAt' >= rejectedAt'
  <2>1. CASE Listed
    BY <1>2, <2>1, ListedFacts DEF RetryInv, Remember
  <2>2. CASE ~Listed
    BY <1>1, <1>2, <2>2, MismatchFacts, ToolsKeep DEF RetryInv
  <2>. QED
    BY <2>1, <2>2
<1>3. ASSUME errand' = "relist", arrived' # NoAnswer, arrived'.kind = "answer"
      PROVE  arrived'.at >= rejectedAt'
  <2>1. ~Listed /\ ~Mismatch
    BY <1>3, ListedFacts, MismatchFacts
  <2>2. errand = "relist" /\ UNCHANGED rejectedAt
    BY <1>1, <1>3, <2>1, ToolsKeep
  <2>3. UNCHANGED arrived \/ arrived'.at = changes
    BY <1>3, ArrivedMoves DEF Answered
  <2>. QED
    BY <1>0, <1>3, <2>2, <2>3 DEF RetryInv
<1>4. \/ UNCHANGED req
      \/ /\ UNCHANGED CallsPosted
         /\ req'.id = nextID + 1 \/ CallsPosted = {}
  <2>1. Idles \/ Post \/ Settles \/ Fails \/ Rests \/ Closes => UNCHANGED req
    BY DEF Idles, Post, Settles, Fails, Rests, Closes
  <2>2. TurnsLegacy \/ GoesOn \/ Relists \/ Begins => UNCHANGED posted /\ req'.id = nextID + 1
    BY DEF TurnsLegacy, GoesOn, Relists, Begins, Asks, Reads
  <2>3. Notifies => UNCHANGED posted /\ CallsPosted = {}
    BY DEF Notifies, Reads, InDial, VersionInv, CallsPosted
  <2>4. UNCHANGED posted => UNCHANGED CallsPosted
    BY DEF CallsPosted
  <2>. QED
    BY <1>0, <2>1, <2>2, <2>3, <2>4, Moves
<1>5. ASSUME NEW r \in CallsPosted', r.retry, r.id = req'.id PROVE r.at >= rejectedAt'
  <2>1. CASE req' # req
    <3>1. r \in CallsPosted /\ r.id = nextID + 1
      BY <1>4, <1>5, <2>1
    <3>. QED
      BY <1>0, <3>1
  <2>2. CASE UNCHANGED req
    <3>1. ~Mismatch
      <4>. SUFFICES ASSUME Mismatch PROVE FALSE
        OBVIOUS
      <4>1. UNCHANGED posted /\ req'.id = nextID + 1
        BY MismatchFacts
      <4>2. r \in CallsPosted
        BY <4>1 DEF CallsPosted
      <4>. QED
        BY <1>0, <1>5, <4>1, <4>2
    <3>2. UNCHANGED rejectedAt
      BY <3>1, ToolsKeep
    <3>3. CASE r \in CallsPosted
      BY <1>5, <2>2, <3>2, <3>3 DEF RetryInv
    <3>4. CASE r \notin CallsPosted
      <4>1. r = Sent(req)
        BY <3>4, CallsFrame
      <4>2. errand = "retry" /\ r.at = listedAt
        BY <1>5, <4>1, SentFacts
      <4>. QED
        BY <3>2, <4>2 DEF RetryInv
    <3>. QED
      BY <3>3, <3>4
  <2>. QED
    BY <2>1, <2>2
<1>. QED
  BY <1>2, <1>3, <1>5 DEF RetryInv

LEMMA HeadersInvStep ==
  TypeInv /\ VersionInv /\ OnceInv /\ HeadersInv /\ [Next]_vars => HeadersInv'
BY ParamsStep, ListedStep, MirroredStep, RetryStep DEF HeadersInv

LEMMA HeadersInvInit == Init => HeadersInv
BY DEF Init, HeadersInv, ParamsInv, ListedInv, MirroredInv, RetryInv, HasListed, CallsPosted

LEMMA HeadersInvHolds == Spec => []HeadersInv
BY HeadersInvInit, HeadersInvStep, TypeInvHolds, VersionInvHolds, OnceInvHolds, PTL DEF Spec

\* r.at = changes says that the tools are those of the listing the call was sent with.
LEMMA HeadersFit ==
  ASSUME TypeInv, HeadersInv
  PROVE  CallsFitSchema
<1>. SUFFICES ASSUME NEW r \in posted, r.method = "call"
              PROVE  /\ r.at = changes /\ schemas[r.param.tool] # NoSchema => Fits(r)
                     /\ r.retry /\ r.id = req.id => r.at >= rejectedAt
  BY DEF CallsFitSchema
<1>1. r \in CallsPosted /\ r.param \in Calling
  BY DEF CallsPosted, HeadersInv, ParamsInv
<1>2. r.retry /\ r.id = req.id => r.at >= rejectedAt
  BY <1>1 DEF HeadersInv, RetryInv
<1>3. ASSUME r.at = changes, schemas[r.param.tool] # NoSchema PROVE Fits(r)
  <2>. DEFINE s == defs[r.param.tool]
              a == r.param.args
  <2>1. r.param.tool \in Tool /\ a \in Args /\ s \in Schema
    BY <1>1 DEF Calling, TypeInv, ToolsOK
  <2>2. listedAt = changes /\ changes \in Nat
    BY <1>1, <1>3 DEF HeadersInv, MirroredInv, TypeInv, ToolsOK
  <2>3. schemas[r.param.tool] = KeptOf(s)
    BY <1>1, <2>1, <2>2 DEF HeadersInv, ListedInv, HasListed, Fresh
  <2>4. ~Invalid(s) /\ s # NoSchema
    BY <1>3, <2>1, <2>3, HttpAssumption DEF KeptOf
  <2>5. r.headers = Mirror(s, a)
    BY <1>1, <1>3, <2>4 DEF HeadersInv, MirroredInv, HeadersOf, KeptOf
  <2>6. \A n \in Declared(s) : Path(s)[n] \in DOMAIN a =>
          \E h \in Mirror(s, a) : h.name = s[n].header /\ Decode(h.value) = a[Path(s)[n]]
    BY <2>1, <2>4, MirroredFits
  <2>. QED
    BY <2>5, <2>6 DEF Fits
<1>. QED
  BY <1>2, <1>3

\* A call sent with the definitions as they still are carries every header its tool asks
\* for, readable as it was meant, and a retry never repeats the definitions that were
\* rejected: for every schema, argument and moment at which the tools change.
THEOREM CallsFitSchemaHolds == Spec => []CallsFitSchema
BY HeadersInvHolds, TypeInvHolds, HeadersFit, PTL

LEMMA HeadersDrop ==
  ASSUME TypeInv, HeadersInv
  PROVE  OnlyMalformedDropped
<1>. SUFFICES ASSUME NEW r \in posted, r.method = "call", r.at = changes,
                     schemas[r.param.tool] = NoSchema
              PROVE  Malformed(defs[r.param.tool])
  BY DEF OnlyMalformedDropped
<1>1. r \in CallsPosted /\ r.param \in Calling
  BY DEF CallsPosted, HeadersInv, ParamsInv
<1>2. r.param.tool \in Tool /\ defs[r.param.tool] \in Schema
  BY <1>1 DEF Calling, TypeInv, ToolsOK
<1>3. listedAt = changes
  BY <1>1 DEF HeadersInv, MirroredInv, TypeInv, ToolsOK
<1>4. KeptOf(defs[r.param.tool]) = NoSchema
  BY <1>1, <1>2, <1>3 DEF HeadersInv, ListedInv, HasListed, Fresh
<1>5. Invalid(defs[r.param.tool])
  BY <1>2, <1>4, HttpAssumption DEF KeptOf
<1>6. IsSchema(defs[r.param.tool])
  BY <1>2, HttpAssumption
<1>. QED
  BY <1>5, <1>6, InvalidIsMalformed

\* A call goes out without the schema of a tool that was listed only if the annotations of
\* that tool break the rules: for every schema, the walk finds no fault that is not there.
\* (It overlooks some that are: http_buried.)
THEOREM OnlyMalformedDroppedHolds == Spec => []OnlyMalformedDropped
BY HeadersInvHolds, TypeInvHolds, HeadersDrop, PTL
=============================================================================

---------------------------- MODULE Gateway_proofs ----------------------------
(***************************************************************************)
(* Gateway for every policy, every set of servers and any number of        *)
(* requests: the type invariant, the servers' lives, the routes of listed  *)
(* resources, the pins, the abstract wall, and what `explain` foretells.   *)
(* Serve is one loop, so each invariant meets one action at a time; the    *)
(* frame lemmas say which actions touch what.                              *)
(***************************************************************************)
EXTENDS GatewayProperties, FlowEngine_proofs

(***************************************************************************)
(* Frames: the actions that touch each group of variables.                 *)
(***************************************************************************)
LEMMA RouteFrame ==
  ASSUME [Next]_vars
  PROVE  UNCHANGED <<resOwner, listedUris>> \/ \E U : ListResources(U)
BY DEF Next, vars, historyVars, loopVars, Requests, Answers, Failures, Handler,
       Holds, LetsGo, Halted, ServeOther, StreamEnds, ReceiveToolsList, ReceiveCall, ReceiveResourcesList,
       ReceiveRead, ReceiveUnowned, ReceivePromptsList, ReceivePromptsGet, DialUpstream,
       DialFails, CloseAll, ListTools, ListToolsFails, ProbeFails, ProbeSucceeds,
       JudgeCall, RecordCall, ListResourcesFails, ListPrompts, Forward, AnswerArrives,
       CallFails

LEMMA UpstreamFrame ==
  ASSUME [Next]_vars
  PROVE  UNCHANGED upstreams \/ DialUpstream \/ CloseAll
BY DEF Next, vars, historyVars, loopVars, Requests, Answers, Failures, Handler,
       Holds, LetsGo, Halted, ServeOther, StreamEnds, ReceiveToolsList, ReceiveCall, ReceiveResourcesList,
       ReceiveRead, ReceiveUnowned, ReceivePromptsList, ReceivePromptsGet,
       DialFails, ListTools, ListToolsFails, ProbeFails, ProbeSucceeds,
       JudgeCall, RecordCall, ListResources, ListResourcesFails, ListPrompts, Forward,
       AnswerArrives, CallFails

LEMMA EngineFrame ==
  ASSUME [Next]_vars
  PROVE  UNCHANGED engineVars \/ RecordCall \/ (\E L : ListTools(L))
           \/ \E u \in Uri, c \in Scope : ReceiveRead(u, c)
BY DEF Next, vars, historyVars, loopVars, Requests, Answers, Failures, Handler,
       Holds, LetsGo, Halted, ServeOther, StreamEnds, ReceiveToolsList, ReceiveCall, ReceiveResourcesList,
       ReceiveUnowned, ReceivePromptsList, ReceivePromptsGet, DialUpstream,
       DialFails, CloseAll, ListToolsFails, ProbeFails, ProbeSucceeds,
       JudgeCall, ListResources, ListResourcesFails, ListPrompts, Forward, AnswerArrives,
       CallFails

LEMMA HeldFrame ==
  ASSUME [Next]_vars
  PROVE  UNCHANGED held \/ Holds \/ LetsGo
BY DEF Next, vars, historyVars, loopVars, Requests, Answers, Failures, Handler, Halted,
       ServeOther, StreamEnds, ReceiveToolsList, ReceiveCall, ReceiveResourcesList,
       ReceiveRead, ReceiveUnowned, ReceivePromptsList, ReceivePromptsGet, DialUpstream,
       DialFails, CloseAll, ListTools, ListToolsFails, ProbeFails, ProbeSucceeds,
       JudgeCall, RecordCall, ListResources, ListResourcesFails, ListPrompts, Forward,
       AnswerArrives, CallFails

\* Outside the life of the servers, Serve is idle or has a request in hand.
LEMMA ControlFrame ==
  ASSUME [Next]_vars
  PROVE  \/ DialUpstream \/ DialFails \/ StreamEnds \/ CloseAll
         \/ UNCHANGED pc
         \/ pc \notin {"dialing", "closing", "closed"} /\ pc' \notin {"dialing", "closing", "closed"}
BY DEF Next, vars, historyVars, loopVars, Requests, Answers, Failures, Handler,
       Holds, LetsGo, Halted, ServeOther, ReceiveToolsList, ReceiveCall, ReceiveResourcesList, Receive, Finish,
       ReceiveRead, ReceiveUnowned, ReceivePromptsList, ReceivePromptsGet,
       ListTools, ListToolsFails, ProbeFails, ProbeSucceeds, ListNext,
       JudgeCall, RecordCall, ListResources, ListResourcesFails, ListPrompts, Forward,
       AnswerArrives, CallFails

-----------------------------------------------------------------------------
(***************************************************************************)
(* The servers' lives.  While they are dialled, those before the position  *)
(* `at` are up; when the last one is, all are, for every server is in      *)
(* Order; and closeAll leaves none of them open.                           *)
(***************************************************************************)
Dialled(s) == \E i \in 1 .. at - 1 : Order[i] = s

UpInv ==
    /\ upstreams \in [Server -> {"none", "open", "closed"}]
    /\ at \in DOMAIN Order
    /\ pc = "dialing" => \A s \in Server : Dialled(s) => upstreams[s] = "open"
    /\ AllServersOrNone

LEMMA OrderFacts ==
  /\ DOMAIN Order = 1 .. Len(Order) /\ Len(Order) \in Nat /\ 1 \in DOMAIN Order
  /\ \A i \in DOMAIN Order : Order[i] \in Server
  /\ \A i \in DOMAIN Order : i < Len(Order) => i + 1 \in DOMAIN Order
BY GatewayAssumption

LEMMA AtStep ==
  ASSUME at \in DOMAIN Order, [Next]_vars
  PROVE  at' \in DOMAIN Order
<1>1. UNCHANGED at \/ at' = 1 \/ (at < Len(Order) /\ at' = at + 1)
  BY DEF Next, vars, historyVars, loopVars, Requests, Answers, Failures, Handler,
       Holds, LetsGo, Halted, ServeOther, ReceiveToolsList, ReceiveCall, ReceiveResourcesList, Receive, Finish,
       ReceiveRead, ReceiveUnowned, ReceivePromptsList, ReceivePromptsGet, StreamEnds,
       ListTools, ListToolsFails, ProbeFails, ProbeSucceeds, ListNext, CloseAll,
       JudgeCall, RecordCall, ListResources, ListResourcesFails, ListPrompts, Forward,
       AnswerArrives, CallFails, DialUpstream, DialFails
<1>. QED
  BY <1>1, OrderFacts

LEMMA UpInvInit == Init => UpInv
BY OrderFacts DEF Init, UpInv, AllServersOrNone, Dialled

LEMMA UpInvStep == UpInv /\ [Next]_vars => UpInv'
<1>. SUFFICES ASSUME UpInv, [Next]_vars PROVE UpInv'
  OBVIOUS
<1>0. at' \in DOMAIN Order
  BY AtStep DEF UpInv
<1>1. CASE DialUpstream
  <2>. DEFINE s == Order[at]
  <2>1. s \in Server /\ pc = "dialing" /\ upstreams' = [upstreams EXCEPT ![s] = "open"]
    BY <1>1, OrderFacts DEF UpInv, DialUpstream
  <2>2. \A t \in Server : (\E i \in 1 .. at : Order[i] = t) => upstreams'[t] = "open"
    BY <2>1, OrderFacts DEF UpInv, Dialled
  <2>3. CASE at < Len(Order)
    <3>1. at' = at + 1 /\ pc' = "dialing"
      BY <1>1, <2>1, <2>3 DEF DialUpstream
    <3>2. \A t \in Server : Dialled(t)' => upstreams'[t] = "open"
      BY <2>2, <3>1, OrderFacts DEF Dialled, UpInv
    <3>. QED
      BY <1>0, <2>1, <3>1, <3>2 DEF UpInv, AllServersOrNone
  <2>4. CASE ~(at < Len(Order))
    <3>1. pc' = "idle" /\ at = Len(Order)
      BY <1>1, <2>4, OrderFacts DEF DialUpstream, UpInv
    <3>2. \A t \in Server : upstreams'[t] = "open"
      BY <2>2, <3>1, GatewayAssumption, OrderFacts
    <3>. QED
      BY <1>0, <2>1, <3>1, <3>2 DEF UpInv, AllServersOrNone
  <2>. QED
    BY <2>3, <2>4
<1>2. CASE CloseAll
  BY <1>0, <1>2 DEF UpInv, CloseAll, AllServersOrNone
<1>3. CASE DialFails \/ StreamEnds
  <2>1. pc' = "closing" /\ UNCHANGED upstreams
    BY <1>3 DEF DialFails, StreamEnds
  <2>. QED
    BY <1>0, <2>1 DEF UpInv, AllServersOrNone
<1>4. CASE ~DialUpstream /\ ~CloseAll /\ ~DialFails /\ ~StreamEnds
  <2>1. UNCHANGED upstreams
    BY <1>4, UpstreamFrame
  <2>2. UNCHANGED pc \/ (pc \notin {"dialing", "closing", "closed"}
                         /\ pc' \notin {"dialing", "closing", "closed"})
    BY <1>4, ControlFrame
  <2>3. pc = "dialing" => UNCHANGED at
    BY <1>4 DEF Next, vars, historyVars, loopVars, Requests, Answers, Failures, Handler,
       Holds, LetsGo, Halted, ServeOther, ReceiveToolsList, ReceiveCall, ReceiveResourcesList, Receive,
       ReceiveRead, ReceiveUnowned, ReceivePromptsList, ReceivePromptsGet,
       ListTools, ListToolsFails, ProbeFails, ProbeSucceeds,
       JudgeCall, RecordCall, ListResources, ListResourcesFails, ListPrompts, Forward,
       AnswerArrives, CallFails
  <2>. QED
    BY <1>0, <2>1, <2>2, <2>3 DEF UpInv, AllServersOrNone, Dialled
<1>. QED
  BY <1>1, <1>2, <1>3, <1>4

(***************************************************************************)
(* All servers or none: requests are served only while every server of the *)
(* policy is up, and Serve has not ended before each that was started is   *)
(* closed, whichever of them failed to start.                              *)
(***************************************************************************)
THEOREM AllServersOrNoneHolds == Spec => []AllServersOrNone
<1>1. UpInv => AllServersOrNone
  BY DEF UpInv
<1>. QED
  BY <1>1, UpInvInit, UpInvStep, PTL DEF Spec

-----------------------------------------------------------------------------
(***************************************************************************)
(* Routes.  What the client was shown of a server is owned by that server, *)
(* and an owner once there is never replaced.                              *)
(***************************************************************************)
RouteInv ==
    /\ resOwner \in [Uri -> Server \cup {NoServer}]
    /\ listedUris \subseteq [server : Server, uri : Uri]
    /\ \A e \in listedUris : resOwner[e.uri] = e.server

LEMMA RouteInvInit == Init => RouteInv
BY DEF Init, RouteInv

LEMMA RouteInvStep == RouteInv /\ at \in DOMAIN Order /\ [Next]_vars => RouteInv'
<1>. SUFFICES ASSUME RouteInv, at \in DOMAIN Order, [Next]_vars PROVE RouteInv'
  OBVIOUS
<1>1. CASE UNCHANGED <<resOwner, listedUris>>
  BY <1>1 DEF RouteInv
<1>2. ASSUME NEW U, ListResources(U)
      PROVE  RouteInv'
  <2>. DEFINE s == Order[at]
              owned == {u \in U : resOwner[u] \in {NoServer, s}}
  <2>1. s \in Server /\ U \subseteq Uri
    BY <1>2, OrderFacts, GatewayAssumption DEF ListResources
  <2>2. /\ resOwner' = [u \in Uri |-> IF u \in owned THEN s ELSE resOwner[u]]
        /\ listedUris' = listedUris \cup {[server |-> s, uri |-> u] : u \in owned}
    BY <1>2 DEF ListResources
  <2>3. resOwner' \in [Uri -> Server \cup {NoServer}]
    BY <2>1, <2>2 DEF RouteInv
  <2>4. \A e \in listedUris : resOwner'[e.uri] = e.server
    <3>. SUFFICES ASSUME NEW e \in listedUris PROVE resOwner'[e.uri] = e.server
      OBVIOUS
    <3>1. e.uri \in Uri /\ e.server \in Server /\ resOwner[e.uri] = e.server
      BY DEF RouteInv
    <3>. QED
      BY <2>2, <3>1, PolicyNames
  <2>5. \A u \in owned : u \in Uri /\ resOwner'[u] = s
    BY <2>1, <2>2
  <2>. QED
    BY <2>1, <2>2, <2>3, <2>4, <2>5 DEF RouteInv
<1>. QED
  BY <1>1, <1>2, RouteFrame

(***************************************************************************)
(* A resource the client was shown is read from the server that listed it, *)
(* whatever other servers list or claim by a prefix.                       *)
(***************************************************************************)
THEOREM ListedUriRoutesHolds == Spec => []ListedUriRoutes
<1>1. RouteInv => ListedUriRoutes
  BY PolicyNames DEF RouteInv, ListedUriRoutes, HasOwner, OwnerOf
<1>2. UpInv => at \in DOMAIN Order
  BY DEF UpInv
<1>3. Init => UpInv /\ RouteInv
  BY UpInvInit, RouteInvInit
<1>4. (UpInv /\ RouteInv) /\ [Next]_vars => (UpInv /\ RouteInv)'
  BY <1>2, UpInvStep, RouteInvStep
<1>. QED
  BY <1>1, <1>3, <1>4, PTL DEF Spec

-----------------------------------------------------------------------------
(***************************************************************************)
(* The type invariant, one group of variables at a time.                   *)
(***************************************************************************)
Places == {"dialing", "idle", "closing", "closed", "listing tools", "listing resources",
           "listing prompts", "probing", "blocked", "judging", "recording", "forwarding",
           "waiting"}

AtCall == pc \in {"probing", "blocked", "judging", "recording"}

OnItsWay == pc \in {"forwarding", "waiting"}

LoopTypeOK ==
    /\ nread \in Nat
    /\ pc \in Places
    /\ req \in Request \cup {NoRequest}
    /\ AtCall => req \in CallRequest
    /\ OnItsWay => req \in CallRequest \cup ReadRequest \cup PromptRequest
    /\ verdict \in Decision

RecordTypeOK ==
    /\ once \in [Server -> {"fresh", "running", "done"}]
    /\ released \in Seq([request : CallRequest \cup ReadRequest \cup PromptRequest, to : Server])
    /\ refused \subseteq CallRequest
    /\ audit \in Seq(Line)

ShownTypeOK == shown \in [Server -> [Tool -> Def \cup {NoDef}]]

HeldTypeOK == held \in BOOLEAN

Typed == EngineTypeOK /\ LoopTypeOK /\ HeldTypeOK /\ RecordTypeOK /\ ShownTypeOK

TypeInv == Typed /\ UpInv /\ RouteInv

LEMMA TypeInvIsType == TypeInv => TypeOK
BY DEF TypeInv, Typed, TypeOK, LoopTypeOK, HeldTypeOK, RecordTypeOK, ShownTypeOK, Places, AtCall,
       OnItsWay, UpInv, RouteInv

LEMMA FinishType ==
  ASSUME LoopTypeOK, Finish, UNCHANGED nread
  PROVE  LoopTypeOK'
BY AllowedType DEF LoopTypeOK, Finish, Places, AtCall, OnItsWay

\* A request that Serve has just read is of its kind and at its place.
LEMMA ReceiveType ==
  ASSUME LoopTypeOK, NEW r \in Request, NEW to \in Places, Receive(r, to), UNCHANGED verdict,
         to \in {"probing", "blocked", "judging", "recording"} => r \in CallRequest,
         to \in {"forwarding", "waiting"} => r \in CallRequest \cup ReadRequest \cup PromptRequest
  PROVE  LoopTypeOK'
BY DEF LoopTypeOK, Receive, AtCall, OnItsWay

LEMMA LoopTypeStep ==
  ASSUME EngineTypeOK, LoopTypeOK, [Next]_vars
  PROVE  LoopTypeOK'
<1>0. nread \in Nat /\ nread + 1 \in Nat
  BY DEF LoopTypeOK
<1>1. CASE UNCHANGED <<nread, pc, req, verdict>>
  BY <1>1 DEF LoopTypeOK, AtCall, OnItsWay
<1>2. ASSUME NEW s \in Server, NEW t \in Tool, NEW c \in Scope, NEW a \in Arg,
             ReceiveCall(s, t, c, a)
      PROVE  LoopTypeOK'
  <2>. DEFINE r == [kind |-> "call", id |-> nread + 1, scope |-> c, server |-> s,
                    tool |-> t, arg |-> a]
              to == IF NeedsPinCheck(s, t) /\ once[s] = "fresh" THEN "probing" ELSE "judging"
  <2>1. r \in CallRequest /\ r \in Request
    BY <1>0 DEF CallRequest, Request
  <2>2. to \in {"probing", "judging"} /\ Receive(r, to) /\ UNCHANGED verdict
    BY <1>2 DEF ReceiveCall
  <2>. QED
    BY <2>1, <2>2, ReceiveType DEF Places
<1>3. ASSUME NEW u \in Uri, NEW c \in Scope, ReceiveRead(u, c)
      PROVE  LoopTypeOK'
  <2>. DEFINE r == [kind |-> "read", id |-> nread + 1, scope |-> c, uri |-> u]
  <2>1. r \in ReadRequest /\ r \in Request
    BY <1>0 DEF ReadRequest, Request
  <2>2. Receive(r, "forwarding") /\ UNCHANGED verdict
    BY <1>3 DEF ReceiveRead
  <2>. QED
    BY <2>1, <2>2, ReceiveType DEF Places
<1>4. ASSUME NEW s \in Server, ReceivePromptsGet(s)
      PROVE  LoopTypeOK'
  <2>. DEFINE r == [kind |-> "prompt", id |-> nread + 1, server |-> s]
  <2>1. r \in PromptRequest /\ r \in Request
    BY <1>0 DEF PromptRequest, Request
  <2>2. Receive(r, "forwarding") /\ UNCHANGED verdict
    BY <1>4 DEF ReceivePromptsGet
  <2>. QED
    BY <2>1, <2>2, ReceiveType DEF Places
<1>5. CASE ReceiveToolsList \/ ReceiveResourcesList \/ ReceivePromptsList
  <2>1. PICK r \in [kind : {"list", "resources", "prompts"}],
             to \in {"listing tools", "listing resources", "listing prompts"} :
               Receive(r, to) /\ UNCHANGED verdict
    BY <1>5 DEF ReceiveToolsList, ReceiveResourcesList, ReceivePromptsList
  <2>2. r \in Request /\ to \in Places
    BY DEF Request, Places
  <2>. QED
    BY <2>1, <2>2, ReceiveType
<1>6. CASE ServeOther \/ (\E u : ReceiveUnowned(u))
  BY <1>0, <1>6 DEF ServeOther, ReceiveUnowned, LoopTypeOK, AtCall, OnItsWay
<1>7. CASE ProbeFails \/ ProbeSucceeds \/ Forward
  BY <1>7 DEF ProbeFails, ProbeSucceeds, Forward, LoopTypeOK, AtCall, OnItsWay, Places
<1>8. CASE RecordCall
  BY <1>8 DEF RecordCall, LoopTypeOK, AtCall, OnItsWay, Places
<1>9. CASE JudgeCall
  <2>. DEFINE d == Decide(req.scope, req.server, req.tool, req.arg)
  <2>1. d \in Decision
    BY <1>9, DecisionType DEF JudgeCall, LoopTypeOK, AtCall, CallRequest
  <2>2. UNCHANGED nread /\ (Finish \/ (pc' = "recording" /\ verdict' = d /\ UNCHANGED req))
    BY <1>9 DEF JudgeCall
  <2>3. req \in CallRequest
    BY <1>9 DEF JudgeCall, LoopTypeOK, AtCall
  <2>4. CASE Finish
    BY <2>2, <2>4, FinishType
  <2>5. CASE pc' = "recording" /\ verdict' = d /\ UNCHANGED req
    BY <2>1, <2>2, <2>3, <2>5 DEF LoopTypeOK, AtCall, OnItsWay, Places
  <2>. QED
    BY <2>2, <2>4, <2>5
<1>10. CASE Finish /\ UNCHANGED nread
  BY <1>10, FinishType
<1>11. CASE UNCHANGED <<nread, req, verdict>> /\ pc' \in {"idle", "closing", "closed"}
  BY <1>11 DEF LoopTypeOK, AtCall, OnItsWay, Places
<1>12. \/ UNCHANGED <<nread, pc, req, verdict>>
       \/ ServeOther \/ ReceiveToolsList
       \/ \E s \in Server, t \in Tool, c \in Scope, a \in Arg : ReceiveCall(s, t, c, a)
       \/ ReceiveResourcesList
       \/ \E u \in Uri, c \in Scope : ReceiveRead(u, c)
       \/ \E u : ReceiveUnowned(u)
       \/ ReceivePromptsList
       \/ \E s \in Server : ReceivePromptsGet(s)
       \/ ProbeFails \/ ProbeSucceeds \/ Forward \/ RecordCall \/ JudgeCall
       \/ Finish /\ UNCHANGED nread
       \/ UNCHANGED <<nread, req, verdict>> /\ pc' \in {"idle", "closing", "closed"}
  BY DEF Next, vars, historyVars, loopVars, Requests, Answers, Failures, Handler,
         Holds, LetsGo, Halted, StreamEnds, ListTools, ListToolsFails, ListNext, CloseAll, ListResources,
         ListResourcesFails, ListPrompts, AnswerArrives, CallFails, DialUpstream, DialFails
<1>. QED
  BY <1>1, <1>2, <1>3, <1>4, <1>5, <1>6, <1>7, <1>8, <1>9, <1>10, <1>11, <1>12

LEMMA OnceFrame ==
  ASSUME [Next]_vars
  PROVE  \/ UNCHANGED once \/ ProbeFails \/ (\E L : ListTools(L))
         \/ \E s \in Server, t \in Tool, c \in Scope, a \in Arg : ReceiveCall(s, t, c, a)
BY DEF Next, vars, historyVars, loopVars, Requests, Answers, Failures, Handler,
       Holds, LetsGo, Halted, ServeOther, ReceiveToolsList, ReceiveResourcesList,
       ReceiveRead, ReceiveUnowned, ReceivePromptsList, ReceivePromptsGet, StreamEnds,
       ListToolsFails, ProbeSucceeds, CloseAll,
       RecordCall, ListResources, ListResourcesFails, ListPrompts,
       AnswerArrives, CallFails, DialUpstream, DialFails, JudgeCall, Forward

LEMMA RecordFrame ==
  ASSUME [Next]_vars
  PROVE  /\ UNCHANGED released \/ Forward
         /\ UNCHANGED refused \/ JudgeCall
         /\ UNCHANGED shown \/ \E L : ListTools(L)
<1>1. UNCHANGED released \/ Forward
  BY DEF Next, vars, historyVars, loopVars, Requests, Answers, Failures, Handler,
       Holds, LetsGo, Halted, ServeOther, ReceiveToolsList, ReceiveResourcesList,
       ReceiveRead, ReceiveUnowned, ReceivePromptsList, ReceivePromptsGet, StreamEnds,
       ListToolsFails, ProbeSucceeds, CloseAll,
       RecordCall, ListResources, ListResourcesFails, ListPrompts,
       AnswerArrives, CallFails, DialUpstream, DialFails,
       ReceiveCall, ListTools, ProbeFails, JudgeCall
<1>2. UNCHANGED refused \/ JudgeCall
  BY DEF Next, vars, historyVars, loopVars, Requests, Answers, Failures, Handler,
       Holds, LetsGo, Halted, ServeOther, ReceiveToolsList, ReceiveResourcesList,
       ReceiveRead, ReceiveUnowned, ReceivePromptsList, ReceivePromptsGet, StreamEnds,
       ListToolsFails, ProbeSucceeds, CloseAll,
       RecordCall, ListResources, ListResourcesFails, ListPrompts,
       AnswerArrives, CallFails, DialUpstream, DialFails,
       ReceiveCall, ListTools, ProbeFails, Forward
<1>3. UNCHANGED shown \/ \E L : ListTools(L)
  BY DEF Next, vars, historyVars, loopVars, Requests, Answers, Failures, Handler,
       Holds, LetsGo, Halted, ServeOther, ReceiveToolsList, ReceiveResourcesList,
       ReceiveRead, ReceiveUnowned, ReceivePromptsList, ReceivePromptsGet, StreamEnds,
       ListToolsFails, ProbeSucceeds, CloseAll,
       RecordCall, ListResources, ListResourcesFails, ListPrompts,
       AnswerArrives, CallFails, DialUpstream, DialFails,
       ReceiveCall, ProbeFails, JudgeCall, Forward
<1>. QED
  BY <1>1, <1>2, <1>3

\* The steps that write to the log, and those that change what a verdict is
\* taken from, are few.
LEMMA AuditFrame ==
  ASSUME [Next]_vars
  PROVE  \/ JudgeCall \/ RecordCall \/ AnswerArrives
         \/ \E u \in Uri, c \in Scope : ReceiveRead(u, c)
         \/ /\ UNCHANGED <<calls, seen, audit>>
            /\ pc' # "recording" \/ (UNCHANGED <<pc, req, verdict, pins>>)
BY DEF Next, vars, historyVars, loopVars, engineVars, Requests, Answers, Failures, Handler,
       Holds, LetsGo, Halted, ServeOther, ReceiveToolsList, ReceiveResourcesList, Receive, Finish, ReceiveCall,
       ReceiveUnowned, ReceivePromptsList, ReceivePromptsGet, StreamEnds, ListTools, ListNext,
       Screen, ListToolsFails, ProbeSucceeds, ProbeFails, CloseAll,
       ListResources, ListResourcesFails, ListPrompts, Forward, CallFails,
       DialUpstream, DialFails

LEMMA RecordTypeStep ==
  ASSUME EngineTypeOK, LoopTypeOK, RecordTypeOK, RouteInv, at \in DOMAIN Order, [Next]_vars,
         OnItsWay /\ req.kind = "read" => HasOwner(req.uri)
  PROVE  RecordTypeOK'
<1>1. once' \in [Server -> {"fresh", "running", "done"}]
  <2>1. CASE UNCHANGED once
    BY <2>1 DEF RecordTypeOK
  <2>2. CASE ProbeFails
    BY <2>2 DEF ProbeFails, RecordTypeOK
  <2>3. CASE \E L : ListTools(L)
    BY <2>3 DEF ListTools, RecordTypeOK
  <2>4. CASE \E s \in Server, t \in Tool, c \in Scope, a \in Arg : ReceiveCall(s, t, c, a)
    BY <2>4 DEF ReceiveCall, RecordTypeOK
  <2>. QED
    BY <2>1, <2>2, <2>3, <2>4, OnceFrame
<1>2. released' \in Seq([request : CallRequest \cup ReadRequest \cup PromptRequest, to : Server])
  <2>1. CASE UNCHANGED released
    BY <2>1 DEF RecordTypeOK
  <2>2. CASE Forward
    <3>. DEFINE to == IF req.kind = "read" THEN OwnerOf(req.uri) ELSE req.server
    <3>1. req \in CallRequest \cup ReadRequest \cup PromptRequest /\ OnItsWay
      BY <2>2 DEF Forward, LoopTypeOK, OnItsWay
    <3>2. to \in Server
      <4>1. CASE req.kind = "read"
        <5>1. req.uri \in Uri /\ HasOwner(req.uri)
          BY <3>1, <4>1 DEF CallRequest, ReadRequest, PromptRequest
        <5>2. CASE resOwner[req.uri] # NoServer
          BY <4>1, <5>1, <5>2 DEF RouteInv, OwnerOf
        <5>3. CASE resOwner[req.uri] = NoServer
          <6>1. Prefixes(req.uri) # {} /\ Prefixes(req.uri) \subseteq DOMAIN Order
            BY <5>1, <5>3 DEF HasOwner, Prefixes
          <6>2. First(Prefixes(req.uri)) \in Prefixes(req.uri)
            BY <6>1, OrderFacts, FirstIsLeast
          <6>. QED
            BY <4>1, <5>3, <6>1, <6>2, OrderFacts DEF OwnerOf
        <5>. QED
          BY <5>2, <5>3
      <4>2. CASE req.kind # "read"
        BY <3>1, <4>2 DEF CallRequest, ReadRequest, PromptRequest
      <4>. QED
        BY <4>1, <4>2
    <3>3. released' = Append(released, [request |-> req, to |-> to])
      BY <2>2 DEF Forward
    <3>. QED
      BY <3>1, <3>2, <3>3 DEF RecordTypeOK
  <2>. QED
    BY <2>1, <2>2, RecordFrame
<1>3. refused' \subseteq CallRequest
  <2>1. CASE JudgeCall
    <3>1. req \in CallRequest
      BY <2>1 DEF JudgeCall, LoopTypeOK, AtCall
    <3>. QED
      BY <2>1, <3>1 DEF JudgeCall, RecordTypeOK
  <2>. QED
    BY <2>1, RecordFrame DEF RecordTypeOK
<1>4. audit' \in Seq(Line)
  <2>1. audit \in Seq(Line)
    BY DEF RecordTypeOK
  <2>2. CASE JudgeCall
    <3>. DEFINE d == Decide(req.scope, req.server, req.tool, req.arg)
    <3>1. req \in CallRequest /\ d \in Decision
      BY <2>2, DecisionType DEF JudgeCall, LoopTypeOK, AtCall, CallRequest
    <3>2. [kind |-> "denied", request |-> req, decision |-> d, labels |-> {}] \in Line
      BY <3>1 DEF Line
    <3>. QED
      BY <2>1, <2>2, <3>2 DEF JudgeCall, Log
  <2>3. CASE RecordCall
    <3>. DEFINE kind == IF verdict.deny THEN "denied" ELSE "call"
                new == Fresh(req.scope, Labels(req))
    <3>1. req \in CallRequest /\ verdict \in Decision /\ kind \in {"call", "denied"}
      BY <2>3 DEF RecordCall, LoopTypeOK, AtCall
    <3>2. new \in SUBSET Label
      BY <3>1, LookupType DEF Fresh, Labels, Stains, CallRequest
    <3>3. [kind |-> kind, request |-> req, decision |-> verdict, labels |-> new] \in Line
      BY <3>1, <3>2 DEF Line
    <3>. QED
      BY <2>1, <2>3, <3>3 DEF RecordCall, Log
  <2>4. CASE AnswerArrives
    <3>1. CASE req.kind = "call"
      <4>1. req \in CallRequest /\ verdict \in Decision
        BY <2>4, <3>1 DEF AnswerArrives, LoopTypeOK, OnItsWay, ReadRequest, PromptRequest
      <4>2. [kind |-> "result", request |-> req, decision |-> verdict, labels |-> {}] \in Line
        BY <4>1 DEF Line
      <4>. QED
        BY <2>1, <2>4, <3>1, <4>2 DEF AnswerArrives, Log
    <3>2. CASE req.kind # "call"
      BY <2>1, <2>4, <3>2 DEF AnswerArrives
    <3>. QED
      BY <3>1, <3>2
  <2>5. ASSUME NEW u \in Uri, NEW c \in Scope, ReceiveRead(u, c)
        PROVE  audit' \in Seq(Line)
    <3>. DEFINE r == [kind |-> "read", id |-> nread + 1, scope |-> c, uri |-> u]
                new == Fresh(c, ResourceLabels(u))
    <3>1. r \in ReadRequest /\ req' = r
      BY <2>5 DEF ReceiveRead, Receive, ReadRequest, LoopTypeOK
    <3>2. new \in SUBSET Label
      BY ResourceLabelsType DEF Fresh, Stains
    <3>3. [kind |-> "call", request |-> r, decision |-> Allowed, labels |-> new] \in Line
      BY <3>1, <3>2, AllowedType DEF Line
    <3>. QED
      BY <2>1, <2>5, <3>1, <3>3 DEF ReceiveRead, Log
  <2>. QED
    BY <2>1, <2>2, <2>3, <2>4, <2>5, AuditFrame
<1>. QED
  BY <1>1, <1>2, <1>3, <1>4 DEF RecordTypeOK

(***************************************************************************)
(* The engine's state, and what each server returned last.                 *)
(***************************************************************************)
LEMMA ListingTypes ==
  ASSUME at \in DOMAIN Order, NEW L, ListTools(L)
  PROVE  /\ Order[at] \in Server
         /\ DOMAIN L \subseteq Tool
         /\ \A t \in DOMAIN L : L[t] \in Def
<1>1. Order[at] \in Server /\ L \in Listings[Order[at]]
  BY OrderFacts DEF ListTools
<1>2. L \in UNION {[S -> Def] : S \in SUBSET Tool}
  <2>1. \A s \in Server : Listings[s] \subseteq UNION {[S -> Def] : S \in SUBSET Tool}
    BY GatewayAssumption
  <2>. QED
    BY <1>1, <2>1
<1>3. PICK S \in SUBSET Tool : L \in [S -> Def]
  BY <1>2
<1>. QED
  BY <1>1, <1>3

LEMMA EngineTypeStep ==
  ASSUME EngineTypeOK, LoopTypeOK, at \in DOMAIN Order, [Next]_vars
  PROVE  EngineTypeOK'
<1>1. CASE UNCHANGED engineVars
  BY <1>1 DEF engineVars, EngineTypeOK
<1>2. CASE RecordCall
  <2>1. req \in CallRequest /\ Record(req.scope, req.server, req.tool)
    BY <1>2 DEF RecordCall, LoopTypeOK, AtCall
  <2>2. req.scope \in Scope /\ req.tool \in Tool
    BY <2>1 DEF CallRequest
  <2>. QED
    BY <2>1, <2>2, LookupType, StainFacts DEF Record
<1>3. ASSUME NEW L, ListTools(L)
      PROVE  EngineTypeOK'
  <2>1. CheckPins(Order[at], L) /\ UNCHANGED <<calls, seen>> /\ Order[at] \in Server
    BY <1>3, ListingTypes DEF ListTools, Screen
  <2>. QED
    BY <2>1, CheckPinsFacts DEF AnyServer
<1>4. ASSUME NEW u \in Uri, NEW c \in Scope, ReceiveRead(u, c)
      PROVE  EngineTypeOK'
  BY <1>4, ResourceLabelsType, StainFacts DEF ReceiveRead, RecordResource
<1>. QED
  BY <1>1, <1>2, <1>3, <1>4, EngineFrame

LEMMA ShownTypeStep ==
  ASSUME ShownTypeOK, at \in DOMAIN Order, [Next]_vars
  PROVE  ShownTypeOK'
<1>1. CASE UNCHANGED shown
  BY <1>1 DEF ShownTypeOK
<1>2. ASSUME NEW L, ListTools(L)
      PROVE  ShownTypeOK'
  <2>. DEFINE s == Order[at]
              now == [t \in Tool |-> IF t \in DOMAIN L THEN L[t] ELSE shown[s][t]]
  <2>1. s \in Server /\ \A t \in DOMAIN L : L[t] \in Def
    BY <1>2, ListingTypes
  <2>2. now \in [Tool -> Def \cup {NoDef}]
    BY <2>1 DEF ShownTypeOK
  <2>3. shown' = [shown EXCEPT ![s] = now]
    BY <1>2, <2>1 DEF ListTools, Screen, ShownTypeOK
  <2>. QED
    BY <2>1, <2>2, <2>3 DEF ShownTypeOK
<1>. QED
  BY <1>1, <1>2, RecordFrame

(***************************************************************************)
(* The server a read is for: ownerOf found one, and none is lost while the *)
(* read waits to be forwarded.                                             *)
(***************************************************************************)
OwnedInv == OnItsWay /\ req.kind = "read" => HasOwner(req.uri)

LEMMA OwnersStay ==
  ASSUME RouteInv, at \in DOMAIN Order, [Next]_vars, NEW u \in Uri, HasOwner(u)
  PROVE  resOwner'[u] # NoServer \/ Prefixes(u) # {}
<1>1. CASE UNCHANGED resOwner
  BY <1>1 DEF HasOwner
<1>2. ASSUME NEW U, ListResources(U)
      PROVE  resOwner[u] # NoServer => resOwner'[u] # NoServer
  BY <1>2, OrderFacts, PolicyNames DEF ListResources
<1>. QED
  BY <1>1, <1>2, RouteFrame DEF HasOwner

\* A request is on its way only if it was, or has just been read or recorded.
LEMMA OnItsWayFrame ==
  ASSUME [Next]_vars, OnItsWay'
  PROVE  \/ OnItsWay /\ UNCHANGED <<req, verdict>>
         \/ \E u \in Uri, c \in Scope : ReceiveRead(u, c)
         \/ \E s \in Server : ReceivePromptsGet(s)
         \/ RecordCall
BY DEF Next, vars, historyVars, loopVars, Requests, Answers, Failures, Handler,
       Holds, LetsGo, Halted, ServeOther, ReceiveToolsList, ReceiveResourcesList, Receive, Finish, ReceiveCall,
       ReceiveUnowned, ReceivePromptsList, StreamEnds, ListTools, ListNext,
       ListToolsFails, ProbeSucceeds, ProbeFails, CloseAll, JudgeCall,
       ListResources, ListResourcesFails, ListPrompts, Forward,
       AnswerArrives, CallFails, DialUpstream, DialFails, OnItsWay

LEMMA OwnedStep ==
  ASSUME LoopTypeOK, OwnedInv, RouteInv, at \in DOMAIN Order, [Next]_vars
  PROVE  OwnedInv'
<1>. SUFFICES ASSUME OnItsWay', req'.kind = "read"
              PROVE  resOwner'[req'.uri] # NoServer \/ Prefixes(req'.uri) # {}
  BY DEF OwnedInv, HasOwner, Prefixes
<1>1. CASE OnItsWay /\ UNCHANGED req
  <2>1. req.uri \in Uri /\ HasOwner(req.uri)
    BY <1>1 DEF OwnedInv, LoopTypeOK, CallRequest, ReadRequest, PromptRequest
  <2>. QED
    BY <1>1, <2>1, OwnersStay
<1>2. ASSUME NEW u \in Uri, NEW c \in Scope, ReceiveRead(u, c)
      PROVE  resOwner'[req'.uri] # NoServer \/ Prefixes(req'.uri) # {}
  BY <1>2 DEF ReceiveRead, Receive, HasOwner
<1>3. \/ OnItsWay /\ UNCHANGED req
      \/ \E u \in Uri, c \in Scope : ReceiveRead(u, c)
      \/ \E s \in Server : ReceivePromptsGet(s)
      \/ RecordCall
  BY OnItsWayFrame
<1>4. CASE \E s \in Server : ReceivePromptsGet(s)
  BY <1>4 DEF ReceivePromptsGet, Receive
<1>5. CASE RecordCall
  BY <1>5 DEF RecordCall, LoopTypeOK, AtCall, CallRequest
<1>. QED
  BY <1>1, <1>2, <1>3, <1>4, <1>5

LEMMA TypeInvInit == Init => TypeInv /\ OwnedInv
<1>. SUFFICES ASSUME Init PROVE TypeInv /\ OwnedInv
  OBVIOUS
<1>1. UpInv /\ RouteInv
  BY UpInvInit, RouteInvInit
<1>2. EngineTypeOK
  BY EngineInitFacts DEF Init
<1>3. LoopTypeOK /\ HeldTypeOK /\ OwnedInv
  BY AllowedType DEF Init, LoopTypeOK, HeldTypeOK, OwnedInv, Places, AtCall, OnItsWay
<1>4. RecordTypeOK
  BY DEF Init, RecordTypeOK
<1>5. ShownTypeOK
  BY DEF Init, ShownTypeOK
<1>. QED
  BY <1>1, <1>2, <1>3, <1>4, <1>5 DEF TypeInv, Typed

LEMMA TypeInvStep == TypeInv /\ OwnedInv /\ [Next]_vars => (TypeInv /\ OwnedInv)'
<1>. SUFFICES ASSUME TypeInv, OwnedInv, [Next]_vars PROVE (TypeInv /\ OwnedInv)'
  OBVIOUS
<1>1. /\ EngineTypeOK /\ LoopTypeOK /\ HeldTypeOK /\ RecordTypeOK /\ ShownTypeOK /\ UpInv /\ RouteInv
      /\ at \in DOMAIN Order
  BY DEF TypeInv, Typed, UpInv
<1>2. UpInv' /\ RouteInv'
  BY <1>1, UpInvStep, RouteInvStep
<1>3. EngineTypeOK' /\ LoopTypeOK' /\ ShownTypeOK' /\ OwnedInv'
  BY <1>1, EngineTypeStep, LoopTypeStep, ShownTypeStep, OwnedStep
<1>4. RecordTypeOK'
  BY <1>1, RecordTypeStep DEF OwnedInv
<1>5. HeldTypeOK'
  BY <1>1, HeldFrame DEF HeldTypeOK, Holds, LetsGo
<1>. QED
  BY <1>2, <1>3, <1>4, <1>5 DEF TypeInv, Typed

(***************************************************************************)
(* For every policy, any number of requests and whatever the servers say,  *)
(* the gateway's variables keep their types: among them, that every        *)
(* request forwarded goes to a server the policy names.                    *)
(***************************************************************************)
THEOREM TypeCorrect == Spec => []TypeOK
BY TypeInvInit, TypeInvStep, TypeInvIsType, PTL DEF Spec

-----------------------------------------------------------------------------
(***************************************************************************)
(* Pins.  The engine keeps of a pinned tool what screen saw last, under    *)
(* the server's own key, so "ok" says that what the server returned last   *)
(* matches; and a call past its verdict was judged by it, with no listing  *)
(* since, for Serve does one thing at a time.                              *)
(***************************************************************************)
PinInv == \A s \in Server, t \in Tool :
            pins[<<s, t>>] = "ok" => Pinned(s, t) /\ Current(s, t)

LEMMA PinInvStep ==
  ASSUME EngineTypeOK, LoopTypeOK, ShownTypeOK, at \in DOMAIN Order, PinInv, [Next]_vars
  PROVE  PinInv'
<1>1. ASSUME NEW L, ListTools(L)
      PROVE  PinInv'
  <2>. DEFINE z == Order[at]
  <2>1. /\ z \in Server /\ DOMAIN L \subseteq Tool
        /\ \A t \in DOMAIN L : L[t] \in Def
    BY <1>1, ListingTypes
  <2>2. /\ pins' = [k \in Key |->
                      IF k[1] = z /\ k[2] \in DOMAIN L /\ Pinned(z, k[2])
                      THEN IF Matches(z, k[2], L[k[2]]) THEN "ok" ELSE "mismatch"
                      ELSE pins[k]]
        /\ shown' = [shown EXCEPT ![z] =
                       [t \in Tool |-> IF t \in DOMAIN L THEN L[t] ELSE @[t]]]
    BY <1>1 DEF ListTools, Screen, CheckPins
  <2>. SUFFICES ASSUME NEW s \in Server, NEW t \in Tool, pins'[<<s, t>>] = "ok"
                PROVE  Pinned(s, t) /\ shown'[s][t] # NoDef /\ Matches(s, t, shown'[s][t])
    BY DEF PinInv, Current, Pinned, Matches
  <2>3. <<s, t>> \in Key
    BY DEF Key
  <2>4. CASE s = z /\ t \in DOMAIN L
    <3>1. shown'[s][t] = L[t] /\ L[t] # NoDef
      BY <2>1, <2>2, <2>4, GatewayAssumption DEF ShownTypeOK
    <3>2. CASE Pinned(s, t)
      BY <2>2, <2>3, <2>4, <3>1, <3>2
    <3>3. CASE ~Pinned(s, t)
      BY <2>2, <2>3, <2>4, <3>3 DEF PinInv
    <3>. QED
      BY <3>2, <3>3
  <2>5. CASE ~(s = z /\ t \in DOMAIN L)
    <3>1. shown'[s][t] = shown[s][t] /\ pins'[<<s, t>>] = pins[<<s, t>>]
      BY <2>1, <2>2, <2>3, <2>5 DEF ShownTypeOK
    <3>. QED
      BY <3>1 DEF PinInv, Current
  <2>. QED
    BY <2>4, <2>5
<1>2. CASE UNCHANGED <<pins, shown>>
  BY <1>2 DEF PinInv, Current, Pinned, Matches
<1>3. UNCHANGED <<pins, shown>> \/ \E L : ListTools(L)
  <2>1. RecordCall \/ (\E u \in Uri, c \in Scope : ReceiveRead(u, c)) => UNCHANGED pins
    BY DEF RecordCall, ReceiveRead, Record, RecordResource, Stain
  <2>. QED
    BY <2>1, EngineFrame, RecordFrame DEF engineVars
<1>. QED
  BY <1>1, <1>2, <1>3

\* A call is past its verdict only if it was, or has just been allowed.
Past == pc \in {"recording", "forwarding", "waiting"} /\ req.kind = "call"

LEMMA ShownAtListing ==
  ASSUME [Next]_vars, pc # "listing tools"
  PROVE  UNCHANGED shown
BY RecordFrame DEF ListTools

LEMMA PastFrame ==
  ASSUME LoopTypeOK, [Next]_vars, Past'
  PROVE  \/ Past /\ UNCHANGED <<req, shown>>
         \/ JudgeCall /\ pc' = "recording" /\ UNCHANGED <<req, shown>>
              /\ ~Blocked(Decide(req.scope, req.server, req.tool, req.arg))
<1>1. CASE OnItsWay'
  <2>1. CASE OnItsWay /\ UNCHANGED <<req, verdict>>
    BY <1>1, <2>1, ShownAtListing DEF Past, OnItsWay
  <2>2. CASE RecordCall
    BY <1>1, <2>2 DEF RecordCall, Past
  <2>3. ASSUME NEW u \in Uri, NEW c \in Scope, ReceiveRead(u, c)
        PROVE  FALSE
    BY <2>3 DEF ReceiveRead, Receive, Past
  <2>4. ASSUME NEW s \in Server, ReceivePromptsGet(s)
        PROVE  FALSE
    BY <2>4 DEF ReceivePromptsGet, Receive, Past
  <2>. QED
    BY <1>1, <2>1, <2>2, <2>3, <2>4, OnItsWayFrame
<1>2. CASE pc' = "recording"
  <2>1. (pc = "recording" /\ UNCHANGED <<req, shown>>) \/ JudgeCall
    BY <1>2 DEF Next, vars, historyVars, loopVars, Requests, Answers, Failures, Handler,
       Holds, LetsGo, Halted, ServeOther, ReceiveToolsList, ReceiveResourcesList, Receive, Finish, ReceiveCall,
       ReceiveRead, ReceivePromptsGet,
       ReceiveUnowned, ReceivePromptsList, StreamEnds, ListTools, ListNext,
       ListToolsFails, ProbeSucceeds, ProbeFails, CloseAll, RecordCall,
       ListResources, ListResourcesFails, ListPrompts, Forward,
       AnswerArrives, CallFails, DialUpstream, DialFails
  <2>2. CASE JudgeCall
    BY <1>2, <2>2 DEF JudgeCall, Finish
  <2>. QED
    BY <1>2, <2>1, <2>2 DEF Past
<1>. QED
  BY <1>1, <1>2 DEF Past, OnItsWay

ClearedInv == PinInv /\ PinnedCallsCleared

LEMMA ClearedInvStep ==
  ASSUME EngineTypeOK, LoopTypeOK, ShownTypeOK, at \in DOMAIN Order, ClearedInv, [Next]_vars
  PROVE  ClearedInv'
<1>1. PinInv'
  BY PinInvStep DEF ClearedInv
<1>2. ASSUME Enforced, Past', PinsGate(req'.server, req'.tool)
      PROVE  /\ shown'[req'.server][req'.tool] # NoDef
             /\ Matches(req'.server, req'.tool, shown'[req'.server][req'.tool])
  <2>1. CASE Past /\ UNCHANGED <<req, shown>>
    BY <1>2, <2>1 DEF ClearedInv, PinnedCallsCleared, Past, Current
  <2>2. CASE JudgeCall /\ UNCHANGED <<req, shown>>
               /\ ~Blocked(Decide(req.scope, req.server, req.tool, req.arg))
    <3>1. req.server \in Server /\ req.tool \in Tool
      BY <2>2 DEF JudgeCall, LoopTypeOK, AtCall, CallRequest
    <3>2. PinsGate(req.server, req.tool)
      BY <1>2, <2>2
    <3>3. ~Offline /\ Enforced
      BY <1>2, GatewayAssumption
    <3>4. pins[<<req.server, req.tool>>] = "ok"
      BY <2>2, <3>2, <3>3, DecideFacts
    <3>5. Current(req.server, req.tool)
      BY <3>1, <3>4 DEF ClearedInv, PinInv
    <3>. QED
      BY <2>2, <3>5 DEF Current
  <2>. QED
    BY <1>2, <2>1, <2>2, PastFrame
<1>3. PinnedCallsCleared'
  BY <1>2 DEF PinnedCallsCleared, Past, Current, PinsGate, Pinned, Enforced, Matches
<1>. QED
  BY <1>1, <1>3 DEF ClearedInv

(***************************************************************************)
(* In enforce mode a call of a pinned tool is on its way only while what   *)
(* its own server returned last matches the pin.                           *)
(***************************************************************************)
THEOREM PinnedCallsClearedHolds == Spec => []PinnedCallsCleared
<1>1. Init => ClearedInv
  BY DEF Init, EngineInit, ClearedInv, PinInv, PinnedCallsCleared, Key
<1>2. TypeInv => EngineTypeOK /\ LoopTypeOK /\ ShownTypeOK /\ at \in DOMAIN Order
  BY DEF TypeInv, Typed, UpInv
<1>3. TypeInv /\ OwnedInv /\ ClearedInv /\ [Next]_vars => (TypeInv /\ OwnedInv /\ ClearedInv)'
  BY <1>2, TypeInvStep, ClearedInvStep
<1>4. ClearedInv => PinnedCallsCleared
  BY DEF ClearedInv
<1>. QED
  BY <1>1, <1>3, <1>4, TypeInvInit, PTL DEF Spec

-----------------------------------------------------------------------------
(***************************************************************************)
(* The flow.  A scope carries what was released in it, and what the        *)
(* request in hand brings once it is recorded; a call past its verdict     *)
(* breaks no rule after what was released; and the number of a request     *)
(* that may be refused is not that of one refused before.                  *)
(***************************************************************************)
InHand(c) == IF pc = "forwarding" /\ EventOf(req).scope = c
             THEN Stains(EventOf(req).labels) ELSE {}

ScopesCarry == \A c \in Scope : Carried(c) = Wall!CarriedIn(c) \cup InHand(c)

PassedBreaksNothing ==
    Enforced /\ pc \in {"recording", "forwarding"} /\ req.kind = "call"
        => ~Wall!Forbidden(EventOf(req))

RefusedOnce ==
    /\ \A r \in refused : r.id <= nread
    /\ AtCall => req.id <= nread /\ \A r \in refused : r.id # req.id

\* The event a request stands for is the same in every state.
LEMMA EventsStay ==
  ASSUME NEW r
  PROVE  EventOf(r)' = EventOf(r)
BY DEF EventOf, Labels, Restricted, PinsGate, Pinned

LEMMA CallEvents ==
  ASSUME NEW r \in CallRequest
  PROVE  /\ EventOf(r).id = r.id /\ EventOf(r).scope = r.scope /\ EventOf(r).exit
         /\ EventOf(r).labels = Lookup(r.server, r.tool).labels
         /\ EventOf(r).restricted <=>
              \/ ~Known(r.server, r.tool) /\ UnknownTools = ActionDeny
              \/ Lookup(r.server, r.tool).deny
              \/ PinsGate(r.server, r.tool)
              \/ BreaksArgs(Lookup(r.server, r.tool), r.arg)
<1>1. r.kind = "call" /\ r.server \in Server /\ r.tool \in Tool /\ r.arg \in Arg
  BY DEF CallRequest
<1>2. EventOf(r).restricted <=> Restricted[r.server][r.tool][r.arg]
  BY <1>1 DEF EventOf
<1>. QED
  BY <1>1, <1>2 DEF EventOf, Labels, Restricted

\* What a step that forwards a request adds to what the released ones carry.
LEMMA WallCarriesMore ==
  ASSUME NEW S, released \in Seq(S), NEW e, released' = Append(released, e), NEW c
  PROVE  Wall!CarriedIn(c)' =
           Wall!CarriedIn(c) \cup (IF EventOf(e.request).scope = c
                                   THEN Stains(EventOf(e.request).labels) ELSE {})
<1>. DEFINE n == Len(released) + 1
            Brings(i, q, l) == /\ EventOf(q[i].request).scope = c
                               /\ l \in EventOf(q[i].request).labels \ {LabelSink}
<1>1. \A l : l \in Wall!CarriedIn(c) <=> \E i \in DOMAIN released : Brings(i, released, l)
  BY DEF Wall!CarriedIn
<1>2. \A l : l \in Wall!CarriedIn(c)' <=> \E i \in DOMAIN released' : Brings(i, released', l)
  BY EventsStay DEF Wall!CarriedIn
<1>3. /\ DOMAIN released' = DOMAIN released \cup {n}
      /\ \A i \in DOMAIN released : released'[i] = released[i]
      /\ released'[n] = e
  OBVIOUS
<1>4. \A l : l \in Wall!CarriedIn(c)' <=>
               \/ \E i \in DOMAIN released : Brings(i, released, l)
               \/ EventOf(e.request).scope = c /\ l \in EventOf(e.request).labels \ {LabelSink}
  BY <1>2, <1>3
<1>. QED
  BY <1>1, <1>4 DEF Stains

LEMMA WallCarriesSame ==
  ASSUME UNCHANGED released, NEW c
  PROVE  Wall!CarriedIn(c)' = Wall!CarriedIn(c)
BY EventsStay DEF Wall!CarriedIn

LEMMA FlowFrame ==
  ASSUME [Next]_vars
  PROVE  \/ RecordCall \/ Forward
         \/ \E u \in Uri, c \in Scope : ReceiveRead(u, c)
         \/ \E s \in Server : ReceivePromptsGet(s)
         \/ /\ UNCHANGED released
            /\ UNCHANGED engineVars \/ \E L : ListTools(L)
            /\ \/ UNCHANGED <<pc, req>>
               \/ pc # "forwarding" /\ pc' # "forwarding"
<1>1. RecordCall \/ Forward \/ (\E u \in Uri, c \in Scope : ReceiveRead(u, c))
        \/ (\E s \in Server : ReceivePromptsGet(s))
        \/ UNCHANGED <<pc, req>> \/ (pc # "forwarding" /\ pc' # "forwarding")
  BY DEF Next, vars, historyVars, loopVars, Requests, Answers, Failures, Handler,
       Holds, LetsGo, Halted, ServeOther, ReceiveToolsList, ReceiveResourcesList, Receive, Finish, ReceiveCall,
       ReceiveUnowned, ReceivePromptsList, StreamEnds, ListTools, ListNext,
       ListToolsFails, ProbeSucceeds, ProbeFails, CloseAll, JudgeCall,
       ListResources, ListResourcesFails, ListPrompts,
       AnswerArrives, CallFails, DialUpstream, DialFails
<1>. QED
  BY <1>1, EngineFrame, RecordFrame

LEMMA ScopesCarryStep ==
  ASSUME EngineTypeOK, LoopTypeOK, RecordTypeOK, ScopesCarry, [Next]_vars
  PROVE  ScopesCarry'
<1>. SUFFICES ASSUME NEW c \in Scope
              PROVE  Carried(c)' = Wall!CarriedIn(c)' \cup InHand(c)'
  BY DEF ScopesCarry
<1>0. Carried(c) = Wall!CarriedIn(c) \cup InHand(c)
  BY DEF ScopesCarry
<1>1. CASE RecordCall
  <2>1. /\ req \in CallRequest /\ pc = "recording" /\ pc' = "forwarding"
        /\ UNCHANGED <<req, released>> /\ Record(req.scope, req.server, req.tool)
    BY <1>1 DEF RecordCall, LoopTypeOK, AtCall
  <2>2. req.scope \in Scope /\ req.tool \in Tool
    BY <2>1 DEF CallRequest
  <2>3. Carried(c)' = Carried(c) \cup
            (IF req.scope = c THEN Stains(Lookup(req.server, req.tool).labels) ELSE {})
    BY <2>1, <2>2, LookupType, StainFacts DEF Record
  <2>4. InHand(c)' = IF req.scope = c THEN Stains(Lookup(req.server, req.tool).labels) ELSE {}
    BY <2>1, CallEvents, EventsStay DEF InHand, Stains
  <2>5. InHand(c) = {}
    BY <2>1 DEF InHand
  <2>. QED
    BY <1>0, <2>1, <2>3, <2>4, <2>5, WallCarriesSame
<1>2. ASSUME NEW u \in Uri, NEW z \in Scope, ReceiveRead(u, z)
      PROVE  Carried(c)' = Wall!CarriedIn(c)' \cup InHand(c)'
  <2>1. PICK r : r = [kind |-> "read", id |-> nread + 1, scope |-> z, uri |-> u]
    OBVIOUS
  <2>2. /\ pc = "idle" /\ pc' = "forwarding" /\ req' = r
        /\ UNCHANGED released /\ RecordResource(z, u)
    BY <1>2, <2>1 DEF ReceiveRead, Receive
  <2>3. EventOf(r).scope = z /\ EventOf(r).labels = ResourceLabels(u)
    BY <2>1 DEF EventOf, Labels
  <2>4. Carried(c)' = Carried(c) \cup (IF z = c THEN Stains(ResourceLabels(u)) ELSE {})
    BY <2>2, ResourceLabelsType, StainFacts DEF RecordResource
  <2>5. InHand(c)' = IF z = c THEN Stains(ResourceLabels(u)) ELSE {}
    BY <2>2, <2>3, EventsStay DEF InHand, Stains
  <2>6. InHand(c) = {}
    BY <2>2 DEF InHand
  <2>. QED
    BY <1>0, <2>2, <2>4, <2>5, <2>6, WallCarriesSame
<1>3. ASSUME NEW s \in Server, ReceivePromptsGet(s)
      PROVE  Carried(c)' = Wall!CarriedIn(c)' \cup InHand(c)'
  <2>1. PICK r : r = [kind |-> "prompt", id |-> nread + 1, server |-> s]
    OBVIOUS
  <2>2. pc = "idle" /\ req' = r /\ UNCHANGED <<released, seen>>
    BY <1>3, <2>1 DEF ReceivePromptsGet, Receive, engineVars, historyVars
  <2>3. EventOf(r).labels = {}
    BY <2>1 DEF EventOf
  <2>4. InHand(c) = {} /\ InHand(c)' = {}
    BY <2>2, <2>3, EventsStay DEF InHand, Stains
  <2>. QED
    BY <1>0, <2>2, <2>4, WallCarriesSame DEF Carried
<1>4. CASE Forward
  <2>. DEFINE e == [request |-> req,
                    to |-> IF req.kind = "read" THEN OwnerOf(req.uri) ELSE req.server]
  <2>1. pc = "forwarding" /\ pc' = "waiting" /\ UNCHANGED seen
        /\ released' = Append(released, e)
    BY <1>4 DEF Forward, engineVars
  <2>2. Wall!CarriedIn(c)' = Wall!CarriedIn(c) \cup InHand(c)
    BY <2>1, WallCarriesMore DEF RecordTypeOK, InHand
  <2>3. InHand(c)' = {}
    BY <2>1 DEF InHand
  <2>. QED
    BY <1>0, <2>1, <2>2, <2>3 DEF Carried
<1>5. CASE /\ UNCHANGED released
           /\ UNCHANGED engineVars \/ \E L : ListTools(L)
           /\ UNCHANGED <<pc, req>> \/ (pc # "forwarding" /\ pc' # "forwarding")
  <2>1. Carried(c)' = Carried(c)
    BY <1>5 DEF engineVars, ListTools, Screen, Carried
  <2>2. InHand(c)' = InHand(c)
    BY <1>5, EventsStay DEF InHand, Stains
  <2>. QED
    BY <1>0, <1>5, <2>1, <2>2, WallCarriesSame
<1>. QED
  BY <1>1, <1>2, <1>3, <1>4, <1>5, FlowFrame

LEMMA ForbiddenSame ==
  ASSUME UNCHANGED released, NEW r
  PROVE  Wall!Forbidden(EventOf(r))' <=> Wall!Forbidden(EventOf(r))
<1>1. EventOf(r)' = EventOf(r)
  BY EventsStay
<1>2. Wall!CarriedIn(EventOf(r).scope)' = Wall!CarriedIn(EventOf(r).scope)
  BY <1>1, WallCarriesSame
<1>. QED
  BY <1>1, <1>2 DEF Wall!Forbidden

\* A verdict reads the scope, which carries what was released in it.
LEMMA VerdictForbids ==
  ASSUME ScopesCarry, pc = "judging", req \in CallRequest
  PROVE  Wall!Forbidden(EventOf(req)) <=>
           Broken(req.scope, Lookup(req.server, req.tool).labels) # {}
<1>1. req.scope \in Scope /\ Carried(req.scope) = Wall!CarriedIn(req.scope)
  BY DEF ScopesCarry, InHand, CallRequest
<1>2. EventOf(req).scope = req.scope /\ EventOf(req).labels = Lookup(req.server, req.tool).labels
  BY CallEvents
<1>. QED
  BY <1>1, <1>2 DEF Wall!Forbidden, Broken

LEMMA PassedStep ==
  ASSUME LoopTypeOK, ScopesCarry, PassedBreaksNothing, [Next]_vars
  PROVE  PassedBreaksNothing'
<1>. SUFFICES ASSUME Enforced, pc' \in {"recording", "forwarding"}, req'.kind = "call"
              PROVE  ~Wall!Forbidden(EventOf(req))'
  BY DEF PassedBreaksNothing, Enforced
<1>1. pc # "waiting" /\ UNCHANGED released
  BY DEF Next, vars, historyVars, loopVars, Requests, Answers, Failures, Handler,
       Holds, LetsGo, Halted, ServeOther, ReceiveToolsList, ReceiveResourcesList, Receive, Finish, ReceiveCall,
       ReceiveRead, ReceivePromptsGet, RecordCall, Forward,
       ReceiveUnowned, ReceivePromptsList, StreamEnds, ListTools, ListNext,
       ListToolsFails, ProbeSucceeds, ProbeFails, CloseAll, JudgeCall,
       ListResources, ListResourcesFails, ListPrompts,
       AnswerArrives, CallFails, DialUpstream, DialFails
<1>2. UNCHANGED req
  BY PastFrame DEF Past
<1>3. ~Wall!Forbidden(EventOf(req))
  <2>1. CASE Past
    BY <1>1, <2>1 DEF Past, PassedBreaksNothing
  <2>2. CASE JudgeCall /\ ~Blocked(Decide(req.scope, req.server, req.tool, req.arg))
    <3>1. pc = "judging" /\ req \in CallRequest
      BY <2>2 DEF JudgeCall, LoopTypeOK, AtCall
    <3>. QED
      BY <2>2, <3>1, VerdictForbids, DecideFacts, GatewayAssumption
  <2>. QED
    BY <2>1, <2>2, PastFrame DEF Past
<1>. QED
  BY <1>1, <1>2, <1>3, ForbiddenSame, EventsStay

LEMMA NumberFrame ==
  ASSUME [Next]_vars
  PROVE  \/ JudgeCall
         \/ \E s \in Server, t \in Tool, c \in Scope, a \in Arg : ReceiveCall(s, t, c, a)
         \/ /\ UNCHANGED refused
            /\ UNCHANGED nread \/ nread' = nread + 1
            /\ (UNCHANGED req /\ AtCall) \/ ~AtCall'
BY DEF Next, vars, historyVars, loopVars, Requests, Answers, Failures, Handler,
       Holds, LetsGo, Halted, ServeOther, ReceiveToolsList, ReceiveResourcesList, Receive, Finish,
       ReceiveRead, ReceivePromptsGet, RecordCall, Forward,
       ReceiveUnowned, ReceivePromptsList, StreamEnds, ListTools, ListNext,
       ListToolsFails, ProbeSucceeds, ProbeFails, CloseAll,
       ListResources, ListResourcesFails, ListPrompts,
       AnswerArrives, CallFails, DialUpstream, DialFails, AtCall

LEMMA RefusedOnceStep ==
  ASSUME LoopTypeOK, RecordTypeOK, RefusedOnce, [Next]_vars
  PROVE  RefusedOnce'
<1>0. nread \in Nat /\ \A r \in refused : r.id \in Nat
  BY DEF LoopTypeOK, RecordTypeOK, CallRequest
<1>1. CASE JudgeCall
  <2>1. req \in CallRequest /\ AtCall /\ UNCHANGED nread
    BY <1>1 DEF JudgeCall, LoopTypeOK, AtCall
  <2>2. CASE refused' = refused \cup {req} /\ Finish
    BY <2>1, <2>2 DEF RefusedOnce, Finish, AtCall
  <2>3. CASE UNCHANGED <<refused, req>>
    BY <2>1, <2>3 DEF RefusedOnce, AtCall
  <2>. QED
    BY <1>1, <2>2, <2>3 DEF JudgeCall
<1>2. ASSUME NEW s \in Server, NEW t \in Tool, NEW c \in Scope, NEW a \in Arg,
             ReceiveCall(s, t, c, a)
      PROVE  RefusedOnce'
  <2>1. req'.id = nread + 1 /\ nread' = nread + 1 /\ UNCHANGED refused
    BY <1>2 DEF ReceiveCall, Receive, historyVars
  <2>. QED
    BY <1>0, <2>1 DEF RefusedOnce
<1>3. CASE /\ UNCHANGED refused
           /\ UNCHANGED nread \/ nread' = nread + 1
           /\ (UNCHANGED req /\ AtCall) \/ ~AtCall'
  <2>1. AtCall => req.id \in Nat
    BY DEF LoopTypeOK, CallRequest
  <2>. QED
    BY <1>0, <1>3, <2>1 DEF RefusedOnce
<1>. QED
  BY <1>1, <1>2, <1>3, NumberFrame

FlowInv == ScopesCarry /\ PassedBreaksNothing /\ RefusedOnce

LEMMA FlowInvInit == Init => FlowInv
<1>. SUFFICES ASSUME Init PROVE FlowInv
  OBVIOUS
<1>1. \A c \in Scope : Carried(c) = {}
  BY EngineInitFacts DEF Init
<1>2. released = <<>> /\ refused = {} /\ pc = "dialing"
  BY DEF Init
<1>3. \A c : Wall!CarriedIn(c) = {} /\ InHand(c) = {}
  BY <1>2 DEF Wall!CarriedIn, InHand
<1>. QED
  BY <1>1, <1>2, <1>3 DEF FlowInv, ScopesCarry, PassedBreaksNothing, RefusedOnce, AtCall

LEMMA FlowInvStep ==
  ASSUME EngineTypeOK, LoopTypeOK, RecordTypeOK, FlowInv, [Next]_vars
  PROVE  FlowInv'
BY ScopesCarryStep, PassedStep, RefusedOnceStep DEF FlowInv

-----------------------------------------------------------------------------
(***************************************************************************)
(* Refinement.  Forwarding a request is FlowWall's Release, and a verdict  *)
(* that blocks a call its Refuse; every other step is a stutter.           *)
(***************************************************************************)
LEMMA WallInit == Init => Wall!Init
<1>. SUFFICES ASSUME Init PROVE Wall!Init
  OBVIOUS
<1>1. released = <<>> /\ refused = {}
  BY DEF Init
<1>2. [i \in DOMAIN released |-> EventOf(released[i].request)] = <<>>
  BY <1>1
<1>. QED
  BY <1>1, <1>2 DEF Wall!Init

LEMMA WallStep ==
  ASSUME LoopTypeOK, RecordTypeOK, FlowInv, [Next]_vars
  PROVE  [Wall!Next]_<<[i \in DOMAIN released |-> EventOf(released[i].request)],
                       {EventOf(r) : r \in refused}>>
<1>. DEFINE rel == [i \in DOMAIN released |-> EventOf(released[i].request)]
            ref == {EventOf(r) : r \in refused}
<1>e. \A r : EventOf(r)' = EventOf(r)
  BY EventsStay
<1>1. CASE UNCHANGED <<released, refused>>
  BY <1>1, <1>e
<1>2. CASE JudgeCall /\ refused' # refused
  <2>1. /\ UNCHANGED released /\ refused' = refused \cup {req}
        /\ Blocked(Decide(req.scope, req.server, req.tool, req.arg))
        /\ pc = "judging" /\ AtCall /\ req \in CallRequest
    BY <1>2 DEF JudgeCall, LoopTypeOK, AtCall
  <2>. DEFINE e == EventOf(req)
  <2>2. e \notin ref
    <3>1. \A r \in refused : r.id # req.id /\ EventOf(r).id = r.id
      BY <2>1 DEF FlowInv, RefusedOnce, EventOf
    <3>. QED
      BY <2>1, <3>1, CallEvents
  <2>3. ref' = ref \cup {e} /\ rel' = rel
    BY <1>e, <2>1
  <2>4. Enforced /\ (e.restricted \/ Wall!Forbidden(e))
    BY <2>1, VerdictForbids, CallEvents, DecideCause DEF FlowInv, Blocked
  <2>. QED
    BY <2>2, <2>3, <2>4 DEF Wall!Next, Wall!Refuse
<1>3. CASE Forward
  <2>. DEFINE x == [request |-> req,
                    to |-> IF req.kind = "read" THEN OwnerOf(req.uri) ELSE req.server]
              e == EventOf(req)
  <2>1. UNCHANGED refused /\ released' = Append(released, x) /\ pc = "forwarding"
    BY <1>3 DEF Forward
  <2>2. PICK S : released \in Seq(S)
    BY DEF RecordTypeOK
  <2>3. rel' = Append(rel, e) /\ ref' = ref
    BY <1>e, <2>1, <2>2
  <2>4. Len(rel') > Len(rel) /\ rel'[Len(rel')] = e
    BY <2>2, <2>3
  <2>5. Enforced /\ e.exit => ~Wall!Forbidden(e)
    BY <2>1 DEF FlowInv, PassedBreaksNothing, EventOf
  <2>. QED
    BY <2>3, <2>4, <2>5 DEF Wall!Next, Wall!Release
<1>. QED
  BY <1>1, <1>2, <1>3, RecordFrame DEF JudgeCall, Forward

(***************************************************************************)
(* For every policy, any set of servers and any number of requests, what   *)
(* the servers got, all together, and the calls refused are what FlowWall  *)
(* allows.                                                                 *)
(***************************************************************************)
THEOREM ImplementsFlowWallHolds == Spec => ImplementsFlowWall
<1>1. Init => TypeInv /\ OwnedInv /\ FlowInv
  BY TypeInvInit, FlowInvInit
<1>2. TypeInv => EngineTypeOK /\ LoopTypeOK /\ RecordTypeOK
  BY DEF TypeInv, Typed
<1>3. TypeInv /\ OwnedInv /\ FlowInv /\ [Next]_vars => (TypeInv /\ OwnedInv /\ FlowInv)'
  BY <1>2, TypeInvStep, FlowInvStep
<1>. QED
  BY <1>1, <1>2, <1>3, WallInit, WallStep, PTL DEF Spec, ImplementsFlowWall, Wall!Spec

(***************************************************************************)
(* What FlowWall promises, it promises of the traffic of the gateway.      *)
(***************************************************************************)
Inherited == INSTANCE FlowWall_proofs WITH
    released <- [i \in DOMAIN released |-> EventOf(released[i].request)],
    refused  <- {EventOf(r) : r \in refused}

LEMMA SameWall ==
  /\ Wall!Spec => Inherited!Spec
  /\ Inherited!NothingLeaks => Wall!NothingLeaks
  /\ Inherited!NothingRefusedInVain => Wall!NothingRefusedInVain
<1>1. Wall!Init => Inherited!Init
  BY DEF Wall!Init, Inherited!Init
<1>2. Wall!Next <=> Inherited!Next
  BY DEF Wall!Next, Inherited!Next, Wall!Release, Inherited!Release, Wall!Refuse,
         Inherited!Refuse, Wall!Forbidden, Inherited!Forbidden, Wall!CarriedIn,
         Inherited!CarriedIn
<1>3. Inherited!NothingLeaks => Wall!NothingLeaks
  BY DEF Wall!NothingLeaks, Inherited!NothingLeaks, Wall!BroughtBy, Inherited!BroughtBy
<1>4. Inherited!NothingRefusedInVain => Wall!NothingRefusedInVain
  BY DEF Wall!NothingRefusedInVain, Inherited!NothingRefusedInVain, Wall!Forbidden,
         Inherited!Forbidden, Wall!CarriedIn, Inherited!CarriedIn
<1>. QED
  BY <1>1, <1>2, <1>3, <1>4, PTL DEF Wall!Spec, Inherited!Spec

(***************************************************************************)
(* In enforce mode no call reached any server that a rule forbids after    *)
(* the calls and reads that all the servers of its scope got before it;    *)
(* and no call was refused but for what the policy restricts or for a      *)
(* rule that forbids it after what the servers really got.                 *)
(***************************************************************************)
THEOREM WallKept == Spec => [](Wall!NothingLeaks /\ Wall!NothingRefusedInVain)
<1>1. Inherited!Spec => [](Inherited!NothingLeaks /\ Inherited!NothingRefusedInVain)
  BY Inherited!WallHolds
<1>2. Spec => Wall!Spec
  BY ImplementsFlowWallHolds DEF ImplementsFlowWall
<1>. QED
  BY <1>1, <1>2, SameWall, PTL

-----------------------------------------------------------------------------
(***************************************************************************)
(* Tables over 0 .. N whose every entry follows from the one before it:    *)
(* there is one, and two that follow alike are alike.                      *)
(***************************************************************************)
Alike(f, g, N) ==
    N \in Nat /\ f[0] = g[0] /\ \A n \in 1 .. N : f[n - 1] = g[n - 1] => f[n] = g[n]

LEMMA TablesAgree ==
  ASSUME NEW N, NEW f, NEW g, Alike(f, g, N)
  PROVE  \A n \in 0 .. N : f[n] = g[n]
<1>. USE DEF Alike
<1>. DEFINE Bad == {n \in 0 .. N : f[n] # g[n]}
<1>. SUFFICES ASSUME Bad # {} PROVE FALSE
  OBVIOUS
<1>1. Bad \in SUBSET Nat
  OBVIOUS
<1>2. PICK m \in Bad : \A j \in Bad : m <= j
  <2>. HIDE DEF Bad
  <2>. QED
    BY <1>1, FirstIsLeast
<1>3. m \in 1 .. N
  OBVIOUS
<1>4. m - 1 \in 0 .. N /\ m - 1 \notin Bad
  BY <1>2, <1>3
<1>. QED
  BY <1>3, <1>4

Fillable(N, V, start, next) == N \in Nat /\ start \in V /\ next \in [(1 .. N) \X V -> V]

Fills(f, N, start, next) == f[0] = start /\ \A n \in 1 .. N : f[n] = next[<<n, f[n - 1]>>]

LEMMA TableExists ==
  ASSUME NEW N, NEW V, NEW start, NEW next, Fillable(N, V, start, next)
  PROVE  \E f \in [0 .. N -> V] : Fills(f, N, start, next)
<1>. USE DEF Fillable, Fills
<1>. DEFINE Filled(f, m) == f[0] = start /\ \A n \in 1 .. m : f[n] = next[<<n, f[n - 1]>>]
            Bad == {m \in 0 .. N : ~ \E f \in [0 .. m -> V] : Filled(f, m)}
<1>. SUFFICES ASSUME Bad # {} PROVE FALSE
  OBVIOUS
<1>1. Bad \in SUBSET Nat
  OBVIOUS
<1>2. PICK m \in Bad : \A j \in Bad : m <= j
  <2>. HIDE DEF Bad
  <2>. QED
    BY <1>1, FirstIsLeast
<1>3. m # 0
  <2>. DEFINE f0 == [n \in 0 .. 0 |-> start]
  <2>1. f0 \in [0 .. 0 -> V] /\ f0[0] = start /\ 1 .. 0 = {}
    OBVIOUS
  <2>. HIDE DEF f0
  <2>2. Filled(f0, 0)
    BY <2>1
  <2>. QED
    BY <2>1, <2>2
<1>4. m \in 1 .. N /\ m - 1 \in 0 .. N /\ m - 1 \notin Bad
  <2>1. m \in 1 .. N /\ m - 1 \in 0 .. N
    BY <1>3
  <2>. HIDE DEF Bad
  <2>. QED
    BY <1>2, <2>1
<1>5. PICK f \in [0 .. m - 1 -> V] : Filled(f, m - 1)
  BY <1>4
<1>. DEFINE g == [n \in 0 .. m |-> IF n = m THEN next[<<m, f[m - 1]>>] ELSE f[n]]
<1>6. next[<<m, f[m - 1]>>] \in V
  <2>1. f[m - 1] \in V
    BY <1>4
  <2>. QED
    BY <1>4, <2>1
<1>7. /\ g \in [0 .. m -> V]
      /\ g[m] = next[<<m, f[m - 1]>>]
      /\ \A n \in 0 .. m - 1 : g[n] = f[n]
  BY <1>4, <1>6
<1>8. Filled(g, m)
  <2>. HIDE DEF g
  <2>1. g[0] = start
    BY <1>4, <1>5, <1>7
  <2>2. ASSUME NEW n \in 1 .. m PROVE g[n] = next[<<n, g[n - 1]>>]
    <3>1. n - 1 \in 0 .. m - 1 /\ g[n - 1] = f[n - 1]
      BY <1>4, <1>7
    <3>2. CASE n = m
      BY <1>7, <3>1, <3>2
    <3>3. CASE n # m
      <4>1. n \in 1 .. m - 1 /\ n \in 0 .. m - 1 /\ g[n] = f[n]
        BY <1>4, <1>7, <3>3
      <4>. QED
        BY <1>5, <3>1, <4>1
    <3>. QED
      BY <3>2, <3>3
  <2>. QED
    BY <2>1, <2>2
<1>. QED
  BY <1>2, <1>7, <1>8

-----------------------------------------------------------------------------
(***************************************************************************)
(* The engine `explain` runs offline is the gateway's, but for the pins,   *)
(* of which it gives no verdict.                                           *)
(***************************************************************************)
LEMMA OffhandLookup ==
  ASSUME NEW st, NEW s, NEW t
  PROVE  /\ Offhand!Lookup(s, t) = Lookup(s, t)
         /\ Offhand!Engine(st)!Lookup(s, t) = Lookup(s, t)
         /\ Offhand!Engine(st)!Known(s, t) <=> Known(s, t)
BY DEF Offhand!Lookup, Offhand!Qualified, Offhand!Known, Offhand!NoPolicy, Lookup, Qualified,
       Known, NoPolicy, Offhand!Engine!Lookup, Offhand!Engine!Qualified, Offhand!Engine!Known,
       Offhand!Engine!NoPolicy

LEMMA OffhandBroken ==
  ASSUME NEW st, NEW c, NEW L, st.seen = seen[c]
  PROVE  Offhand!Engine(st)!Broken("explain", L) = Broken(c, L)
<1>1. Offhand!Engine(st)!Carried("explain") = Carried(c)
  BY DEF Offhand!Engine!Carried, Carried, Offhand!ExplainScope
<1>. QED
  BY <1>1 DEF Offhand!Engine!Broken, Broken

LEMMA OffhandFlowDenial ==
  ASSUME NEW st, NEW c, NEW S, st.seen = seen[c]
  PROVE  LET i == First(S)
         IN  Offhand!Engine(st)!Denied(Rules[Offhand!Engine(st)!First(S)].name,
                                 Offhand!Engine(st)!Because("explain", Offhand!Engine(st)!First(S)))
               = Denied(Rules[i].name, Because(c, i))
<1>1. Offhand!Engine(st)!First(S) = First(S)
  BY DEF Offhand!Engine!First, First
<1>2. ASSUME NEW i PROVE Offhand!Engine(st)!Because("explain", i) = Because(c, i)
  BY DEF Offhand!Engine!Because, Because, Offhand!ExplainScope
<1>. QED
  BY <1>1, <1>2 DEF Offhand!Engine!Denied, Denied

LEMMA OffhandVerdict ==
  ASSUME NEW st, NEW c, NEW step, st.seen = seen[c],
         ~ForPin(Decide(c, step.server, step.tool, step.arg))
  PROVE  Offhand!Verdict(st, step) = Decide(c, step.server, step.tool, step.arg)
<1>. DEFINE s == step.server
            t == step.tool
            a == step.arg
            tp == Lookup(s, t)
            broken == Broken(c, tp.labels)
            d == Decide(c, s, t, a)
            e == Offhand!Engine(st)!Decide("explain", s, t, a)
<1>1. Offhand!Verdict(st, step) = e
  BY DEF Offhand!Verdict, Offhand!ExplainScope
<1>2. CASE ~Known(s, t) /\ UnknownTools = ActionDeny
  BY <1>1, <1>2, OffhandLookup
  DEF Decide, Denied, Offhand!Engine!Decide, Offhand!Engine!Denied, Offhand!Engine!ActionDeny, ActionDeny
<1>3. CASE ~(~Known(s, t) /\ UnknownTools = ActionDeny) /\ tp.deny
  BY <1>1, <1>3, OffhandLookup
  DEF Decide, Denied, Offhand!Engine!Decide, Offhand!Engine!Denied, Offhand!Engine!ActionDeny, ActionDeny
<1>4. CASE ~(~Known(s, t) /\ UnknownTools = ActionDeny) /\ ~tp.deny
  <2>1. Offhand!Engine(st)!Broken("explain", tp.labels) = broken
    BY OffhandBroken
  <2>2. Offhand!Engine(st)!BreaksArgs(tp, a) <=> BreaksArgs(tp, a)
    BY DEF Offhand!Engine!BreaksArgs, BreaksArgs
  <2>3. ~(~Offline /\ PinsGate(s, t) /\ ~Clears(pins[<<s, t>>]))
    BY <1>4 DEF Decide, Denied, ForPin
  <2>4. CASE BreaksArgs(tp, a)
    <3>1. d = Denied("argument", {})
      BY <1>4, <2>3, <2>4 DEF Decide
    <3>2. e = Denied("argument", {})
      BY <1>4, <2>2, <2>4, OffhandLookup
      DEF Offhand!Engine!Decide, Offhand!Engine!ActionDeny, ActionDeny, Offhand!Engine!Denied, Denied
    <3>. QED
      BY <1>1, <3>1, <3>2
  <2>5. CASE ~BreaksArgs(tp, a) /\ broken # {}
    <3>1. d = Denied(Rules[First(broken)].name, Because(c, First(broken)))
      BY <1>4, <2>3, <2>5 DEF Decide
    <3>2. e = Offhand!Engine(st)!Denied(Rules[Offhand!Engine(st)!First(broken)].name,
                          Offhand!Engine(st)!Because("explain", Offhand!Engine(st)!First(broken)))
      BY <1>4, <2>1, <2>2, <2>5, OffhandLookup
      DEF Offhand!Engine!Decide, Offhand!Engine!ActionDeny, ActionDeny
    <3>. QED
      BY <1>1, <3>1, <3>2, OffhandFlowDenial
  <2>6. CASE ~BreaksArgs(tp, a) /\ broken = {}
    <3>1. d = Allowed
      BY <1>4, <2>3, <2>6 DEF Decide
    <3>2. e = Allowed
      BY <1>4, <2>1, <2>2, <2>6, OffhandLookup
      DEF Offhand!Engine!Decide, Offhand!Engine!ActionDeny, ActionDeny, Offhand!Engine!Allowed, Allowed
    <3>. QED
      BY <1>1, <3>1, <3>2
  <2>. QED
    BY <2>4, <2>5, <2>6
<1>. QED
  BY <1>1, <1>2, <1>3, <1>4

(***************************************************************************)
(* What one step makes of the scope it finds.                              *)
(***************************************************************************)
ScopeState == [calls : Nat, seen : [Label -> Evidence \cup {NoEvidence}]]

OneStep == [server : Server, tool : Tool, arg : Arg]

LEMMA OffhandBlocked ==
  ASSUME NEW st, NEW step
  PROVE  Offhand!IsBlocked(st, step) <=> Blocked(Offhand!Verdict(st, step))
BY DEF Offhand!IsBlocked, Offhand!Engine!Blocked, Offhand!Engine!Enforced,
       Offhand!Engine!ModeEnforce, Blocked, Enforced, ModeEnforce

LEMMA OffhandBrought ==
  ASSUME NEW st, NEW step
  PROVE  Offhand!Brought(st, step) =
           IF Offhand!IsBlocked(st, step) THEN {}
           ELSE {l \in Stains(Lookup(step.server, step.tool).labels) : st.seen[l] = NoEvidence}
<1>1. \A L : Offhand!Engine(st)!Stains(L) = Stains(L)
  BY DEF Offhand!Engine!Stains, Offhand!Engine!LabelSink, LabelSink, Stains
<1>. QED
  BY <1>1, OffhandLookup DEF Offhand!Brought

LEMMA AfterType ==
  ASSUME NEW st \in ScopeState, NEW step \in OneStep
  PROVE  Offhand!After(st, step) \in ScopeState
<1>1. [source |-> step.tool, call |-> st.calls + 1] \in Evidence
  BY DEF Evidence, OneStep, ScopeState
<1>2. Offhand!Recorded(st, step) \in ScopeState
  BY <1>1 DEF Offhand!Recorded, ScopeState
<1>. QED
  BY <1>2 DEF Offhand!After

(***************************************************************************)
(* simulate, one step at a time: the scopes it goes through, and what one  *)
(* step more adds to its results.                                          *)
(***************************************************************************)
LEMMA ScopesFacts ==
  ASSUME NEW steps \in Seq(OneStep)
  PROVE  /\ Offhand!Scopes(steps)[0] = Offhand!Fresh
         /\ \A k \in 1 .. Len(steps) :
              Offhand!Scopes(steps)[k] = Offhand!After(Offhand!Scopes(steps)[k - 1], steps[k])
<1>. DEFINE N == Len(steps)
            next == [p \in (1 .. N) \X ScopeState |-> Offhand!After(p[2], steps[p[1]])]
            IsScopes(S) == S = [k \in 0 .. N |-> IF k = 0 THEN Offhand!Fresh
                                                 ELSE Offhand!After(S[k - 1], steps[k])]
<1>1. N \in Nat /\ \A k \in 1 .. N : steps[k] \in OneStep
  OBVIOUS
<1>2. Offhand!Fresh \in ScopeState
  BY DEF Offhand!Fresh, ScopeState
<1>3. next \in [(1 .. N) \X ScopeState -> ScopeState]
  BY <1>1, AfterType
<1>4. PICK f \in [0 .. N -> ScopeState] : Fills(f, N, Offhand!Fresh, next)
  <2>1. Fillable(N, ScopeState, Offhand!Fresh, next)
    BY <1>1, <1>2, <1>3 DEF Fillable
  <2>. QED
    BY <2>1, TableExists
<1>5. \A k \in 1 .. N : f[k] = Offhand!After(f[k - 1], steps[k])
  <2>. SUFFICES ASSUME NEW k \in 1 .. N PROVE f[k] = Offhand!After(f[k - 1], steps[k])
    OBVIOUS
  <2>1. f[k - 1] \in ScopeState
    BY <1>1
  <2>. QED
    BY <1>4, <2>1 DEF Fills
<1>6. IsScopes(f)
  <2>1. \A k \in 0 .. N : f[k] = IF k = 0 THEN Offhand!Fresh
                                 ELSE Offhand!After(f[k - 1], steps[k])
    BY <1>1, <1>4, <1>5 DEF Fills
  <2>. QED
    BY <2>1
<1>7. IsScopes(Offhand!Scopes(steps))
  BY <1>6 DEF Offhand!Scopes
<1>. QED
  BY <1>1, <1>7

LEMMA SimulateAppend ==
  ASSUME NEW steps \in Seq(OneStep), NEW step \in OneStep
  PROVE  LET more == Append(steps, step)
             st   == Offhand!Scopes(steps)[Len(steps)]
         IN  /\ Offhand!Scopes(more)[Len(more)] = Offhand!After(st, step)
             /\ \A k \in 1 .. Len(steps) : Offhand!Simulate(more)[k] = Offhand!Simulate(steps)[k]
             /\ Offhand!Simulate(more)[Len(more)] =
                  [decision |-> Offhand!Verdict(st, step), labels |-> Offhand!Brought(st, step)]
<1>. DEFINE more == Append(steps, step)
            N == Len(steps)
            f == Offhand!Scopes(more)
            g == Offhand!Scopes(steps)
<1>1. /\ more \in Seq(OneStep) /\ Len(more) = N + 1 /\ N \in Nat
      /\ more[N + 1] = step /\ \A k \in 1 .. N : more[k] = steps[k]
  OBVIOUS
<1>2. \A k \in 0 .. N : f[k] = g[k]
  <2>1. f[0] = g[0]
    BY <1>1, ScopesFacts
  <2>2. \A k \in 1 .. N : f[k] = Offhand!After(f[k - 1], steps[k])
    <3>1. \A k \in 1 .. N : k \in 1 .. Len(more)
      BY <1>1
    <3>. QED
      BY <1>1, <3>1, ScopesFacts
  <2>3. \A k \in 1 .. N : g[k] = Offhand!After(g[k - 1], steps[k])
    BY ScopesFacts
  <2>4. Alike(f, g, N)
    BY <1>1, <2>1, <2>2, <2>3 DEF Alike
  <2>. HIDE DEF f, g, N
  <2>. QED
    BY <2>4, TablesAgree
<1>3. f[N + 1] = Offhand!After(g[N], step)
  <2>1. N + 1 \in 1 .. Len(more) /\ (N + 1) - 1 = N /\ N \in 0 .. N
    BY <1>1
  <2>2. f[N + 1] = Offhand!After(f[(N + 1) - 1], more[N + 1])
    BY <1>1, <2>1, ScopesFacts
  <2>. QED
    BY <1>1, <1>2, <2>1, <2>2
<1>4. \A k \in 1 .. N : Offhand!Simulate(more)[k] = Offhand!Simulate(steps)[k]
  <2>. SUFFICES ASSUME NEW k \in 1 .. N
                PROVE  Offhand!Simulate(more)[k] = Offhand!Simulate(steps)[k]
    OBVIOUS
  <2>1. k \in 1 .. Len(more) /\ f[k - 1] = g[k - 1] /\ more[k] = steps[k]
    BY <1>1, <1>2
  <2>. HIDE DEF more
  <2>. QED
    BY <2>1 DEF Offhand!Simulate
<1>5. Offhand!Simulate(more)[N + 1] =
        [decision |-> Offhand!Verdict(g[N], step), labels |-> Offhand!Brought(g[N], step)]
  <2>1. N + 1 \in 1 .. Len(more) /\ f[(N + 1) - 1] = g[N] /\ more[N + 1] = step
    BY <1>1, <1>2
  <2>. HIDE DEF more
  <2>. QED
    BY <2>1 DEF Offhand!Simulate
<1>. QED
  BY <1>1, <1>3, <1>4, <1>5

(***************************************************************************)
(* The log, one line at a time: a line counts, or it is passed over.       *)
(***************************************************************************)
LEMMA JudgedFacts ==
  ASSUME NEW log \in Seq(Line), NEW c
  PROVE  \E f : /\ Judged(log, c) = f[Len(log)] /\ f[0] = <<>>
                /\ \A n \in 0 .. Len(log) : f[n] \in Seq({e \in Line : Foreseeable(e, c)})
                /\ \A n \in 1 .. Len(log) :
                     f[n] = IF Foreseeable(log[n], c) THEN Append(f[n - 1], log[n]) ELSE f[n - 1]
<1>. DEFINE N == Len(log)
            V == Seq({e \in Line : Foreseeable(e, c)})
            Next1(n, v) == IF Foreseeable(log[n], c) THEN Append(v, log[n]) ELSE v
            next == [p \in (1 .. N) \X V |-> Next1(p[1], p[2])]
            IsJudging(J) == J = [n \in 0 .. N |->
                                   IF n = 0 THEN <<>>
                                   ELSE IF Foreseeable(log[n], c) THEN Append(J[n - 1], log[n])
                                   ELSE J[n - 1]]
<1>1. N \in Nat /\ \A n \in 1 .. N : log[n] \in Line
  OBVIOUS
<1>2. <<>> \in V
  OBVIOUS
<1>3. \A n \in 1 .. N, v \in V : Next1(n, v) \in V
  BY <1>1
<1>4. next \in [(1 .. N) \X V -> V]
  <2>. HIDE DEF Next1, V, N
  <2>. QED
    BY <1>3
<1>5. PICK f \in [0 .. N -> V] : Fills(f, N, <<>>, next)
  <2>1. Fillable(N, V, <<>>, next)
    BY <1>1, <1>2, <1>4 DEF Fillable
  <2>. QED
    BY <2>1, TableExists
<1>6. f[0] = <<>> /\ \A n \in 1 .. N : f[n] = Next1(n, f[n - 1])
  <2>1. \A n \in 1 .. N : f[n - 1] \in V
    BY <1>1
  <2>. HIDE DEF Next1, V
  <2>. QED
    BY <1>5, <2>1 DEF Fills
<1>7. IsJudging(f)
  <2>. HIDE DEF Next1, V
  <2>1. \A n \in 0 .. N : f[n] = IF n = 0 THEN <<>> ELSE Next1(n, f[n - 1])
    BY <1>1, <1>6
  <2>2. f = [n \in 0 .. N |-> IF n = 0 THEN <<>> ELSE Next1(n, f[n - 1])]
    BY <2>1
  <2>. QED
    BY <2>2 DEF Next1
<1>8. PICK J : IsJudging(J) /\ Judged(log, c) = J[N]
  BY <1>7 DEF Judged
<1>9. J[0] = <<>> /\ \A n \in 1 .. N : J[n] = Next1(n, J[n - 1])
  <2>1. J = [n \in 0 .. N |-> IF n = 0 THEN <<>> ELSE Next1(n, J[n - 1])]
    BY <1>8
  <2>. HIDE DEF Next1
  <2>. QED
    BY <1>1, <2>1
<1>10. \A n \in 0 .. N : J[n] = f[n]
  <2>1. Alike(J, f, N)
    BY <1>1, <1>6, <1>9 DEF Alike
  <2>. QED
    BY <2>1, TablesAgree
<1>11. Judged(log, c) = f[N] /\ \A n \in 0 .. N : f[n] \in V
  BY <1>1, <1>8, <1>10
<1>. QED
  BY <1>6, <1>11

LEMMA JudgedType ==
  ASSUME NEW log \in Seq(Line), NEW c
  PROVE  Judged(log, c) \in Seq({e \in Line : Foreseeable(e, c)})
<1>1. Len(log) \in Nat
  OBVIOUS
<1>. QED
  BY <1>1, JudgedFacts

LEMMA JudgedEmpty == \A c : Judged(<<>>, c) = <<>>
<1>1. <<>> \in Seq(Line) /\ Len(<<>>) = 0
  OBVIOUS
<1>. QED
  BY <1>1, JudgedFacts

LEMMA JudgedAppend ==
  ASSUME NEW log \in Seq(Line), NEW line \in Line, NEW c
  PROVE  Judged(Append(log, line), c) =
           IF Foreseeable(line, c) THEN Append(Judged(log, c), line) ELSE Judged(log, c)
<1>. DEFINE N == Len(log)
            more == Append(log, line)
<1>1. /\ more \in Seq(Line) /\ Len(more) = N + 1 /\ N \in Nat
      /\ more[N + 1] = line /\ \A n \in 1 .. N : more[n] = log[n]
  OBVIOUS
<1>2. PICK f : /\ Judged(log, c) = f[N] /\ f[0] = <<>>
               /\ \A n \in 1 .. N :
                     f[n] = IF Foreseeable(log[n], c) THEN Append(f[n - 1], log[n]) ELSE f[n - 1]
  BY JudgedFacts
<1>3. PICK g : /\ Judged(more, c) = g[Len(more)] /\ g[0] = <<>>
               /\ \A n \in 1 .. Len(more) :
                     g[n] = IF Foreseeable(more[n], c) THEN Append(g[n - 1], more[n]) ELSE g[n - 1]
  <2>. HIDE DEF more
  <2>. QED
    BY <1>1, JudgedFacts
<1>4. \A n \in 0 .. N : f[n] = g[n]
  <2>1. \A n \in 1 .. N : n \in 1 .. Len(more)
    BY <1>1
  <2>2. Alike(f, g, N)
    BY <1>1, <1>2, <1>3, <2>1 DEF Alike
  <2>. QED
    BY <2>2, TablesAgree
<1>5. f[N] = g[N] /\ g[N + 1] = IF Foreseeable(line, c) THEN Append(g[N], line) ELSE g[N]
  <2>1. N + 1 \in 1 .. Len(more) /\ (N + 1) - 1 = N /\ N \in 0 .. N
    BY <1>1
  <2>. HIDE DEF more
  <2>. QED
    BY <1>1, <1>3, <1>4, <2>1
<1>. QED
  BY <1>1, <1>2, <1>3, <1>5

-----------------------------------------------------------------------------
(***************************************************************************)
(* The invariant: `explain`, asked for the calls of a scope that are in    *)
(* the log, ends with the scope as the engine has it, and has said of each *)
(* what is in the log.                                                     *)
(***************************************************************************)
Foretold(log, c, st) ==
    LET judged == Judged(log, c)
        results == Offhand!Simulate(Steps(judged))
    IN  /\ Offhand!Scopes(Steps(judged))[Len(judged)] = st
        /\ \A i \in DOMAIN judged :
             /\ ~ForPin(judged[i].decision) => results[i].decision = judged[i].decision
             /\ results[i].labels = judged[i].labels

ScopeOf(c) == [calls |-> calls[c], seen |-> seen[c]]

ForetoldInv == \A c \in Scope : OnlyCalls(c) => Foretold(audit, c, ScopeOf(c))

\* Nothing changes between a call's verdict and its record.
VerdictInv ==
    pc = "recording" => /\ verdict = Decide(req.scope, req.server, req.tool, req.arg)
                        /\ ~Blocked(verdict)

StepOf(line) ==
    [server |-> line.request.server, tool |-> line.request.tool, arg |-> line.request.arg]

LEMMA StepsAppend ==
  ASSUME NEW c, NEW judged \in Seq({e \in Line : Foreseeable(e, c)}),
         NEW line \in {e \in Line : Foreseeable(e, c)}
  PROVE  /\ Steps(judged) \in Seq(OneStep) /\ StepOf(line) \in OneStep
         /\ Len(Steps(judged)) = Len(judged)
         /\ Steps(Append(judged, line)) = Append(Steps(judged), StepOf(line))
<1>1. \A e \in {e \in Line : Foreseeable(e, c)} : StepOf(e) \in OneStep
  BY DEF Foreseeable, Line, StepOf, OneStep, CallRequest, ReadRequest
<1>2. Len(judged) \in Nat /\ \A i \in 1 .. Len(judged) : judged[i] \in {e \in Line : Foreseeable(e, c)}
  OBVIOUS
<1>3. Steps(judged) = [i \in 1 .. Len(judged) |-> StepOf(judged[i])]
  BY DEF Steps, StepOf
<1>4. Steps(judged) \in Seq(OneStep) /\ Len(Steps(judged)) = Len(judged)
  BY <1>1, <1>2, <1>3
<1>5. Steps(Append(judged, line)) = [i \in 1 .. Len(judged) + 1 |-> StepOf(Append(judged, line)[i])]
  BY DEF Steps, StepOf
<1>6. Append(Steps(judged), StepOf(line)) =
        [i \in 1 .. Len(judged) + 1 |-> IF i = Len(judged) + 1 THEN StepOf(line)
                                        ELSE StepOf(judged[i])]
  <2>. DEFINE lhs == Append(Steps(judged), StepOf(line))
  <2>. HIDE DEF StepOf
  <2>1. lhs \in Seq(OneStep) /\ Len(lhs) = Len(judged) + 1
    BY <1>1, <1>4
  <2>2. \A i \in 1 .. Len(judged) + 1 :
          lhs[i] = IF i = Len(judged) + 1 THEN StepOf(line) ELSE StepOf(judged[i])
    BY <1>2, <1>3, <1>4
  <2>. HIDE DEF lhs
  <2>3. lhs = [i \in 1 .. Len(judged) + 1 |-> lhs[i]]
    <3>1. \A t \in Seq(OneStep) : t = [i \in 1 .. Len(t) |-> t[i]]
      OBVIOUS
    <3>. QED
      BY <2>1, <3>1
  <2>4. lhs = [i \in 1 .. Len(judged) + 1 |-> IF i = Len(judged) + 1 THEN StepOf(line)
                                             ELSE StepOf(judged[i])]
    BY <2>2, <2>3
  <2>. QED
    BY <2>4 DEF lhs
<1>7. \A i \in 1 .. Len(judged) + 1 :
        Append(judged, line)[i] = IF i = Len(judged) + 1 THEN line ELSE judged[i]
  BY <1>2
<1>. QED
  BY <1>1, <1>4, <1>5, <1>6, <1>7

LEMMA ForetoldMore ==
  ASSUME NEW log \in Seq(Line), NEW line \in Line, NEW c, NEW st, NEW after,
         Foretold(log, c, st), Foreseeable(line, c),
         Offhand!After(st, StepOf(line)) = after,
         ~ForPin(line.decision) => Offhand!Verdict(st, StepOf(line)) = line.decision,
         Offhand!Brought(st, StepOf(line)) = line.labels
  PROVE  Foretold(Append(log, line), c, after)
<1>. DEFINE judged == Judged(log, c)
            more == Append(judged, line)
            n == Len(judged)
            F == {e \in Line : Foreseeable(e, c)}
<1>1. judged \in Seq(F) /\ line \in F
  BY JudgedType
<1>2. Judged(Append(log, line), c) = more
  BY JudgedAppend
<1>3. /\ Steps(judged) \in Seq(OneStep) /\ StepOf(line) \in OneStep
      /\ Len(Steps(judged)) = n
      /\ Steps(more) = Append(Steps(judged), StepOf(line))
  BY <1>1, StepsAppend
<1>4. /\ n \in Nat /\ Len(more) = n + 1 /\ DOMAIN more = 1 .. n + 1 /\ DOMAIN judged = 1 .. n
      /\ more[n + 1] = line /\ \A i \in 1 .. n : more[i] = judged[i]
  BY <1>1
<1>5. Len(Steps(more)) = n + 1
  BY <1>3, <1>4
<1>6. /\ Offhand!Scopes(Steps(more))[n + 1] = after
      /\ \A k \in 1 .. n : Offhand!Simulate(Steps(more))[k] = Offhand!Simulate(Steps(judged))[k]
      /\ Offhand!Simulate(Steps(more))[n + 1] =
           [decision |-> Offhand!Verdict(st, StepOf(line)), labels |-> Offhand!Brought(st, StepOf(line))]
  <2>. HIDE DEF judged, more
  <2>1. Offhand!Scopes(Steps(judged))[n] = st
    BY DEF Foretold, judged
  <2>. QED
    BY <1>3, <1>5, <2>1, SimulateAppend
<1>7. ASSUME NEW i \in 1 .. n + 1
      PROVE  /\ ~ForPin(more[i].decision) =>
                  Offhand!Simulate(Steps(more))[i].decision = more[i].decision
             /\ Offhand!Simulate(Steps(more))[i].labels = more[i].labels
  <2>1. CASE i = n + 1
    BY <1>4, <1>6, <2>1
  <2>2. CASE i # n + 1
    <3>1. i \in 1 .. n
      BY <1>4, <2>2
    <3>2. /\ ~ForPin(judged[i].decision) =>
               Offhand!Simulate(Steps(judged))[i].decision = judged[i].decision
          /\ Offhand!Simulate(Steps(judged))[i].labels = judged[i].labels
      BY <1>4, <3>1 DEF Foretold
    <3>. QED
      BY <1>4, <1>6, <3>1, <3>2
  <2>. QED
    BY <2>1, <2>2
<1>. QED
  BY <1>2, <1>4, <1>6, <1>7 DEF Foretold

LEMMA ForetoldSame ==
  ASSUME NEW log \in Seq(Line), NEW line \in Line, NEW c, NEW st,
         Foretold(log, c, st), ~Foreseeable(line, c)
  PROVE  Foretold(Append(log, line), c, st)
BY JudgedAppend DEF Foretold

LEMMA ForetoldNone ==
  ASSUME Init, NEW c \in Scope
  PROVE  Foretold(audit, c, ScopeOf(c))
<1>1. audit = <<>> /\ ScopeOf(c) = Offhand!Fresh
  BY DEF Init, EngineInit, ScopeOf, Offhand!Fresh
<1>2. Judged(audit, c) = <<>>
  BY <1>1, JudgedEmpty
<1>3. Steps(<<>>) = <<>> /\ Len(<<>>) = 0 /\ <<>> \in Seq(OneStep) /\ DOMAIN <<>> = {}
  BY DEF Steps
<1>4. Offhand!Scopes(<<>>)[0] = Offhand!Fresh
  BY <1>3, ScopesFacts
<1>. QED
  BY <1>1, <1>2, <1>3, <1>4 DEF Foretold

LEMMA VerdictInvStep ==
  ASSUME VerdictInv, [Next]_vars
  PROVE  VerdictInv'
<1>. SUFFICES ASSUME pc' = "recording"
              PROVE  (verdict = Decide(req.scope, req.server, req.tool, req.arg) /\ ~Blocked(verdict))'
  BY DEF VerdictInv
<1>1. CASE JudgeCall
  <2>1. /\ verdict' = Decide(req.scope, req.server, req.tool, req.arg) /\ ~Blocked(verdict')
        /\ UNCHANGED <<req, pins, seen>>
    BY <1>1 DEF JudgeCall, Finish, engineVars
  <2>. QED
    BY <2>1 DEF Decide, Broken, Carried, Because, Blocked
<1>2. CASE UNCHANGED <<pc, req, verdict, pins, seen>>
  BY <1>2 DEF VerdictInv, Decide, Broken, Carried, Because, Blocked
<1>3. ~RecordCall /\ ~AnswerArrives /\ ~ \E u \in Uri, c \in Scope : ReceiveRead(u, c)
  BY DEF RecordCall, AnswerArrives, Finish, ReceiveRead, Receive
<1>. QED
  BY <1>1, <1>2, <1>3, AuditFrame

\* What the engine makes of a call that is let through is what `explain` makes.
LEMMA AfterRecord ==
  ASSUME EngineTypeOK, NEW c \in Scope, NEW step \in OneStep,
         Record(c, step.server, step.tool), ~Offhand!IsBlocked(ScopeOf(c), step)
  PROVE  /\ Offhand!After(ScopeOf(c), step) = ScopeOf(c)'
         /\ \A z \in Scope \ {c} : ScopeOf(z)' = ScopeOf(z)
         /\ Offhand!Brought(ScopeOf(c), step) = Fresh(c, Lookup(step.server, step.tool).labels)
<1>. DEFINE L == Lookup(step.server, step.tool).labels
            s1 == seen'[c]
<1>1. Stain(c, step.tool, L)
  BY DEF Record
<1>2. /\ calls'[c] = calls[c] + 1
      /\ \A z \in Scope \ {c} : calls'[z] = calls[z] /\ seen'[z] = seen[z]
      /\ \A l \in Label : s1[l] = IF l \in Stains(L) /\ seen[c][l] = NoEvidence
                                  THEN [source |-> step.tool, call |-> calls[c] + 1]
                                  ELSE seen[c][l]
  BY <1>1, StainEvidence
<1>3. Offhand!Brought(ScopeOf(c), step) = {l \in Stains(L) : seen[c][l] = NoEvidence}
  BY OffhandBrought DEF ScopeOf
<1>4. s1 = [l \in Label |-> s1[l]]
  <2>1. step.tool \in Tool /\ L \in SUBSET Label
    BY LookupType DEF OneStep
  <2>2. EngineTypeOK'
    BY <1>1, <2>1, StainFacts
  <2>. QED
    BY <2>2 DEF EngineTypeOK
<1>5. s1 = [l \in Label |-> IF l \in Offhand!Brought(ScopeOf(c), step)
                            THEN [source |-> step.tool, call |-> calls[c] + 1]
                            ELSE seen[c][l]]
  <2>. HIDE DEF s1
  <2>. QED
    BY <1>2, <1>3, <1>4
<1>6. Offhand!After(ScopeOf(c), step) = [calls |-> calls'[c], seen |-> s1]
  BY <1>2, <1>5 DEF Offhand!After, Offhand!Recorded, ScopeOf
<1>7. {l \in Stains(L) : seen[c][l] = NoEvidence} = Fresh(c, L)
  BY LookupType DEF Fresh, Carried, Stains
<1>. QED
  BY <1>2, <1>3, <1>6, <1>7 DEF ScopeOf

LEMMA ForetoldStep ==
  ASSUME EngineTypeOK, LoopTypeOK, RecordTypeOK, VerdictInv, ForetoldInv, [Next]_vars
  PROVE  ForetoldInv'
<1>. SUFFICES ASSUME NEW c \in Scope, OnlyCalls(c)'
              PROVE  Foretold(audit, c, ScopeOf(c))'
  BY DEF ForetoldInv
<1>0. audit \in Seq(Line)
  BY DEF RecordTypeOK
<1>1. CASE UNCHANGED <<calls, seen, audit>>
  BY <1>1 DEF ForetoldInv, OnlyCalls, ScopeOf
<1>2. ASSUME NEW line \in Line, audit' = Append(audit, line)
      PROVE  Foretold(audit, c, ScopeOf(c)) /\ (line.request.kind = "read" => line.request.scope # c)
  <2>1. /\ \A i \in DOMAIN audit : i \in DOMAIN audit' /\ audit'[i] = audit[i]
        /\ Len(audit) + 1 \in DOMAIN audit' /\ audit'[Len(audit) + 1] = line
    BY <1>0, <1>2
  <2>. QED
    BY <2>1 DEF ForetoldInv, OnlyCalls
<1>3. CASE JudgeCall
  <2>. DEFINE d == Decide(req.scope, req.server, req.tool, req.arg)
              line == [kind |-> "denied", request |-> req, decision |-> d, labels |-> {}]
              step == StepOf(line)
  <2>1. req \in CallRequest /\ d \in Decision /\ ScopeOf(c)' = ScopeOf(c)
    BY <1>3, DecisionType DEF JudgeCall, LoopTypeOK, AtCall, CallRequest, engineVars, ScopeOf
  <2>2. CASE Blocked(d)
    <3>1. line \in Line
      BY <2>1 DEF Line
    <3>2. audit' = Append(audit, line)
      BY <1>3, <2>2 DEF JudgeCall, Log
    <3>3. Foretold(audit, c, ScopeOf(c))
      BY <1>2, <3>1, <3>2
    <3>4. CASE Foreseeable(line, c)
      <4>1. req.scope = c /\ ~ForPin(d)
        BY <2>2, <3>4 DEF Foreseeable
      <4>2. Offhand!Verdict(ScopeOf(c), step) = d
        BY <4>1, OffhandVerdict DEF StepOf, ScopeOf
      <4>3. Offhand!IsBlocked(ScopeOf(c), step)
        BY <2>2, <4>2, OffhandBlocked
      <4>4. Offhand!After(ScopeOf(c), step) = ScopeOf(c) /\ Offhand!Brought(ScopeOf(c), step) = {}
        BY <4>3 DEF Offhand!After, Offhand!Brought
      <4>. QED
        BY <1>0, <2>1, <3>1, <3>2, <3>3, <3>4, <4>2, <4>4, ForetoldMore
    <3>5. CASE ~Foreseeable(line, c)
      BY <1>0, <2>1, <3>1, <3>2, <3>3, <3>5, ForetoldSame
    <3>. QED
      BY <3>4, <3>5
  <2>3. CASE ~Blocked(d)
    BY <1>1, <1>3, <2>3 DEF JudgeCall, engineVars
  <2>. QED
    BY <2>2, <2>3
<1>4. CASE RecordCall
  <2>. DEFINE kind == IF verdict.deny THEN "denied" ELSE "call"
              new == Fresh(req.scope, Labels(req))
              line == [kind |-> kind, request |-> req, decision |-> verdict, labels |-> new]
              step == StepOf(line)
  <2>1. /\ req \in CallRequest /\ verdict \in Decision /\ kind \in {"call", "denied"}
        /\ verdict = Decide(req.scope, req.server, req.tool, req.arg) /\ ~Blocked(verdict)
    BY <1>4 DEF RecordCall, LoopTypeOK, AtCall, VerdictInv
  <2>2. req.kind = "call" /\ req.scope \in Scope /\ step \in OneStep
    BY <2>1 DEF CallRequest, StepOf, OneStep
  <2>3. line \in Line
    BY <2>1, LookupType DEF Line, Fresh, Labels, Stains, CallRequest
  <2>4. audit' = Append(audit, line) /\ Record(req.scope, req.server, req.tool)
    BY <1>4 DEF RecordCall, Log
  <2>5. Foretold(audit, c, ScopeOf(c))
    BY <1>2, <2>3, <2>4
  <2>6. ~Offhand!IsBlocked(ScopeOf(req.scope), step)
    <3>1. CASE ForPin(verdict)
      <4>1. ~Enforced
        BY <2>1, <3>1 DEF ForPin, Blocked, Decide, Allowed, Denied
      <4>. QED
        BY <4>1, OffhandBlocked DEF Blocked
    <3>2. CASE ~ForPin(verdict)
      <4>1. Offhand!Verdict(ScopeOf(req.scope), step) = verdict
        BY <2>1, <3>2, OffhandVerdict DEF StepOf, ScopeOf
      <4>. QED
        BY <2>1, <4>1, OffhandBlocked
    <3>. QED
      BY <3>1, <3>2
  <2>. PICK q \in Scope : q = req.scope
    BY <2>2
  <2>7. /\ Offhand!After(ScopeOf(q), step) = ScopeOf(q)'
        /\ \A z \in Scope \ {q} : ScopeOf(z)' = ScopeOf(z)
        /\ Offhand!Brought(ScopeOf(q), step) = new
    <3>1. Record(q, step.server, step.tool) /\ ~Offhand!IsBlocked(ScopeOf(q), step)
      BY <2>4, <2>6 DEF StepOf
    <3>2. new = Fresh(q, Lookup(step.server, step.tool).labels)
      BY <2>2 DEF Labels, StepOf
    <3>. HIDE DEF step, new
    <3>. QED
      BY <2>2, <3>1, <3>2, AfterRecord
  <2>8. CASE req.scope = c
    <3>1. Foreseeable(line, c)
      BY <2>1, <2>2, <2>8 DEF Foreseeable
    <3>2. ~ForPin(verdict) => Offhand!Verdict(ScopeOf(c), step) = verdict
      BY <2>1, <2>8, OffhandVerdict DEF StepOf, ScopeOf
    <3>. QED
      BY <1>0, <2>3, <2>4, <2>5, <2>7, <2>8, <3>1, <3>2, ForetoldMore
  <2>9. CASE req.scope # c
    <3>1. ~Foreseeable(line, c)
      BY <2>9 DEF Foreseeable
    <3>. QED
      BY <1>0, <2>3, <2>4, <2>5, <2>7, <2>9, <3>1, ForetoldSame
  <2>. QED
    BY <2>8, <2>9
<1>5. CASE AnswerArrives
  <2>. DEFINE line == [kind |-> "result", request |-> req, decision |-> verdict, labels |-> {}]
  <2>1. UNCHANGED <<calls, seen>>
    BY <1>5 DEF AnswerArrives, engineVars
  <2>2. CASE req.kind = "call"
    <3>1. req \in CallRequest /\ verdict \in Decision
      BY <1>5, <2>2 DEF AnswerArrives, LoopTypeOK, OnItsWay, ReadRequest, PromptRequest
    <3>2. line \in Line /\ audit' = Append(audit, line)
      BY <1>5, <2>2, <3>1 DEF Line, AnswerArrives, Log
    <3>3. ~Foreseeable(line, c) /\ ScopeOf(c)' = ScopeOf(c)
      BY <2>1 DEF Foreseeable, ScopeOf
    <3>. QED
      BY <1>0, <1>2, <3>2, <3>3, ForetoldSame
  <2>3. CASE req.kind # "call"
    BY <1>1, <1>5, <2>1, <2>3 DEF AnswerArrives
  <2>. QED
    BY <2>2, <2>3
<1>6. ASSUME NEW u \in Uri, NEW z \in Scope, ReceiveRead(u, z)
      PROVE  Foretold(audit, c, ScopeOf(c))'
  <2>. DEFINE r == [kind |-> "read", id |-> nread + 1, scope |-> z, uri |-> u]
              new == Fresh(z, ResourceLabels(u))
              line == [kind |-> "call", request |-> r, decision |-> Allowed, labels |-> new]
  <2>1. r \in ReadRequest /\ req' = r /\ RecordResource(z, u)
    BY <1>6 DEF ReceiveRead, Receive, ReadRequest, LoopTypeOK
  <2>2. line \in Line /\ audit' = Append(audit, line)
    <3>1. new \in SUBSET Label
      BY ResourceLabelsType DEF Fresh, Stains
    <3>. QED
      BY <1>6, <2>1, <3>1, AllowedType DEF Line, ReceiveRead, Log
  <2>3. Foretold(audit, c, ScopeOf(c)) /\ z # c
    BY <1>2, <2>2
  <2>4. ScopeOf(c)' = ScopeOf(c)
    BY <2>1, <2>3, StainEvidence DEF RecordResource, ScopeOf
  <2>5. ~Foreseeable(line, c)
    BY DEF Foreseeable
  <2>. QED
    BY <1>0, <2>2, <2>3, <2>4, <2>5, ForetoldSame
<1>. QED
  BY <1>1, <1>3, <1>4, <1>5, <1>6, AuditFrame

(***************************************************************************)
(* For every policy, any servers and any number of requests, `explain`     *)
(* foretells what is in the audit log: of the calls of a scope that read   *)
(* no resource, but for those blocked for a pin, in the order they were    *)
(* judged, the verdict, the evidence and the labels brought in.            *)
(***************************************************************************)
THEOREM ExplainAgreesHolds == Spec => []ExplainAgrees
<1>1. Init => (TypeInv /\ OwnedInv) /\ VerdictInv /\ ForetoldInv
  BY TypeInvInit, ForetoldNone DEF Init, VerdictInv, ForetoldInv
<1>2. TypeInv => EngineTypeOK /\ LoopTypeOK /\ RecordTypeOK
  BY DEF TypeInv, Typed
<1>3. (TypeInv /\ OwnedInv) /\ VerdictInv /\ ForetoldInv /\ [Next]_vars
        => ((TypeInv /\ OwnedInv) /\ VerdictInv /\ ForetoldInv)'
  BY <1>2, TypeInvStep, VerdictInvStep, ForetoldStep
<1>4. ForetoldInv => ExplainAgrees
  BY DEF ForetoldInv, Foretold, ExplainAgrees
<1>. QED
  BY <1>1, <1>3, <1>4, PTL DEF Spec

=============================================================================

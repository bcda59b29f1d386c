---------------------------- MODULE Proxy_proofs ----------------------------
(***************************************************************************)
(* Proxy for every policy and any number of scopes, tools and messages:    *)
(* the type invariant, then the rules no released call breaks, then the    *)
(* stains.  The pump of the client is the only one that touches the scopes *)
(* and the calls sent, and the pump of the server the only one that        *)
(* touches the pins; the frame lemmas say so once, and each invariant      *)
(* then meets only the actions that can disturb it.                        *)
(***************************************************************************)
EXTENDS ProxyProperties, FlowEngine_proofs, SequenceTheorems

(***************************************************************************)
(* What a reply is made of.                                                *)
(***************************************************************************)
LEMMA ReplyType ==
  ASSUME NEW r \in Reply
  PROVE  /\ r.id \in Nat \cup {ProbeId}
         /\ IsListing(r) => /\ r.listing \in ToolList
                            /\ r = [form |-> "tools", id |-> r.id, listing |-> r.listing]
BY DEF Reply, IsListing

(***************************************************************************)
(* Screening keeps a reply a reply.                                        *)
(***************************************************************************)
LEMMA ScreenedType ==
  ASSUME NEW r \in Reply
  PROVE  Screened(r) \in Reply
<1>1. CASE ~IsListing(r)
  BY <1>1 DEF Screened
<1>2. CASE IsListing(r)
  <2>1. PICK S \in SUBSET Tool : r.listing \in [S -> Def]
    BY <1>2, ReplyType DEF ToolList
  <2>. DEFINE K == {u \in S : PinAction(This, u, r.listing[u]) # ActionDeny}
  <2>2. Kept(This, r.listing) = [t \in K |-> r.listing[t]]
    BY <2>1 DEF Kept
  <2>3. [t \in K |-> r.listing[t]] \in [K -> Def] /\ K \in SUBSET Tool
    BY <2>1
  <2>4. Kept(This, r.listing) \in ToolList
    BY <2>2, <2>3 DEF ToolList
  <2>5. Screened(r) = [form |-> "tools", id |-> r.id, listing |-> Kept(This, r.listing)]
    BY <1>2, ReplyType DEF Screened
  <2>. QED
    BY <2>4, <2>5, ReplyType DEF Reply
<1>. QED
  BY <1>1, <1>2

(***************************************************************************)
(* What the server may answer is a reply.                                  *)
(***************************************************************************)
LEMMA ResultsType ==
  ASSUME NEW m \in Message \cup {ProbeMessage}
  PROVE  Results(m) \subseteq Reply
<1>1. m.id \in Nat \cup {ProbeId} /\ m.kind \in {"call", "list", "other"}
  BY DEF Message, CallMessage, PlainMessage, ProbeMessage
<1>2. Listing \subseteq ToolList
  BY ProxyAssumption DEF ToolList
<1>. QED
  BY <1>1, <1>2 DEF Results, Reply

(***************************************************************************)
(* Screening a list keeps the pins, the definitions shown and the calls    *)
(* cleared of their types.                                                 *)
(***************************************************************************)
LEMMA ScreenToolListType ==
  ASSUME TypeOK, NEW L \in ToolList, ScreenToolList(L)
  PROVE  EngineTypeOK' /\ shown' \in [Tool -> Def \cup {NoDef}] /\ cleared' \subseteq Nat
<1>1. EngineTypeOK'
  BY CheckPinsFacts, ProxyAssumption DEF ScreenToolList, TypeOK, AnyServer
<1>2. shown' \in [Tool -> Def \cup {NoDef}]
  BY DEF ScreenToolList, TypeOK, HistoryTypeOK, ToolList
<1>3. cleared' \subseteq Nat
  <2>1. \A t : Screening(t) => cur.id \in Nat
    BY DEF Screening, TypeOK, ClientTypeOK, Message, CallMessage, PlainMessage
  <2>. QED
    BY <2>1 DEF ScreenToolList, TypeOK, HistoryTypeOK
<1>. QED
  BY <1>1, <1>2, <1>3

-----------------------------------------------------------------------------
(***************************************************************************)
(* Frames: the actions that touch each group of variables.                 *)
(***************************************************************************)
LEMMA EngineFrame ==
  ASSUME [Next]_vars
  PROVE  UNCHANGED engineVars \/ RecordCall \/ TakeProbeReply \/ ObserveReply
BY DEF Next, vars, ClientReads, ClientPump, ServerPump, RunWaits, Peers, Terminated,
       ReadCall, ReadList, ReadOther, ReadEOF, ReadMessage, SendProbe, PinsChecked,
       PinsTimedOut, JudgeCall, LogDenial, WriteDenial, LogCall, Remember, NoteList,
       Forward, ClosePinsReady, Deliver, ServerEOF, ClientGone, ServerGone, GraceOver,
       RunGoes, Answer, ServerExits, ClientLeaves,
       StopsReading, ReadsOn

LEMMA ClientFrame ==
  ASSUME [Next]_vars
  PROVE  UNCHANGED clientVars \/ ClientReads \/ ClientPump \/ PinsTimedOut
BY DEF Next, vars, ServerPump, RunWaits, Peers, Terminated, TakeProbeReply, TakeReply,
       ObserveReply, ClosePinsReady, Deliver, ServerEOF, ClientGone, ServerGone,
       GraceOver, RunGoes, Answer, ServerExits, ClientLeaves,
       StopsReading, ReadsOn

LEMMA ServerFrame ==
  ASSUME [Next]_vars
  PROVE  UNCHANGED serverVars \/ ServerPump
BY DEF Next, vars, ClientReads, ClientPump, RunWaits, Peers, Terminated,
       ReadCall, ReadList, ReadOther, ReadEOF, ReadMessage, SendProbe, PinsChecked,
       PinsTimedOut, JudgeCall, LogDenial, WriteDenial, RecordCall, LogCall, Remember,
       NoteList, Forward, ClientGone, ServerGone, GraceOver, RunGoes, Answer,
       ServerExits, ClientLeaves,
       StopsReading, ReadsOn

LEMMA SharedFrame ==
  ASSUME [Next]_vars
  PROVE  UNCHANGED sharedVars \/ SendProbe \/ Remember \/ NoteList
           \/ TakeProbeReply \/ ClosePinsReady \/ ObserveReply
BY DEF Next, vars, ClientReads, ClientPump, ServerPump, RunWaits, Peers, Terminated,
       ReadCall, ReadList, ReadOther, ReadEOF, ReadMessage, PinsChecked, PinsTimedOut,
       JudgeCall, LogDenial, WriteDenial, RecordCall, LogCall, Forward, Deliver,
       ServerEOF, ClientGone, ServerGone, GraceOver, RunGoes, Answer, ServerExits,
       ClientLeaves, StopsReading, ReadsOn

LEMMA WireFrame ==
  ASSUME [Next]_vars
  PROVE  UNCHANGED wireVars \/ SendProbe \/ Forward \/ TakeProbeReply \/ ObserveReply
           \/ RunWaits \/ Peers
BY DEF Next, vars, ClientReads, ClientPump, ServerPump, Terminated, ReadCall, ReadList,
       ReadOther, ReadEOF, ReadMessage, PinsChecked, PinsTimedOut, JudgeCall, LogDenial,
       WriteDenial, RecordCall, LogCall, Remember, NoteList, ClosePinsReady, Deliver,
       ServerEOF

\* The history without the audit log and what was delivered.
LEMMA HistoryFrame ==
  ASSUME [Next]_vars
  PROVE  UNCHANGED <<sent, refused, shown, cleared>> \/ ClientReads \/ JudgeCall
           \/ Forward \/ TakeProbeReply \/ ObserveReply
BY DEF Next, vars, historyVars, ClientPump, ServerPump, RunWaits, Peers, Terminated,
       SendProbe, PinsChecked, PinsTimedOut, LogDenial, WriteDenial, RecordCall,
       LogCall, Remember, NoteList, ClosePinsReady, Deliver, ServerEOF, ClientGone,
       ServerGone, GraceOver, RunGoes, Answer, ServerExits, ClientLeaves,
       StopsReading, ReadsOn

-----------------------------------------------------------------------------
(***************************************************************************)
(* The type invariant, one group of variables at a time.                   *)
(***************************************************************************)
LEMMA AllowedPasses == Allowed.deny = FALSE
BY DEF Allowed

\* What the client pump reads, and where it goes with it.
LEMMA ReadsType ==
  ASSUME TypeOK, ClientReads
  PROVE  /\ nread' \in Nat
         /\ \/ cur' \in CallMessage /\ cpc' \in {"probe", "decide"}
            \/ cur' \in Message /\ cpc' \in {"note", "forward"}
            \/ cur' = cur /\ cpc' = "stopped"
         /\ verdict' = verdict
         /\ cleared' \subseteq Nat
         /\ UNCHANGED <<sent, refused, shown>>
<1>a. nread \in Nat /\ cleared \subseteq Nat
  BY DEF TypeOK, ClientTypeOK, HistoryTypeOK
<1>0. nread \in Nat /\ nread + 1 \in Nat /\ cleared \subseteq Nat
  BY <1>a
<1>1. ASSUME NEW s \in Scope, NEW t \in Tool, NEW a \in Arg, ReadCall(s, t, a)
      PROVE  /\ cur' \in CallMessage /\ cpc' \in {"probe", "decide"}
             /\ nread' \in Nat /\ verdict' = verdict /\ cleared' \subseteq Nat
             /\ UNCHANGED <<sent, refused, shown>>
  <2>. DEFINE m == [kind |-> "call", id |-> nread + 1, scope |-> s, tool |-> t, arg |-> a]
  <2>1. m \in CallMessage
    BY <1>0 DEF CallMessage
  <2>2. cpc' \in {"probe", "decide"} /\ cleared' \subseteq Nat
    BY <1>0, <1>1 DEF ReadCall
  <2>3. ReadMessage(m)
    BY <1>1 DEF ReadCall
  <2>. QED
    BY <1>0, <2>1, <2>2, <2>3 DEF ReadMessage
<1>2. CASE ReadList
  <2>1. [kind |-> "list", id |-> nread + 1] \in Message
    BY <1>0 DEF PlainMessage, Message
  <2>. QED
    BY <1>0, <1>2, <2>1 DEF ReadList, ReadMessage
<1>3. CASE ReadOther
  <2>1. [kind |-> "other", id |-> nread + 1] \in Message
    BY <1>0 DEF PlainMessage, Message
  <2>. QED
    BY <1>0, <1>3, <2>1 DEF ReadOther, ReadMessage
<1>4. CASE ReadEOF
  BY <1>0, <1>4 DEF ReadEOF, historyVars
<1>. QED
  BY <1>1, <1>2, <1>3, <1>4 DEF ClientReads

LEMMA ClientTypeStep ==
  ASSUME TypeOK, [Next]_vars
  PROVE  ClientTypeOK'
<1>0. ClientTypeOK
  BY DEF TypeOK
<1>1. CASE UNCHANGED clientVars
  BY <1>0, <1>1 DEF ClientTypeOK, clientVars
<1>2. CASE ClientReads
  <2>1. CallMessage \subseteq Message
    BY DEF Message
  <2>. QED
    BY <1>0, <1>2, <2>1, ReadsType DEF ClientTypeOK
<1>3. CASE PinsTimedOut
  BY <1>0, <1>3 DEF PinsTimedOut, ClientGoes, ClientTypeOK
<1>4. CASE SendProbe \/ PinsChecked \/ LogDenial \/ LogCall
  BY <1>0, <1>4 DEF SendProbe, PinsChecked, LogDenial, LogCall, ClientGoes, ClientTypeOK
<1>5. CASE RecordCall \/ Remember \/ NoteList
  BY <1>0, <1>5 DEF RecordCall, Remember, NoteList, ClientGoes, ClientTypeOK
<1>6. CASE JudgeCall
  BY <1>0, <1>6, DecideType DEF JudgeCall, ClientGoes, ClientTypeOK
<1>7. CASE WriteDenial \/ Forward
  <2>1. /\ cpc' \in {"read", "stopped"} /\ nread' = nread
        /\ cur' = NoMessage /\ verdict' = Allowed
    BY <1>7 DEF WriteDenial, Forward, ClientGoes
  <2>. QED
    BY <1>0, <2>1, AllowedPasses DEF ClientTypeOK
<1>. QED
  BY <1>1, <1>2, <1>3, <1>4, <1>5, <1>6, <1>7, ClientFrame DEF ClientPump

\* What the server pump does to the state the two pumps and the engine share.
LEMMA RepliesType ==
  ASSUME TypeOK, TakeProbeReply \/ ObserveReply
  PROVE  /\ Head(replies) \in Reply /\ Tail(replies) \in Seq(Reply)
         /\ EngineTypeOK' /\ UNCHANGED <<calls, seen>>
         /\ shown' \in [Tool -> Def \cup {NoDef}] /\ cleared' \subseteq Nat
         /\ UNCHANGED <<clientVars, sent, refused>>
         /\ replies' = Tail(replies)
<1>0. replies \in Seq(Reply) /\ replies # <<>>
  BY DEF TypeOK, WireTypeOK, TakeProbeReply, ObserveReply
<1>1. Head(replies) \in Reply /\ Tail(replies) \in Seq(Reply)
  BY <1>0
<1>2. /\ ScreenReply(Head(replies)) \/ UNCHANGED <<engineVars, shown, cleared>>
      /\ \E to \in {"ready", "deliver"} : TakeReply(to)
  BY DEF TakeProbeReply, ObserveReply
<1>3. EngineTypeOK /\ shown \in [Tool -> Def \cup {NoDef}] /\ cleared \subseteq Nat
  BY DEF TypeOK, HistoryTypeOK
<1>4. CASE UNCHANGED <<engineVars, shown, cleared>>
  BY <1>1, <1>2, <1>3, <1>4 DEF engineVars, EngineTypeOK, TakeReply
<1>5. CASE IsListing(Head(replies)) /\ ScreenToolList(Head(replies).listing)
  <2>1. Head(replies).listing \in ToolList
    BY <1>1, <1>5, ReplyType
  <2>2. EngineTypeOK' /\ shown' \in [Tool -> Def \cup {NoDef}] /\ cleared' \subseteq Nat
    BY <1>5, <2>1, ScreenToolListType
  <2>3. UNCHANGED <<calls, seen>>
    BY <1>5 DEF ScreenToolList
  <2>. QED
    BY <1>1, <1>2, <2>2, <2>3 DEF TakeReply
<1>. QED
  BY <1>2, <1>4, <1>5 DEF ScreenReply

LEMMA EngineTypeStep ==
  ASSUME TypeOK, [Next]_vars
  PROVE  EngineTypeOK'
<1>0. EngineTypeOK /\ ClientTypeOK
  BY DEF TypeOK
<1>1. CASE UNCHANGED engineVars
  BY <1>0, <1>1 DEF engineVars, EngineTypeOK
<1>2. CASE RecordCall
  <2>1. cur.scope \in Scope /\ cur.tool \in Tool
    BY <1>0, <1>2 DEF RecordCall, ClientGoes, ClientTypeOK, CallMessage
  <2>. QED
    BY <1>0, <1>2, <2>1, StainFacts, LookupType DEF RecordCall, Record
<1>3. CASE TakeProbeReply \/ ObserveReply
  BY <1>3, RepliesType
<1>. QED
  BY <1>1, <1>2, <1>3, EngineFrame

LEMMA ServerTypeStep ==
  ASSUME TypeOK, [Next]_vars
  PROVE  ServerTypeOK'
<1>0. ServerTypeOK
  BY DEF TypeOK
<1>1. CASE UNCHANGED serverVars
  BY <1>0, <1>1 DEF serverVars, ServerTypeOK
<1>2. CASE TakeProbeReply
  BY <1>0, <1>2 DEF TakeProbeReply, TakeReply, ServerTypeOK
<1>3. CASE ObserveReply
  <2>1. rsp' \in {Head(replies), Screened(Head(replies))} /\ spc' = "deliver"
    BY <1>3 DEF ObserveReply, TakeReply
  <2>2. rsp' \in Reply
    BY <1>3, <2>1, RepliesType, ScreenedType
  <2>. QED
    BY <2>1, <2>2 DEF ServerTypeOK
<1>4. CASE ClosePinsReady \/ Deliver \/ ServerEOF
  BY <1>0, <1>4 DEF ClosePinsReady, Deliver, ServerEOF, ServerTypeOK
<1>. QED
  BY <1>1, <1>2, <1>3, <1>4, ServerFrame DEF ServerPump

LEMMA SharedTypeStep ==
  ASSUME TypeOK, [Next]_vars
  PROVE  SharedTypeOK'
<1>0. SharedTypeOK /\ ClientTypeOK
  BY DEF TypeOK
<1>1. CASE UNCHANGED sharedVars
  BY <1>0, <1>1 DEF sharedVars, SharedTypeOK
<1>2. CASE SendProbe
  <2>1. (pinsReady \/ (~probed /\ ~serverUp)) \in BOOLEAN
    OBVIOUS
  <2>. QED
    BY <1>0, <1>2, <2>1 DEF SendProbe, SharedTypeOK
<1>3. CASE Remember \/ NoteList
  <2>1. cur.id \in Nat
    BY <1>0, <1>3 DEF Remember, NoteList, ClientGoes, ClientTypeOK, Message,
                      CallMessage, PlainMessage
  <2>. QED
    BY <1>0, <1>3, <2>1 DEF Remember, NoteList, SharedTypeOK
<1>4. CASE TakeProbeReply \/ ClosePinsReady \/ ObserveReply
  BY <1>0, <1>4 DEF TakeProbeReply, ClosePinsReady, ObserveReply, TakeReply, SharedTypeOK
<1>. QED
  BY <1>1, <1>2, <1>3, <1>4, SharedFrame

LEMMA WireTypeStep ==
  ASSUME TypeOK, [Next]_vars
  PROVE  WireTypeOK'
<1>0. WireTypeOK /\ ClientTypeOK
  BY DEF TypeOK
<1>1. CASE UNCHANGED wireVars
  BY <1>0, <1>1 DEF wireVars, WireTypeOK
<1>2. CASE SendProbe
  BY <1>0, <1>2 DEF SendProbe, WireTypeOK
<1>3. CASE Forward
  <2>1. cur \in Message
    BY <1>0, <1>3 DEF Forward, ClientGoes, ClientTypeOK
  <2>. QED
    BY <1>0, <1>3, <2>1 DEF Forward, WireTypeOK
<1>4. CASE TakeProbeReply \/ ObserveReply
  <2>1. replies' \in Seq(Reply)
    BY <1>4, RepliesType
  <2>2. UNCHANGED <<atServer, serverUp, stdinOpen, clientUp, stalled, main>>
    BY <1>4 DEF TakeProbeReply, ObserveReply, TakeReply
  <2>. QED
    BY <1>0, <2>1, <2>2 DEF WireTypeOK
<1>5. CASE RunWaits
  BY <1>0, <1>5 DEF RunWaits, ClientGone, ServerGone, GraceOver, RunGoes, WireTypeOK
<1>6. ASSUME NEW m \in atServer, Answer(m)
      PROVE  WireTypeOK'
  <2>1. Results(m) \subseteq Reply
    BY <1>0, <1>6, ResultsType DEF WireTypeOK
  <2>2. replies' \in Seq(Reply)
    BY <1>0, <1>6, <2>1 DEF Answer, WireTypeOK
  <2>. QED
    BY <1>0, <1>6, <2>2 DEF Answer, WireTypeOK
<1>7. CASE ServerExits \/ ClientLeaves
  BY <1>0, <1>7 DEF ServerExits, ClientLeaves, WireTypeOK
<1>8. ASSUME NEW p \in {"server", "client"}, StopsReading(p) \/ ReadsOn(p)
      PROVE  WireTypeOK'
  BY <1>0, <1>8 DEF StopsReading, ReadsOn, WireTypeOK
<1>. QED
  BY <1>1, <1>2, <1>3, <1>4, <1>5, <1>6, <1>7, <1>8, WireFrame DEF Peers

LEMMA HistoryTypeStep ==
  ASSUME TypeOK, [Next]_vars
  PROVE  HistoryTypeOK'
<1>0. HistoryTypeOK /\ ClientTypeOK
  BY DEF TypeOK
<1>1. CASE UNCHANGED <<sent, refused, shown, cleared>>
  BY <1>0, <1>1 DEF HistoryTypeOK
<1>2. CASE ClientReads
  BY <1>0, <1>2, ReadsType DEF HistoryTypeOK
<1>3. CASE JudgeCall
  <2>1. cur \in CallMessage
    BY <1>0, <1>3 DEF JudgeCall, ClientGoes, ClientTypeOK
  <2>. QED
    BY <1>0, <1>3, <2>1 DEF JudgeCall, HistoryTypeOK
<1>4. CASE Forward
  <2>1. cur.kind = "call" => cur \in CallMessage
    BY <1>0, <1>4 DEF Forward, ClientGoes, ClientTypeOK, Message, PlainMessage
  <2>2. sent' \in {sent, Append(sent, cur)} /\ (cur.kind # "call" => sent' = sent)
        /\ UNCHANGED <<refused, shown, cleared>>
    BY <1>4 DEF Forward
  <2>. QED
    BY <1>0, <2>1, <2>2 DEF HistoryTypeOK
<1>5. CASE TakeProbeReply \/ ObserveReply
  BY <1>0, <1>5, RepliesType DEF HistoryTypeOK
<1>. QED
  BY <1>1, <1>2, <1>3, <1>4, <1>5, HistoryFrame

LEMMA TypeOKInit == Init => TypeOK
<1>. SUFFICES ASSUME Init PROVE TypeOK
  OBVIOUS
<1>1. EngineTypeOK
  BY EngineInitFacts DEF Init
<1>2. ClientTypeOK
  BY AllowedPasses DEF Init, ClientTypeOK
<1>3. ServerTypeOK /\ SharedTypeOK
  BY DEF Init, ServerTypeOK, SharedTypeOK
<1>4. WireTypeOK
  <2>1. <<>> \in Seq(Reply)
    OBVIOUS
  <2>. QED
    BY <2>1 DEF Init, WireTypeOK
<1>5. HistoryTypeOK
  <2>1. <<>> \in Seq(CallMessage)
    OBVIOUS
  <2>2. [t \in Tool |-> NoDef] \in [Tool -> Def \cup {NoDef}]
    OBVIOUS
  <2>. QED
    BY <2>1, <2>2 DEF Init, HistoryTypeOK
<1>. QED
  BY <1>1, <1>2, <1>3, <1>4, <1>5 DEF TypeOK

LEMMA TypeOKStep == TypeOK /\ [Next]_vars => TypeOK'
  BY EngineTypeStep, ClientTypeStep, ServerTypeStep, SharedTypeStep, WireTypeStep,
     HistoryTypeStep DEF TypeOK

(***************************************************************************)
(* Type correctness: what the two pumps keep and exchange is always of the *)
(* types their Go declarations give it, and a message being screened is a  *)
(* tools/call.                                                             *)
(***************************************************************************)
THEOREM TypeCorrect == Spec => []TypeOK
  BY TypeOKInit, TypeOKStep, PTL DEF Spec

-----------------------------------------------------------------------------
(***************************************************************************)
(* No forbidden flow.  The scopes carry what the calls sent have brought,  *)
(* and what the call in hand brings once it is recorded; a call that was   *)
(* judged breaks no rule, and nothing has been sent since it was judged,   *)
(* for the one pump that judges is the one that sends.                     *)
(***************************************************************************)

\* The pump holds a call that was recorded and is not yet written.
InHand == cpc \in {"log", "remember"} \/ (cpc = "forward" /\ cur.kind = "call")

\* The pump holds a call that was let through.
Passed == cpc = "record" \/ InHand

BroughtInHand(s) == IF InHand /\ cur.scope = s THEN Stains(Labels(cur)) ELSE {}

\* A list is never taken for a call.
NotesAreLists == cpc = "note" => cur.kind # "call"

ScopesCarry ==
    cpc # "stopped" =>
      \A s \in Scope : Carried(s) = Brought(Len(sent), s) \cup BroughtInHand(s)

PassedBreaksNothing ==
    Enforced /\ Passed =>
      \A r \in DOMAIN Rules :
        Rules[r].sink \cap Labels(cur) # {} =>
          ~(Rules[r].after \subseteq Brought(Len(sent), cur.scope))

FlowInv ==
    /\ NotesAreLists
    /\ ScopesCarry
    /\ PassedBreaksNothing
    /\ NoForbiddenFlow

LEMMA FlowFrame ==
  ASSUME [Next]_vars
  PROVE  UNCHANGED <<clientVars, seen, sent>>
           \/ ClientReads \/ ClientPump \/ PinsTimedOut
BY DEF Next, vars, engineVars, historyVars, ServerPump, RunWaits, Peers, Terminated,
       TakeProbeReply, TakeReply, ObserveReply, ScreenReply, ScreenToolList,
       ClosePinsReady, Deliver, ServerEOF, ClientGone, ServerGone, GraceOver, RunGoes,
       Answer, ServerExits, ClientLeaves,
       StopsReading, ReadsOn

LEMMA LabelsType ==
  ASSUME NEW m
  PROVE  Labels(m) \in SUBSET Label
BY LookupType DEF Labels

\* One more call sent brings its labels to its scope.
LEMMA BroughtAppend ==
  ASSUME sent \in Seq(CallMessage), NEW m \in CallMessage, sent' = Append(sent, m)
  PROVE  /\ Len(sent') = Len(sent) + 1
         /\ \A n \in 1..Len(sent) : sent'[n] = sent[n]
         /\ sent'[Len(sent) + 1] = m
         /\ \A s : \A n \in 0..Len(sent) : Brought(n, s)' = Brought(n, s)
         /\ \A s : Brought(Len(sent), s)' =
                     Brought(Len(sent), s)
                       \cup IF m.scope = s THEN Stains(Labels(m)) ELSE {}
<1>1. /\ Len(sent) \in Nat /\ Len(sent') = Len(sent) + 1
      /\ \A n \in 1..Len(sent) : sent'[n] = sent[n]
      /\ sent'[Len(sent) + 1] = m
  OBVIOUS
<1>2. ASSUME NEW n \in 0..Len(sent), NEW s
      PROVE  Brought(n, s)' = Brought(n, s)
  <2>1. \A i \in 1..n : sent'[i] = sent[i]
    BY <1>1
  <2>. QED
    BY <2>1 DEF Brought, Labels
<1>3. PICK k \in Nat : k = Len(sent)
  BY <1>1
<1>4. ASSUME NEW s
      PROVE  Brought(k + 1, s)' =
               Brought(k, s) \cup IF m.scope = s THEN Stains(Labels(m)) ELSE {}
  <2>. DEFINE W == {i \in 1..k : sent[i].scope = s}
  <2>1. {i \in 1..(k + 1) : sent'[i].scope = s}
          = W \cup IF m.scope = s THEN {k + 1} ELSE {}
    BY <1>1, <1>3
  <2>2. \A i \in W : sent'[i] = sent[i]
    BY <1>1, <1>3
  <2>3. Brought(k, s) = UNION {Stains(Labels(sent[i])) : i \in W}
    BY DEF Brought
  <2>. HIDE DEF W
  <2>4. Brought(k + 1, s)' =
          UNION {Stains(Labels(sent'[i])) : i \in W \cup IF m.scope = s THEN {k + 1} ELSE {}}
    BY <2>1 DEF Brought, Labels
  <2>5. UNION {Stains(Labels(sent'[i])) : i \in W} = Brought(k, s)
    BY <2>2, <2>3
  <2>6. sent'[k + 1] = m
    BY <1>1, <1>3
  <2>7. CASE m.scope = s
    BY <2>4, <2>5, <2>6, <2>7
  <2>8. CASE m.scope # s
    BY <2>4, <2>5, <2>8
  <2>. QED
    BY <2>7, <2>8
<1>5. \A s : Brought(Len(sent), s)' = Brought(k + 1, s)'
  BY <1>1, <1>3 DEF Brought
<1>. QED
  BY <1>1, <1>2, <1>3, <1>4, <1>5

LEMMA BroughtKept ==
  ASSUME UNCHANGED sent
  PROVE  \A n, s : Brought(n, s)' = Brought(n, s)
BY DEF Brought, Labels

LEMMA CarriedKept ==
  ASSUME UNCHANGED seen
  PROVE  \A s : Carried(s)' = Carried(s)
BY DEF Carried

\* ScopesCarry, when the pump holds no recorded call.
LEMMA EmptyHand ==
  ASSUME ScopesCarry, ~InHand, cpc # "stopped"
  PROVE  \A s \in Scope : Carried(s) = Brought(Len(sent), s)
BY DEF ScopesCarry, BroughtInHand

LEMMA EmptiedHand ==
  ASSUME ~InHand',
         cpc' # "stopped" => \A s \in Scope : Carried(s)' = Brought(Len(sent), s)'
  PROVE  ScopesCarry'
BY DEF ScopesCarry, BroughtInHand

LEMMA FlowInvInit == Init => FlowInv
<1>. SUFFICES ASSUME Init PROVE FlowInv
  OBVIOUS
<1>1. sent = <<>> /\ cpc = "read" /\ Len(sent) = 0 /\ DOMAIN sent = {}
  BY DEF Init
<1>2. \A s : Brought(0, s) = {}
  BY DEF Brought
<1>3. \A s \in Scope : Carried(s) = {}
  BY EngineInitFacts DEF Init
<1>. QED
  BY <1>1, <1>2, <1>3 DEF FlowInv, NotesAreLists, ScopesCarry, BroughtInHand, InHand,
                          PassedBreaksNothing, Passed, NoForbiddenFlow

\* The steps that keep what was read, what was sent and the call in hand.
LEMMA FlowInvKept ==
  ASSUME FlowInv, UNCHANGED <<seen, sent>>,
         ~InHand \/ cpc = "stopped", ~InHand', ~Passed', NotesAreLists',
         cpc' # "stopped" => cpc # "stopped"
  PROVE  FlowInv'
<1>1. \A n, s : Brought(n, s)' = Brought(n, s)
  BY BroughtKept
<1>2. \A s : Carried(s)' = Carried(s)
  BY CarriedKept
<1>3. ScopesCarry'
  BY <1>1, <1>2 DEF FlowInv, ScopesCarry, BroughtInHand
<1>4. NoForbiddenFlow'
  BY <1>1 DEF FlowInv, NoForbiddenFlow, Breaks, Labels
<1>. QED
  BY <1>3, <1>4 DEF FlowInv, PassedBreaksNothing

LEMMA FlowInvStep == TypeOK /\ FlowInv /\ [Next]_vars => FlowInv'
<1>. SUFFICES ASSUME TypeOK, FlowInv, [Next]_vars PROVE FlowInv'
  OBVIOUS
<1>0. ClientTypeOK /\ EngineTypeOK /\ sent \in Seq(CallMessage)
  BY DEF TypeOK, HistoryTypeOK
<1>k. \A m \in CallMessage : m.kind = "call" /\ m.scope \in Scope /\ m.tool \in Tool
  BY DEF CallMessage
<1>1. CASE UNCHANGED <<clientVars, seen, sent>>
  <2>1. UNCHANGED <<cpc, cur, seen, sent>>
    BY <1>1 DEF clientVars
  <2>. QED
    BY BroughtKept, CarriedKept, <2>1 DEF FlowInv, NotesAreLists, ScopesCarry, BroughtInHand, InHand,
                PassedBreaksNothing, Passed, NoForbiddenFlow, Breaks, Labels
<1>2. CASE ClientReads
  <2>1. /\ UNCHANGED <<seen, sent>> /\ cpc = "read"
        /\ cpc' \in {"probe", "decide", "note", "forward", "stopped"}
        /\ cpc' \in {"note", "forward"} => cur'.kind # "call"
    BY <1>2 DEF ClientReads, ReadCall, ReadList, ReadOther, ReadEOF, ReadMessage,
                engineVars, historyVars
  <2>. QED
    BY <2>1, FlowInvKept DEF InHand, Passed, NotesAreLists
<1>3. CASE PinsTimedOut \/ SendProbe \/ PinsChecked \/ LogDenial \/ WriteDenial
  <2>1. /\ UNCHANGED <<seen, sent>>
        /\ cpc \in {"probe", "wait", "decide", "log denial", "deny"}
        /\ cpc' \in {"wait", "decide", "deny", "read", "stopped"}
    BY <1>3 DEF PinsTimedOut, SendProbe, PinsChecked, LogDenial, WriteDenial,
                ClientGoes, engineVars, historyVars
  <2>. QED
    BY <2>1, FlowInvKept DEF InHand, Passed, NotesAreLists
<1>4. CASE NoteList
  <2>1. /\ UNCHANGED <<seen, sent, cur>> /\ cpc = "note" /\ cpc' = "forward"
    BY <1>4 DEF NoteList, ClientGoes, engineVars, historyVars
  <2>. QED
    BY <2>1, FlowInvKept DEF FlowInv, InHand, Passed, NotesAreLists
<1>5. CASE JudgeCall
  <2>1. /\ UNCHANGED <<seen, sent, cur>> /\ cpc = "decide"
        /\ cpc' \in {"log denial", "record"}
        /\ cpc' = "record" => ~Blocked(Decide(cur.scope, This, cur.tool, cur.arg))
    BY <1>5 DEF JudgeCall, ClientGoes, engineVars
  <2>2. cur.scope \in Scope /\ Carried(cur.scope) = Brought(Len(sent), cur.scope)
    BY <1>0, <1>k, <2>1 DEF ClientTypeOK, FlowInv, ScopesCarry, BroughtInHand, InHand
  <2>3. ScopesCarry' /\ NoForbiddenFlow' /\ NotesAreLists'
    <3>1. ~InHand /\ ~InHand' /\ NotesAreLists'
      BY <2>1 DEF InHand, NotesAreLists
    <3>2. /\ \A n, s : Brought(n, s)' = Brought(n, s)
          /\ \A s : Carried(s)' = Carried(s) /\ Len(sent') = Len(sent)
      BY <2>1, BroughtKept, CarriedKept
    <3>3. \A s \in Scope : Carried(s) = Brought(Len(sent), s)
      BY <2>1, <3>1, EmptyHand DEF FlowInv
    <3>4. \A s \in Scope : Carried(s)' = Brought(Len(sent), s)'
      BY <2>1, <3>2, <3>3
    <3>5. NoForbiddenFlow'
      BY <2>1, <3>2 DEF FlowInv, NoForbiddenFlow, Breaks, Labels
    <3>. QED
      BY <3>1, <3>4, <3>5, EmptiedHand
  <2>4. ASSUME Enforced, cpc' = "record"
        PROVE  \A r \in DOMAIN Rules :
                 Rules[r].sink \cap Labels(cur) # {} =>
                   ~(Rules[r].after \subseteq Brought(Len(sent), cur.scope))
    <3>1. Broken(cur.scope, Labels(cur)) = {}
      BY <2>1, <2>4, DecideFacts, ProxyAssumption DEF Labels
    <3>. QED
      BY <2>2, <3>1 DEF Broken
  <2>5. PassedBreaksNothing'
    <3>1. Brought(Len(sent), cur.scope)' = Brought(Len(sent), cur.scope)
            /\ Labels(cur)' = Labels(cur) /\ (Passed' => cpc' = "record")
      BY BroughtKept, CarriedKept, <2>1 DEF Labels, Passed, InHand
    <3>. QED
      BY <2>4, <3>1 DEF PassedBreaksNothing, Enforced
  <2>. QED
    BY <2>3, <2>5 DEF FlowInv
<1>6. CASE RecordCall
  <2>1. /\ UNCHANGED <<sent, cur>> /\ cpc = "record" /\ cpc' = "log"
        /\ Stain(cur.scope, cur.tool, Labels(cur))
        /\ cur.scope \in Scope /\ cur.tool \in Tool
    BY <1>0, <1>6, <1>k DEF RecordCall, ClientGoes, ClientTypeOK, historyVars, Record,
                            Labels
  <2>. PICK z \in Scope : z = cur.scope
    BY <2>1
  <2>2. /\ Carried(z)' = Carried(z) \cup Stains(Labels(cur))
        /\ \A s \in Scope \ {z} : Carried(s)' = Carried(s)
    BY <1>0, <2>1, StainFacts, LabelsType
  <2>3. \A n, s : Brought(n, s)' = Brought(n, s)
    BY BroughtKept, CarriedKept, <2>1
  <2>4. \A s \in Scope : Carried(s) = Brought(Len(sent), s)
    BY <2>1, EmptyHand DEF FlowInv, InHand
  <2>5. ScopesCarry'
    <3>. SUFFICES ASSUME NEW s \in Scope
                  PROVE  Carried(s)' = Brought(Len(sent), s)' \cup BroughtInHand(s)'
      BY DEF ScopesCarry
    <3>1. Brought(Len(sent), s)' = Brought(Len(sent), s)
      BY <2>1, <2>3
    <3>2. CASE s = z
      <4>1. BroughtInHand(s)' = Stains(Labels(cur))
        <5>1. InHand' /\ cur' = cur
          BY <2>1 DEF InHand
        <5>2. BroughtInHand(s)' = Stains(Labels(cur))'
          BY <3>2, <5>1 DEF BroughtInHand
        <5>3. Stains(Labels(cur))' = Stains(Labels(cur))
          BY <5>1 DEF Labels, Stains
        <5>. QED
          BY <5>2, <5>3
      <4>. QED
        BY <2>2, <2>4, <3>1, <3>2, <4>1
    <3>3. CASE s # z
      <4>1. BroughtInHand(s)' = {}
        BY <2>1, <3>3 DEF BroughtInHand, InHand
      <4>. QED
        BY <2>2, <2>4, <3>1, <3>3, <4>1
    <3>. QED
      BY <3>2, <3>3
  <2>6. PassedBreaksNothing' /\ NoForbiddenFlow' /\ NotesAreLists'
    BY <2>1, <2>3 DEF FlowInv, PassedBreaksNothing, Passed, InHand, NoForbiddenFlow,
                      Breaks, Labels, NotesAreLists
  <2>. QED
    BY <2>5, <2>6 DEF FlowInv
<1>7. CASE LogCall \/ Remember
  <2>1. /\ UNCHANGED <<seen, sent, cur>>
        /\ cpc \in {"log", "remember"} /\ cpc' \in {"remember", "forward"}
        /\ cur.kind = "call"
    BY <1>0, <1>7, <1>k DEF LogCall, Remember, ClientGoes, ClientTypeOK, engineVars,
                            historyVars
  <2>2. /\ \A n, s : Brought(n, s)' = Brought(n, s)
        /\ \A s : Carried(s)' = Carried(s)
    BY BroughtKept, CarriedKept, <2>1
  <2>. QED
    BY <2>1, <2>2 DEF FlowInv, ScopesCarry, BroughtInHand, InHand, PassedBreaksNothing,
                      Passed, NoForbiddenFlow, Breaks, Labels, NotesAreLists
<1>8. CASE Forward
  <2>1. /\ UNCHANGED seen /\ cpc = "forward" /\ cpc' \in {"read", "stopped"}
        /\ cpc' = "read" /\ cur.kind = "call" => sent' = Append(sent, cur)
        /\ ~(cpc' = "read" /\ cur.kind = "call") => sent' = sent
        /\ cur \in Message
    BY <1>0, <1>8 DEF Forward, ClientGoes, ClientTypeOK, engineVars
  <2>2. CASE cpc' = "read" /\ cur.kind = "call"
    <3>1. cur \in CallMessage /\ cur.scope \in Scope /\ Len(sent) \in Nat
      BY <1>0, <1>k, <2>1, <2>2 DEF Message, PlainMessage
    <3>2. /\ Len(sent') = Len(sent) + 1
          /\ \A n \in 1..Len(sent) : sent'[n] = sent[n]
          /\ sent'[Len(sent) + 1] = cur
          /\ \A s : \A n \in 0..Len(sent) : Brought(n, s)' = Brought(n, s)
          /\ \A s : Brought(Len(sent), s)' =
                      Brought(Len(sent), s)
                        \cup IF cur.scope = s THEN Stains(Labels(cur)) ELSE {}
      BY <1>0, <2>1, <2>2, <3>1, BroughtAppend
    <3>3. ScopesCarry'
      <4>1. \A s : Carried(s)' = Carried(s)
        BY BroughtKept, CarriedKept, <2>1
      <4>2. \A s \in Scope :
              Carried(s) = Brought(Len(sent), s)
                             \cup IF cur.scope = s THEN Stains(Labels(cur)) ELSE {}
        BY <2>1, <2>2 DEF FlowInv, ScopesCarry, BroughtInHand, InHand
      <4>. QED
        BY <2>1, <2>2, <3>2, <4>1, <4>2 DEF ScopesCarry, BroughtInHand, InHand
    <3>4. NoForbiddenFlow'
      <4>. SUFFICES ASSUME Enforced, NEW n \in 1..(Len(sent) + 1)
                    PROVE  ~Breaks(n)'
        BY <1>0, <3>1, <3>2, <2>1, <2>2 DEF NoForbiddenFlow, Enforced
      <4>1. CASE n \in 1..Len(sent)
        <5>1. n - 1 \in 0..Len(sent) /\ sent'[n] = sent[n]
          BY <3>1, <3>2, <4>1
        <5>2. ~Breaks(n)
          BY <1>0, <4>1 DEF FlowInv, NoForbiddenFlow
        <5>. QED
          BY <3>2, <5>1, <5>2 DEF Breaks, Labels
      <4>2. CASE n = Len(sent) + 1
        <5>. PICK z \in Scope : z = cur.scope
          BY <3>1
        <5>1. n - 1 = Len(sent) /\ n - 1 \in 0..Len(sent)
          BY <3>1, <4>2
        <5>2. sent'[n] = cur
          BY <3>2, <4>2
        <5>3. Brought(n - 1, z)' = Brought(Len(sent), z)
          BY <3>2, <5>1
        <5>4. \A r \in DOMAIN Rules :
                Rules[r].sink \cap Labels(cur) # {} =>
                  ~(Rules[r].after \subseteq Brought(Len(sent), z))
          BY <2>1, <2>2 DEF FlowInv, PassedBreaksNothing, Passed, InHand
        <5>. QED
          BY <5>2, <5>3, <5>4 DEF Breaks, Labels
      <4>. QED
        BY <3>1, <4>1, <4>2
    <3>5. PassedBreaksNothing' /\ NotesAreLists'
      BY <2>2 DEF PassedBreaksNothing, Passed, InHand, NotesAreLists
    <3>. QED
      BY <3>3, <3>4, <3>5 DEF FlowInv
  <2>3. CASE ~(cpc' = "read" /\ cur.kind = "call")
    <3>1. ~InHand \/ cpc' = "stopped"
      BY <2>1, <2>3 DEF InHand
    <3>2. /\ \A n, s : Brought(n, s)' = Brought(n, s)
          /\ \A s : Carried(s)' = Carried(s)
      BY BroughtKept, CarriedKept, <2>1, <2>3
    <3>3. ~InHand' /\ ~Passed' /\ NotesAreLists'
      BY <2>1 DEF InHand, Passed, NotesAreLists
    <3>4. ScopesCarry'
      <4>. SUFFICES ASSUME cpc' # "stopped", NEW s \in Scope
                    PROVE  Carried(s)' = Brought(Len(sent), s)'
        BY <3>3, EmptiedHand
      <4>1. Carried(s) = Brought(Len(sent), s)
        BY <2>1, <3>1, EmptyHand DEF FlowInv
      <4>. QED
        BY <2>1, <2>3, <3>2, <4>1
    <3>5. NoForbiddenFlow'
      BY <2>1, <2>3, <3>2 DEF FlowInv, NoForbiddenFlow, Breaks, Labels
    <3>. QED
      BY <3>3, <3>4, <3>5 DEF FlowInv, PassedBreaksNothing
  <2>. QED
    BY <2>2, <2>3
<1>. QED
  BY <1>1, <1>2, <1>3, <1>4, <1>5, <1>6, <1>7, <1>8, FlowFrame DEF ClientPump

(***************************************************************************)
(* For every policy, in enforce mode, no call the server gets breaks a     *)
(* rule, given the calls it got before in the same scope.                  *)
(***************************************************************************)
THEOREM NoForbiddenFlowHolds == Spec => []NoForbiddenFlow
<1>1. Init => TypeOK /\ FlowInv
  BY TypeOKInit, FlowInvInit
<1>2. TypeOK /\ FlowInv /\ [Next]_vars => TypeOK' /\ FlowInv'
  BY TypeOKStep, FlowInvStep
<1>3. FlowInv => NoForbiddenFlow
  BY DEF FlowInv
<1>. QED
  BY <1>1, <1>2, <1>3, PTL DEF Spec

-----------------------------------------------------------------------------
(***************************************************************************)
(* Pins.  The engine's pin of a tool says what the last definition shown   *)
(* says; whenever that definition matches while a call of the tool is      *)
(* screened, the call is cleared; and a call that passed is cleared.       *)
(***************************************************************************)
PinsAgree ==
    \A t \in Tool :
      Pinned(This, t) /\ pins[<<This, t>>] = "ok" => Current(t)

MatchedIsCleared ==
    \A t \in Tool :
      Screening(t) /\ Pinned(This, t) /\ Current(t) => cur.id \in cleared

PassedIsCleared ==
    Enforced /\ Passed /\ PinsGate(This, cur.tool) => cur.id \in cleared

PinInv ==
    /\ PinsAgree
    /\ MatchedIsCleared
    /\ PassedIsCleared
    /\ PinnedCallsCleared

LEMMA PinInvInit == Init => PinInv
<1>. SUFFICES ASSUME Init PROVE PinInv
  OBVIOUS
<1>1. cpc = "read" /\ DOMAIN sent = {}
  BY DEF Init
<1>2. \A t \in Tool : pins[<<This, t>>] = "unchecked"
  BY ProxyAssumption DEF Init, EngineInit, Key
<1>. QED
  BY <1>1, <1>2 DEF PinInv, PinsAgree, MatchedIsCleared, Screening, PassedIsCleared,
                    Passed, InHand, PinnedCallsCleared

LEMMA PinFrame ==
  ASSUME [Next]_vars
  PROVE  UNCHANGED <<clientVars, pins, shown, cleared, sent>>
           \/ ClientReads \/ ClientPump \/ PinsTimedOut \/ TakeProbeReply \/ ObserveReply
BY DEF Next, vars, engineVars, historyVars, ServerPump, RunWaits, Peers, Terminated,
       ClosePinsReady, Deliver, ServerEOF, ClientGone, ServerGone, GraceOver, RunGoes,
       Answer, ServerExits, ClientLeaves,
       StopsReading, ReadsOn

\* The steps that screen no list and let no call through.
LEMMA PinInvKept ==
  ASSUME PinInv, UNCHANGED <<pins, shown, cleared, sent>>,
         \A t \in Tool : Screening(t)' => Screening(t) /\ cur' = cur,
         Passed' => Passed /\ cur' = cur
  PROVE  PinInv'
BY DEF PinInv, PinsAgree, Current, MatchedIsCleared, PassedIsCleared, PinnedCallsCleared,
       Enforced

\* A screened list.
LEMMA PinInvScreened ==
  ASSUME TypeOK, PinInv, NEW L \in ToolList, ScreenToolList(L),
         UNCHANGED <<clientVars, sent>>
  PROVE  PinInv'
<1>0. /\ EngineTypeOK /\ ClientTypeOK
      /\ UNCHANGED <<cpc, cur>>
      /\ \A t : Screening(t)' = Screening(t)
  BY DEF TypeOK, clientVars, Screening
<1>1. /\ \A t \in Tool :
           pins'[<<This, t>>] =
             IF t \in DOMAIN L /\ Pinned(This, t)
             THEN IF Matches(This, t, L[t]) THEN "ok" ELSE "mismatch"
             ELSE pins[<<This, t>>]
  BY <1>0, CheckPinsFacts, ProxyAssumption DEF ScreenToolList, AnyServer
<1>2. \A t \in Tool : shown'[t] = IF t \in DOMAIN L THEN L[t] ELSE shown[t]
  BY DEF ScreenToolList
<1>3. \A t \in DOMAIN L : t \in Tool /\ L[t] # NoDef
  BY ProxyAssumption DEF ToolList
<1>4. cleared \subseteq cleared'
  BY DEF ScreenToolList
<1>5. PinsAgree'
  <2>. SUFFICES ASSUME NEW t \in Tool, Pinned(This, t), pins'[<<This, t>>] = "ok"
                PROVE  Current(t)'
    BY DEF PinsAgree
  <2>1. CASE t \in DOMAIN L
    BY <1>1, <1>2, <1>3, <2>1 DEF Current
  <2>2. CASE t \notin DOMAIN L
    BY <1>1, <1>2, <2>2 DEF PinInv, PinsAgree, Current
  <2>. QED
    BY <2>1, <2>2
<1>6. MatchedIsCleared'
  <2>. SUFFICES ASSUME NEW t \in Tool, Screening(t), Pinned(This, t), Current(t)'
                PROVE  cur.id \in cleared'
    BY <1>0 DEF MatchedIsCleared
  <2>1. CASE t \in DOMAIN L
    BY <1>2, <2>1 DEF Current, ScreenToolList
  <2>2. CASE t \notin DOMAIN L
    BY <1>2, <1>4, <2>2 DEF PinInv, MatchedIsCleared, Current
  <2>. QED
    BY <2>1, <2>2
<1>7. PassedIsCleared' /\ PinnedCallsCleared'
  BY <1>0, <1>4 DEF PinInv, PassedIsCleared, PinnedCallsCleared, Passed, InHand, Enforced
<1>. QED
  BY <1>5, <1>6, <1>7 DEF PinInv

LEMMA PinInvStep == TypeOK /\ NotesAreLists /\ PinInv /\ [Next]_vars => PinInv'
<1>. SUFFICES ASSUME TypeOK, NotesAreLists, PinInv, [Next]_vars PROVE PinInv'
  OBVIOUS
<1>0. ClientTypeOK /\ sent \in Seq(CallMessage)
  BY DEF TypeOK, HistoryTypeOK
<1>k. \A m \in CallMessage : m.kind = "call" /\ m.tool \in Tool
  BY DEF CallMessage
<1>1. CASE UNCHANGED <<clientVars, pins, shown, cleared, sent>>
  BY <1>1, PinInvKept DEF clientVars, Screening, Passed, InHand
<1>2. CASE TakeProbeReply \/ ObserveReply
  <2>1. /\ Head(replies) \in Reply /\ UNCHANGED <<clientVars, sent>>
        /\ ScreenReply(Head(replies)) \/ UNCHANGED <<engineVars, shown, cleared>>
    BY <1>2, RepliesType DEF TakeProbeReply, ObserveReply
  <2>2. CASE IsListing(Head(replies)) /\ ScreenToolList(Head(replies).listing)
    BY <2>1, <2>2, ReplyType, PinInvScreened
  <2>3. CASE UNCHANGED <<engineVars, shown, cleared>>
    BY <2>1, <2>3, PinInvKept DEF clientVars, engineVars, Screening, Passed, InHand
  <2>. QED
    BY <2>1, <2>2, <2>3 DEF ScreenReply
<1>3. ASSUME NEW s \in Scope, NEW t \in Tool, NEW a \in Arg, ReadCall(s, t, a)
      PROVE  PinInv'
  <2>1. /\ cur'.kind = "call" /\ cur'.tool = t /\ cur'.id = nread + 1
        /\ cpc' \in {"probe", "decide"}
        /\ UNCHANGED <<pins, shown, sent>>
        /\ cleared \subseteq cleared'
        /\ Current(t) => cur'.id \in cleared'
    BY <1>3 DEF ReadCall, ReadMessage, engineVars
  <2>2. \A u : Current(u)' = Current(u)
    BY <2>1 DEF Current
  <2>3. MatchedIsCleared'
    <3>. SUFFICES ASSUME NEW u \in Tool, Screening(u)', Current(u)'
                  PROVE  cur'.id \in cleared'
      BY DEF MatchedIsCleared
    <3>1. u = t
      BY <2>1 DEF Screening
    <3>2. Current(t)
      BY <2>2, <3>1
    <3>. QED
      BY <2>1, <3>2
  <2>4. PinsAgree'
    BY <2>1, <2>2 DEF PinInv, PinsAgree
  <2>5. PassedIsCleared'
    BY <2>1 DEF PassedIsCleared, Passed, InHand
  <2>6. PinnedCallsCleared'
    BY <2>1 DEF PinInv, PinnedCallsCleared, Enforced
  <2>. QED
    BY <2>3, <2>4, <2>5, <2>6 DEF PinInv
<1>4. CASE ReadList \/ ReadOther \/ ReadEOF
  <2>1. /\ UNCHANGED <<pins, shown, cleared, sent>>
        /\ \/ cur'.kind # "call" /\ cpc' \in {"note", "forward"}
           \/ cpc' = "stopped"
    BY <1>4 DEF ReadList, ReadOther, ReadEOF, ReadMessage, engineVars, historyVars
  <2>. QED
    BY <2>1, PinInvKept DEF Screening, Passed, InHand
<1>5. CASE PinsTimedOut \/ SendProbe \/ PinsChecked \/ LogDenial
  <2>1. /\ UNCHANGED <<pins, shown, cleared, sent, cur>>
        /\ cpc \in {"probe", "wait", "log denial"}
        /\ cpc' \in {"wait", "decide", "deny"}
    BY <1>5 DEF PinsTimedOut, SendProbe, PinsChecked, LogDenial, ClientGoes, engineVars,
                historyVars
  <2>. QED
    BY <2>1, PinInvKept DEF Screening, Passed, InHand
<1>9. CASE NoteList
  <2>1. /\ UNCHANGED <<pins, shown, cleared, sent, cur>>
        /\ cpc = "note" /\ cpc' = "forward"
    BY <1>9 DEF NoteList, ClientGoes, engineVars, historyVars
  <2>. QED
    BY <2>1, PinInvKept DEF NotesAreLists, Screening, Passed, InHand
<1>10. CASE RecordCall \/ LogCall \/ Remember
  <2>1. /\ UNCHANGED <<pins, shown, cleared, sent, cur>>
        /\ cpc \in {"record", "log", "remember"}
        /\ cpc' \in {"log", "remember", "forward"}
    BY <1>10 DEF RecordCall, LogCall, Remember, ClientGoes, Record, Stain, engineVars,
                 historyVars
  <2>. QED
    BY <2>1, PinInvKept DEF Screening, Passed, InHand
<1>6. CASE WriteDenial
  <2>1. UNCHANGED <<pins, shown, cleared, sent>> /\ cpc' \in {"read", "stopped"}
    BY <1>6 DEF WriteDenial, ClientGoes, engineVars
  <2>. QED
    BY <2>1, PinInvKept DEF Screening, Passed, InHand
<1>7. CASE JudgeCall
  <2>1. /\ UNCHANGED <<pins, shown, cleared, sent, cur>> /\ cpc = "decide"
        /\ cpc' \in {"log denial", "record"}
        /\ cpc' = "record" => ~Blocked(Decide(cur.scope, This, cur.tool, cur.arg))
        /\ cur.kind = "call" /\ cur.tool \in Tool
    BY <1>0, <1>7, <1>k DEF JudgeCall, ClientGoes, engineVars, ClientTypeOK
  <2>2. ASSUME Enforced, cpc' = "record", PinsGate(This, cur.tool)
        PROVE  cur.id \in cleared
    <3>0. ~Blocked(Decide(cur.scope, This, cur.tool, cur.arg)) /\ ~Offline
      BY <2>1, <2>2, ProxyAssumption
    <3>1. pins[<<This, cur.tool>>] = "ok" /\ Pinned(This, cur.tool)
      <4>1. pins[<<This, cur.tool>>] = "ok"
        BY <2>2, <3>0, DecideFacts
      <4>. QED
        BY <2>2, <4>1 DEF PinsGate
    <3>2. Current(cur.tool) /\ Screening(cur.tool)
      BY <2>1, <3>1 DEF PinInv, PinsAgree, Screening
    <3>. QED
      BY <2>1, <3>1, <3>2 DEF PinInv, MatchedIsCleared
  <2>3. PassedIsCleared'
    BY <2>1, <2>2 DEF PassedIsCleared, Passed, InHand, Enforced
  <2>4. \A u : Current(u)' = Current(u) /\ Screening(u)' = Screening(u)
    BY <2>1 DEF Current, Screening
  <2>. QED
    BY <2>1, <2>3, <2>4 DEF PinInv, PinsAgree, MatchedIsCleared, PinnedCallsCleared,
                            Enforced
<1>8. CASE Forward
  <2>1. /\ UNCHANGED <<pins, shown, cleared>>
        /\ cpc = "forward" /\ cpc' \in {"read", "stopped"}
        /\ sent' # sent => cur.kind = "call" /\ sent' = Append(sent, cur)
        /\ cur \in Message
    BY <1>0, <1>8 DEF Forward, ClientGoes, ClientTypeOK, engineVars
  <2>2. PinnedCallsCleared'
    <3>1. CASE sent' = sent
      BY <2>1, <3>1 DEF PinInv, PinnedCallsCleared, Enforced
    <3>2. CASE sent' # sent
      <4>1. /\ cur \in CallMessage /\ sent' = Append(sent, cur)
            /\ Enforced /\ PinsGate(This, cur.tool) => cur.id \in cleared
        BY <2>1, <3>2 DEF Message, PlainMessage, PinInv, PassedIsCleared, Passed, InHand
      <4>2. \A n \in DOMAIN sent' : sent'[n] = cur \/ (n \in DOMAIN sent /\ sent'[n] = sent[n])
        BY <1>0, <4>1
      <4>. QED
        BY <2>1, <4>1, <4>2 DEF PinInv, PinnedCallsCleared, Enforced
    <3>. QED
      BY <3>1, <3>2
  <2>3. \A u : Current(u)' = Current(u) /\ ~Screening(u)'
    BY <2>1 DEF Current, Screening
  <2>. QED
    BY <2>1, <2>2, <2>3 DEF PinInv, PinsAgree, MatchedIsCleared, PassedIsCleared, Passed,
                            InHand
<1>. QED
  BY <1>1, <1>2, <1>3, <1>4, <1>5, <1>6, <1>7, <1>8, <1>9, <1>10, PinFrame
     DEF ClientPump, ClientReads

(***************************************************************************)
(* For every policy and every sequence of tool lists, a call of a pinned   *)
(* tool reaches the server only if the definition shown last matched the   *)
(* pin at some time since the call was read.                               *)
(***************************************************************************)
THEOREM PinnedCallsClearedHolds == Spec => []PinnedCallsCleared
<1>1. Init => TypeOK /\ FlowInv /\ PinInv
  BY TypeOKInit, FlowInvInit, PinInvInit
<1>2. TypeOK /\ FlowInv /\ PinInv /\ [Next]_vars => TypeOK' /\ FlowInv' /\ PinInv'
  BY TypeOKStep, FlowInvStep, PinInvStep DEF FlowInv
<1>3. PinInv => PinnedCallsCleared
  BY DEF PinInv
<1>. QED
  BY <1>1, <1>2, <1>3, PTL DEF Spec
=============================================================================

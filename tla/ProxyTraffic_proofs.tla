------------------------- MODULE ProxyTraffic_proofs -------------------------
(***************************************************************************)
(* What the proxy makes of the messages that pass it, for every policy and *)
(* any number of messages: each has one place at a time on its way from    *)
(* the client to the server and back, so each is answered once; and what   *)
(* is noted of it before it leaves is still there when its answer comes.   *)
(* Then what stands behind its verdicts: a call that breaks a rule is      *)
(* logged as denied before it leaves, the evidence kept for a label names  *)
(* the call that brought it, and the calls sent and the calls refused are  *)
(* what the abstract wall allows.                                          *)
(***************************************************************************)
EXTENDS Proxy_proofs, FiniteSetTheorems

-----------------------------------------------------------------------------
(***************************************************************************)
(* Places.  The message with id i is in the client pump's hand, at the     *)
(* server, among its replies, in the server pump's hand, or has arrived.   *)
(***************************************************************************)
AtWork == cpc \notin {"read", "stopped"}

Denying == cpc \in {"log denial", "deny"}

Mine(i)    == AtWork /\ cur.id = i
Asked(i)   == \E m \in atServer : m.id = i
Replied(i) == \E n \in DOMAIN replies : replies[n].id = i
Held(i)    == spc = "deliver" /\ rsp.id = i
Got(i)     == \E d \in delivered : d.id = i
Sent(i)    == \E n \in DOMAIN sent : sent[n].id = i
Refused(i) == \E m \in refused : m.id = i

\* An id that was not given out yet is nowhere; toolwall's own is never shown.
IdsGivenOut ==
    /\ \A i : Mine(i) \/ Held(i) \/ Got(i) \/ Sent(i) \/ Refused(i) => i \in 1 .. nread
    /\ \A i : Asked(i) \/ Replied(i) => i \in 1 .. nread \/ i = ProbeId

\* A message is in one place, and its answer with it.
OnePlace ==
    \A i \in Nat :
        /\ Mine(i)    => ~Asked(i) /\ ~Replied(i) /\ ~Held(i) /\ ~Got(i) /\ ~Sent(i)
        /\ Asked(i)   => ~Replied(i) /\ ~Held(i) /\ ~Got(i)
        /\ Replied(i) => ~Held(i) /\ ~Got(i)
        /\ Held(i)    => ~Got(i)
        /\ Refused(i) => ~Sent(i) /\ (Mine(i) => Denying)

\* No place holds two messages with one id.
NoDoubles ==
    /\ \A m, n \in atServer : m.id = n.id /\ m.id \in Nat => m = n
    /\ \A n, k \in DOMAIN replies : replies[n].id = replies[k].id /\ replies[n].id \in Nat => n = k
    /\ \A d, e \in delivered : d.id = e.id => d = e

TravelInv == IdsGivenOut /\ OnePlace /\ NoDoubles

travelVars == <<nread, cpc, cur, atServer, replies, spc, rsp, delivered, sent, refused>>

LEMMA TravelInvInit == Init => TravelInv
BY DEF Init, TravelInv, IdsGivenOut, OnePlace, NoDoubles, Mine, AtWork, Asked, Replied,
       Held, Got, Sent, Refused

LEMMA TravelFrame ==
  ASSUME [Next]_vars
  PROVE  UNCHANGED travelVars \/ ClientReads \/ ClientPump \/ PinsTimedOut \/ ServerPump
           \/ \E m \in atServer : Answer(m)
BY DEF Next, vars, clientVars, serverVars, wireVars, historyVars, travelVars, RunWaits,
       Peers, Terminated, ClientGone, ServerGone, GraceOver, RunGoes, ServerExits,
       ClientLeaves, StopsReading, ReadsOn

\* A step of the client pump between two points, that sends nothing.
LEMMA TravelInvKept ==
  ASSUME TravelInv,
         UNCHANGED <<nread, replies, spc, rsp, delivered, sent, refused>>,
         atServer' = atServer \/ (atServer' = atServer \cup {ProbeMessage}),
         AtWork' => AtWork /\ cur' = cur,
         Denying /\ AtWork' => Denying'
  PROVE  TravelInv'
<1>0. ProbeId \notin Nat
  BY ProxyAssumption
<1>1. \A i : /\ Mine(i)' => Mine(i) /\ (Denying => Denying')
             /\ Replied(i)' = Replied(i) /\ Held(i)' = Held(i) /\ Got(i)' = Got(i)
             /\ Sent(i)' = Sent(i) /\ Refused(i)' = Refused(i)
  BY DEF Mine, Replied, Held, Got, Sent, Refused
<1>2. \A i : Asked(i)' => Asked(i) \/ i = ProbeId
  BY DEF Asked, ProbeMessage
<1>. QED
  BY <1>0, <1>1, <1>2 DEF TravelInv, IdsGivenOut, OnePlace, NoDoubles, ProbeMessage


\* An answer is an answer to what was asked, and only a list gets a list.
LEMMA ResultsFacts ==
  ASSUME NEW m \in Message \cup {ProbeMessage}, NEW r \in Results(m)
  PROVE  r \in Reply /\ r.id = m.id /\ (IsListing(r) => m.kind = "list")
<1>1. m.kind \in {"call", "list", "other"}
  BY DEF Message, CallMessage, PlainMessage, ProbeMessage
<1>2. r \in Reply
  BY ResultsType
<1>. QED
  BY <1>1, <1>2 DEF Results, IsListing

LEMMA TravelInvStep == TypeOK /\ TravelInv /\ [Next]_vars => TravelInv'
<1>. SUFFICES ASSUME TypeOK, TravelInv, [Next]_vars PROVE TravelInv'
  OBVIOUS
<1>n. nread \in Nat
  BY DEF TypeOK, ClientTypeOK
<1>0. /\ nread \in Nat /\ ProbeId \notin Nat
      /\ \A i \in 1 .. nread : i \in Nat /\ i \in 1 .. nread + 1
      /\ nread + 1 \in Nat /\ nread + 1 \in 1 .. nread + 1 /\ nread + 1 \notin 1 .. nread
  BY <1>n, ProxyAssumption
<1>t. /\ atServer \subseteq Message \cup {ProbeMessage}
      /\ replies \in Seq(Reply) /\ sent \in Seq(CallMessage)
      /\ AtWork => cur \in Message
  BY DEF TypeOK, ClientTypeOK, WireTypeOK, HistoryTypeOK, AtWork
<1>1. CASE UNCHANGED travelVars
  BY <1>1 DEF travelVars, TravelInv, IdsGivenOut, OnePlace, NoDoubles, Mine, AtWork, Asked,
              Replied, Held, Got, Sent, Refused, Denying
<1>2. CASE ReadEOF \/ PinsTimedOut \/ PinsChecked \/ LogDenial \/ RecordCall \/ LogCall
           \/ Remember \/ NoteList \/ SendProbe
  <2>1. /\ UNCHANGED <<nread, replies, spc, rsp, delivered, sent, refused, cur>>
        /\ atServer' = atServer \/ (atServer' = atServer \cup {ProbeMessage})
        /\ \/ cpc' = "stopped"
           \/ AtWork /\ cpc' \notin {"log denial", "deny"} /\ cpc # "log denial" /\ cpc # "deny"
           \/ cpc = "log denial" /\ cpc' = "deny"
    BY <1>2 DEF ReadEOF, PinsTimedOut, PinsChecked, LogDenial, RecordCall, LogCall, Remember,
                NoteList, SendProbe, ClientGoes, historyVars, serverVars, wireVars, AtWork
  <2>. QED
    BY <2>1, TravelInvKept DEF AtWork, Denying
<1>3. ASSUME NEW m, m.id = nread + 1, ReadMessage(m), AtWork', ~Denying'
      PROVE  TravelInv'
  <2>1. /\ UNCHANGED <<atServer, replies, spc, rsp, delivered, sent, refused>>
        /\ nread' = nread + 1 /\ cur' = m /\ ~AtWork
    BY <1>3 DEF ReadMessage, serverVars, wireVars, AtWork
  <2>2. \A i : /\ Asked(i)' = Asked(i)
               /\ Replied(i)' = Replied(i) /\ Held(i)' = Held(i) /\ Got(i)' = Got(i)
               /\ Sent(i)' = Sent(i) /\ Refused(i)' = Refused(i)
               /\ Mine(i)' => i = nread + 1
    BY <1>3, <2>1 DEF Mine, Asked, Replied, Held, Got, Sent, Refused
  <2>3. IdsGivenOut'
    BY <1>0, <2>1, <2>2 DEF TravelInv, IdsGivenOut
  <2>4. OnePlace'
    BY <1>0, <1>3, <2>1, <2>2 DEF TravelInv, IdsGivenOut, OnePlace
  <2>. QED
    BY <2>1, <2>3, <2>4 DEF TravelInv, NoDoubles
<1>4. CASE ReadList \/ ReadOther \/ \E s \in Scope, t \in Tool, a \in Arg : ReadCall(s, t, a)
  <2>1. PICK m : m.id = nread + 1 /\ ReadMessage(m)
                 /\ cpc' \in {"probe", "decide", "note", "forward"}
    <3>1. CASE ReadList
      BY <3>1 DEF ReadList
    <3>2. CASE ReadOther
      BY <3>2 DEF ReadOther
    <3>3. ASSUME NEW s \in Scope, NEW t \in Tool, NEW a \in Arg, ReadCall(s, t, a)
          PROVE  \E m : m.id = nread + 1 /\ ReadMessage(m)
                        /\ cpc' \in {"probe", "decide", "note", "forward"}
      <4>. DEFINE m == [kind |-> "call", id |-> nread + 1, scope |-> s, tool |-> t, arg |-> a]
      <4>1. ReadMessage(m) /\ cpc' \in {"probe", "decide"}
        BY <3>3 DEF ReadCall
      <4>2. m.id = nread + 1
        OBVIOUS
      <4>. QED
        BY <4>1, <4>2
    <3>. QED
      BY <1>4, <3>1, <3>2, <3>3
  <2>. QED
    BY <1>3, <2>1 DEF AtWork, Denying
<1>5. CASE JudgeCall
  <2>1. /\ UNCHANGED <<nread, cur, atServer, replies, spc, rsp, delivered, sent>>
        /\ AtWork /\ AtWork' /\ ~Denying
        /\ \/ refused' = refused /\ ~Denying'
           \/ refused' = refused \cup {cur} /\ Denying'
    BY <1>5 DEF JudgeCall, ClientGoes, serverVars, wireVars, AtWork, Denying
  <2>2. \A i : /\ Asked(i)' = Asked(i)
               /\ Replied(i)' = Replied(i) /\ Held(i)' = Held(i) /\ Got(i)' = Got(i)
               /\ Sent(i)' = Sent(i) /\ Mine(i)' = Mine(i)
               /\ Refused(i)' => Refused(i) \/ (Mine(i) /\ Denying')
    BY <2>1 DEF Mine, Asked, Replied, Held, Got, Sent, Refused
  <2>3. IdsGivenOut'
    BY <1>0, <2>1, <2>2 DEF TravelInv, IdsGivenOut
  <2>4. OnePlace'
    BY <1>0, <2>1, <2>2 DEF TravelInv, OnePlace
  <2>. QED
    BY <2>1, <2>3, <2>4 DEF TravelInv, NoDoubles
<1>6. CASE WriteDenial
  <2>1. /\ UNCHANGED <<nread, atServer, replies, spc, rsp, sent, refused>>
        /\ AtWork /\ ~AtWork'
        /\ delivered' = delivered \/ \E d : d.id = cur.id /\ delivered' = delivered \cup {d}
    BY <1>6 DEF WriteDenial, ClientGoes, serverVars, AtWork, wireVars
  <2>2. \A i : /\ Asked(i)' = Asked(i)
               /\ Replied(i)' = Replied(i) /\ Held(i)' = Held(i)
               /\ Sent(i)' = Sent(i) /\ ~Mine(i)' /\ Refused(i)' = Refused(i)
               /\ Got(i)' => Got(i) \/ Mine(i)
    BY <2>1 DEF Mine, Asked, Replied, Held, Got, Sent, Refused
  <2>3. IdsGivenOut'
    BY <1>0, <2>1, <2>2 DEF TravelInv, IdsGivenOut
  <2>4. OnePlace'
    BY <1>0, <2>1, <2>2 DEF TravelInv, OnePlace
  <2>5. ~Got(cur.id)
    BY <1>0, <2>1 DEF TravelInv, IdsGivenOut, OnePlace, Mine
  <2>6. \A d, e \in delivered' : d.id = e.id => d = e
    BY <2>1, <2>5 DEF TravelInv, NoDoubles, Got
  <2>. QED
    BY <2>1, <2>3, <2>4, <2>6 DEF TravelInv, NoDoubles
<1>7. CASE Forward
  <2>1. /\ UNCHANGED <<nread, replies, spc, rsp, delivered, refused>>
        /\ AtWork /\ ~Denying /\ ~AtWork'
        /\ atServer' \in {atServer, atServer \cup {cur}}
        /\ sent' = sent \/ (sent' = Append(sent, cur) /\ cur.kind = "call")
    BY <1>7 DEF Forward, ClientGoes, serverVars, AtWork, Denying
  <2>a. cur.kind = "call" => cur \in CallMessage
    BY <1>t, <2>1 DEF Message, PlainMessage
  <2>2. \A i : Sent(i)' => Sent(i) \/ Mine(i)
    BY <1>t, <2>1, <2>a DEF Sent, Mine
  <2>3. \A i : /\ Asked(i)' => Asked(i) \/ Mine(i)
               /\ Replied(i)' = Replied(i) /\ Held(i)' = Held(i) /\ Got(i)' = Got(i)
               /\ ~Mine(i)' /\ Refused(i)' = Refused(i)
    BY <2>1 DEF Mine, Asked, Replied, Held, Got, Refused
  <2>4. IdsGivenOut'
    BY <1>0, <2>1, <2>2, <2>3 DEF TravelInv, IdsGivenOut
  <2>5. OnePlace'
    BY <1>0, <2>1, <2>2, <2>3 DEF TravelInv, OnePlace
  <2>6. ~Asked(cur.id)
    BY <1>0, <2>1 DEF TravelInv, IdsGivenOut, OnePlace, Mine
  <2>7. \A m, n \in atServer' : m.id = n.id /\ m.id \in Nat => m = n
    BY <2>1, <2>6 DEF TravelInv, NoDoubles, Asked
  <2>. QED
    BY <2>1, <2>4, <2>5, <2>7 DEF TravelInv, NoDoubles
<1>8. CASE TakeProbeReply \/ ObserveReply
  <2>1. /\ UNCHANGED <<nread, cpc, cur, atServer, delivered, sent, refused>>
        /\ replies # <<>> /\ replies' = Tail(replies) /\ spc # "deliver"
        /\ \/ spc' = "ready"
           \/ spc' = "deliver" /\ Head(replies).id # ProbeId
              /\ rsp' \in {Head(replies), Screened(Head(replies))}
    BY <1>8 DEF TakeProbeReply, ObserveReply, TakeReply, clientVars
  <2>2. /\ \A n \in DOMAIN replies' : n + 1 \in DOMAIN replies /\ replies'[n] = replies[n + 1]
        /\ 1 \in DOMAIN replies /\ Head(replies) = replies[1]
        /\ Head(replies) \in Reply
        /\ \A n \in DOMAIN replies' : n \in Nat /\ n + 1 # 1
    BY <1>t, <2>1
  <2>3. spc' = "deliver" => /\ rsp'.id = Head(replies).id /\ rsp'.id \in Nat
                            /\ Replied(rsp'.id)
    <3>1. Head(replies).id \in Nat \cup {ProbeId} /\ Screened(Head(replies)).id = Head(replies).id
      BY <2>2, ReplyType DEF Screened
    <3>. QED
      BY <2>1, <2>2, <3>1 DEF Replied
  <2>4. \A i : /\ Asked(i)' = Asked(i) /\ Mine(i)' = Mine(i)
               /\ Got(i)' = Got(i) /\ Sent(i)' = Sent(i) /\ Refused(i)' = Refused(i)
               /\ Replied(i)' => Replied(i) /\ (i \in Nat => ~Held(i)')
               /\ Held(i)' => Replied(i) /\ i \in Nat
    <3>1. ASSUME NEW i, Replied(i)', i \in Nat
          PROVE  ~Held(i)'
      BY <2>1, <2>2, <2>3, <3>1 DEF Replied, Held, TravelInv, NoDoubles
    <3>2. \A i : Replied(i)' => Replied(i)
      BY <2>2 DEF Replied
    <3>3. \A i : Held(i)' => Replied(i) /\ i \in Nat
      BY <2>3 DEF Held
    <3>. QED
      BY <2>1, <3>1, <3>2, <3>3 DEF Asked, Mine, AtWork, Got, Sent, Refused
  <2>5. IdsGivenOut'
    BY <1>0, <2>1, <2>4 DEF TravelInv, IdsGivenOut
  <2>6. OnePlace'
    BY <1>0, <2>1, <2>4 DEF TravelInv, OnePlace, Denying
  <2>7. \A n, k \in DOMAIN replies' :
          replies'[n].id = replies'[k].id /\ replies'[n].id \in Nat => n = k
    BY <2>2 DEF TravelInv, NoDoubles
  <2>. QED
    BY <2>1, <2>5, <2>6, <2>7 DEF TravelInv, NoDoubles
<1>9. CASE ClosePinsReady \/ ServerEOF \/ Deliver
  <2>1. /\ UNCHANGED <<nread, cpc, cur, atServer, replies, sent, refused>> /\ spc' # "deliver"
        /\ delivered' = delivered \/ (delivered' = delivered \cup {rsp} /\ spc = "deliver")
    BY <1>9 DEF ClosePinsReady, ServerEOF, Deliver, clientVars, wireVars, historyVars
  <2>2. \A i : /\ Asked(i)' = Asked(i) /\ Mine(i)' = Mine(i) /\ Replied(i)' = Replied(i)
               /\ Sent(i)' = Sent(i) /\ Refused(i)' = Refused(i) /\ ~Held(i)'
               /\ Got(i)' => Got(i) \/ Held(i)
    BY <2>1 DEF Mine, AtWork, Asked, Replied, Held, Got, Sent, Refused
  <2>3. IdsGivenOut'
    BY <1>0, <2>1, <2>2 DEF TravelInv, IdsGivenOut
  <2>4. OnePlace'
    BY <1>0, <2>1, <2>2 DEF TravelInv, OnePlace, Denying
  <2>5. \A d, e \in delivered' : d.id = e.id => d = e
    <3>1. spc = "deliver" => ~Got(rsp.id)
      BY <1>0 DEF TravelInv, IdsGivenOut, OnePlace, Held
    <3>. QED
      BY <2>1, <3>1 DEF TravelInv, NoDoubles, Got
  <2>. QED
    BY <2>1, <2>3, <2>4, <2>5 DEF TravelInv, NoDoubles
<1>10. ASSUME NEW m \in atServer, Answer(m)
       PROVE  TravelInv'
  <2>1. PICK r \in Results(m) : replies' = Append(replies, r)
    BY <1>10 DEF Answer
  <2>2. /\ UNCHANGED <<nread, cpc, cur, spc, rsp, delivered, sent, refused>>
        /\ atServer' = atServer \ {m}
    BY <1>10 DEF Answer, clientVars, serverVars, historyVars
  <2>3. r.id = m.id /\ r \in Reply
    BY <1>t, ResultsFacts
  <2>4. /\ \A n \in DOMAIN replies : n \in DOMAIN replies' /\ replies'[n] = replies[n]
        /\ \A n \in DOMAIN replies' : n \in DOMAIN replies \/ (n = Len(replies) + 1 /\ replies'[n] = r)
    BY <1>t, <2>1, <2>3
  <2>5. \A i : /\ Mine(i)' = Mine(i) /\ Held(i)' = Held(i) /\ Got(i)' = Got(i)
               /\ Sent(i)' = Sent(i) /\ Refused(i)' = Refused(i)
               /\ Asked(i)' => Asked(i) /\ (i \in Nat => i # m.id)
               /\ Replied(i)' => Replied(i) \/ i = m.id
    <3>1. \A i : Asked(i)' => Asked(i) /\ (i \in Nat => i # m.id)
      BY <2>2 DEF Asked, TravelInv, NoDoubles
    <3>2. \A i : Replied(i)' => Replied(i) \/ i = m.id
      BY <2>3, <2>4 DEF Replied
    <3>. QED
      BY <2>2, <3>1, <3>2 DEF Mine, AtWork, Held, Got, Sent, Refused
  <2>6. Asked(m.id)
    BY DEF Asked
  <2>7. IdsGivenOut'
    BY <1>0, <2>2, <2>5, <2>6 DEF TravelInv, IdsGivenOut
  <2>8. OnePlace'
    BY <1>0, <2>2, <2>5, <2>6 DEF TravelInv, OnePlace, Denying
  <2>9. \A n, k \in DOMAIN replies' :
          replies'[n].id = replies'[k].id /\ replies'[n].id \in Nat => n = k
    <3>1. m.id \in Nat => ~Replied(m.id)
      BY <2>6 DEF TravelInv, OnePlace
    <3>. QED
      BY <2>3, <2>4, <3>1 DEF TravelInv, NoDoubles, Replied
  <2>. QED
    BY <2>2, <2>7, <2>8, <2>9 DEF TravelInv, NoDoubles
<1>. QED
  BY <1>1, <1>2, <1>4, <1>5, <1>6, <1>7, <1>8, <1>9, <1>10, TravelFrame
     DEF ClientReads, ClientPump, ServerPump

(***************************************************************************)
(* Every request has one answer at most, the wall's refusal or the         *)
(* server's reply, whatever the order of the answers; toolwall's own       *)
(* request is never shown, and no call is both refused and sent.           *)
(***************************************************************************)
THEOREM OneAnswerHolds == Spec => []OneAnswer
<1>1. TypeOK /\ TravelInv => OneAnswer
  <2>. SUFFICES ASSUME TypeOK, TravelInv PROVE OneAnswer
    OBVIOUS
  <2>1. \A d \in delivered : d.id \in 1 .. nread
    BY DEF TravelInv, IdsGivenOut, Got
  <2>2. \A m \in refused, n \in DOMAIN sent : m.id # sent[n].id
    <3>1. \A m \in refused : m.id \in Nat /\ Refused(m.id)
      BY DEF TypeOK, HistoryTypeOK, CallMessage, Refused
    <3>. QED
      BY <3>1 DEF TravelInv, OnePlace, Sent
  <2>. QED
    BY <2>1, <2>2 DEF TravelInv, NoDoubles, OneAnswer
<1>2. Init => TypeOK /\ TravelInv
  BY TypeOKInit, TravelInvInit
<1>3. TypeOK /\ TravelInv /\ [Next]_vars => TypeOK' /\ TravelInv'
  BY TypeOKStep, TravelInvStep
<1>. QED
  BY <1>1, <1>2, <1>3, PTL DEF Spec

-----------------------------------------------------------------------------
(***************************************************************************)
(* Notes.  What observeResponse looks an answer up by is noted before the  *)
(* request leaves, and stays until the answer is taken: an answered list   *)
(* is screened, and the result of a call is recorded.                      *)
(***************************************************************************)
CarriesCall == cpc = "forward" /\ cur.kind = "call"

\* What is noted as a call is one, and was forwarded, or is about to be.
CallsPending ==
    /\ \A i \in pending : i \in 1 .. nread /\ (Mine(i) => CarriesCall)
    /\ CarriesCall => cur.id \in pending
    /\ \A i \in Nat : Sent(i) /\ (Asked(i) \/ Replied(i)) => i \in pending

\* A list that is asked for is noted as one, and not as a call.
ListsPending ==
    /\ cpc = "forward" /\ cur.kind = "list" => cur.id \in lists
    /\ \A m \in atServer : m.kind = "list" /\ m.id \in Nat => m.id \in lists \ pending
    /\ \A n \in DOMAIN replies :
         IsListing(replies[n]) /\ replies[n].id \in Nat => replies[n].id \in lists \ pending

NotesInv == CallsPending /\ ListsPending

LEMMA NotesInvInit == Init => NotesInv
BY DEF Init, NotesInv, CallsPending, ListsPending, CarriesCall, Sent

noteVars == <<travelVars, pending, lists>>

LEMMA NotesFrame ==
  ASSUME [Next]_vars
  PROVE  UNCHANGED noteVars \/ ClientReads \/ ClientPump \/ PinsTimedOut \/ ServerPump
           \/ \E m \in atServer : Answer(m)
BY DEF Next, vars, clientVars, serverVars, sharedVars, wireVars, historyVars, travelVars,
       noteVars, RunWaits, Peers, Terminated, ClientGone, ServerGone, GraceOver, RunGoes,
       ServerExits, ClientLeaves,
       StopsReading, ReadsOn

\* A step of the client pump between two points, that neither notes nor sends.
LEMMA NotesInvKept ==
  ASSUME NotesInv,
         UNCHANGED <<nread, replies, sent, pending, lists>>,
         atServer' = atServer \/ (atServer' = atServer \cup {ProbeMessage}),
         CarriesCall' => CarriesCall,
         AtWork' => AtWork /\ cur' = cur /\ (CarriesCall => CarriesCall'),
         cpc' = "forward" /\ cur'.kind = "list" => cur'.id \in lists
  PROVE  NotesInv'
<1>0. ProbeId \notin Nat
  BY ProxyAssumption
<1>1. \A i : /\ Mine(i)' => Mine(i) /\ (CarriesCall => CarriesCall')
             /\ Replied(i)' = Replied(i) /\ Sent(i)' = Sent(i)
             /\ i \in Nat => (Asked(i)' => Asked(i))
  BY <1>0 DEF Mine, Replied, Sent, Asked, ProbeMessage
<1>2. CarriesCall' => cur' = cur
  BY DEF CarriesCall, AtWork
<1>. QED
  BY <1>0, <1>1, <1>2 DEF NotesInv, CallsPending, ListsPending, ProbeMessage

LEMMA NotesInvStep ==
  TypeOK /\ NotesAreLists /\ TravelInv /\ NotesInv /\ [Next]_vars => NotesInv'
<1>. SUFFICES ASSUME TypeOK, NotesAreLists, TravelInv, NotesInv, [Next]_vars PROVE NotesInv'
  OBVIOUS
<1>n. nread \in Nat
  BY DEF TypeOK, ClientTypeOK
<1>0. ProbeId \notin Nat /\ \A i \in 1 .. nread : i \in Nat
  BY <1>n, ProxyAssumption
<1>t. /\ atServer \subseteq Message \cup {ProbeMessage}
      /\ replies \in Seq(Reply) /\ sent \in Seq(CallMessage)
      /\ ClientTypeOK
  BY DEF TypeOK, WireTypeOK, HistoryTypeOK
<1>1. CASE UNCHANGED noteVars
  BY <1>1 DEF noteVars, travelVars, NotesInv, CallsPending, ListsPending, CarriesCall, Mine,
              AtWork, Asked, Replied, Sent
<1>2. CASE ReadEOF \/ PinsTimedOut \/ PinsChecked \/ JudgeCall \/ LogDenial \/ WriteDenial
           \/ RecordCall \/ LogCall \/ SendProbe
  <2>1. /\ UNCHANGED <<nread, replies, sent, pending, lists>>
        /\ atServer' = atServer \/ (atServer' = atServer \cup {ProbeMessage})
        /\ cpc # "forward" /\ cpc' # "forward"
        /\ cpc' \in {"stopped", "read"} \/ (AtWork /\ cur' = cur)
    BY <1>2 DEF ReadEOF, PinsTimedOut, PinsChecked, JudgeCall, LogDenial, WriteDenial,
                RecordCall, LogCall, SendProbe, ClientGoes, historyVars, sharedVars,
                wireVars, AtWork
  <2>. QED
    BY <2>1, NotesInvKept DEF AtWork, CarriesCall
<1>3. CASE ReadList \/ ReadOther \/ \E s \in Scope, t \in Tool, a \in Arg : ReadCall(s, t, a)
  <2>1. /\ UNCHANGED <<atServer, replies, sent, pending, lists>>
        /\ nread' = nread + 1 /\ cur'.id = nread + 1
        /\ cpc' = "forward" => cur'.kind = "other"
    BY <1>3 DEF ReadList, ReadOther, ReadCall, ReadMessage, sharedVars, wireVars
  <2>2. \A i : /\ Asked(i)' = Asked(i) /\ Replied(i)' = Replied(i) /\ Sent(i)' = Sent(i)
               /\ Mine(i)' => i = nread + 1
    BY <2>1 DEF Mine, Asked, Replied, Sent
  <2>3. \A i \in 1 .. nread : i \in 1 .. nread + 1 /\ i # nread + 1
    BY <1>n
  <2>. QED
    BY <2>1, <2>2, <2>3 DEF NotesInv, CallsPending, ListsPending, CarriesCall
<1>4. CASE Remember
  <2>1. /\ UNCHANGED <<nread, cur, atServer, replies, sent, lists>>
        /\ pending' = pending \cup {cur.id}
        /\ cur \in CallMessage /\ cpc = "remember" /\ cpc' = "forward"
    BY <1>4, <1>t DEF Remember, ClientGoes, ClientTypeOK, wireVars, historyVars
  <2>2. cur.kind = "call" /\ cur.id \in Nat /\ Mine(cur.id) /\ CarriesCall'
    BY <2>1 DEF CallMessage, Mine, AtWork, CarriesCall
  <2>3. \A i : /\ Asked(i)' = Asked(i) /\ Replied(i)' = Replied(i) /\ Sent(i)' = Sent(i)
    BY <2>1 DEF Asked, Replied, Sent
  <2>4. cur.id \in 1 .. nread /\ ~Asked(cur.id) /\ ~Replied(cur.id)
    BY <2>2 DEF TravelInv, IdsGivenOut, OnePlace
  <2>5. CallsPending'
    BY <2>1, <2>2, <2>3, <2>4 DEF NotesInv, CallsPending
  <2>6. ListsPending'
    BY <2>1, <2>2, <2>4 DEF NotesInv, ListsPending, Asked, Replied
  <2>. QED
    BY <2>5, <2>6 DEF NotesInv
<1>5. CASE NoteList
  <2>1. /\ UNCHANGED <<nread, cur, atServer, replies, sent, pending>>
        /\ lists' = lists \cup {cur.id}
        /\ cpc = "note" /\ cpc' = "forward" /\ cur.kind # "call"
    BY <1>5, <1>t DEF NoteList, NotesAreLists, ClientGoes, wireVars, historyVars
  <2>2. \A i : /\ Asked(i)' = Asked(i) /\ Replied(i)' = Replied(i) /\ Sent(i)' = Sent(i)
               /\ Mine(i)' = Mine(i)
    BY <2>1 DEF Asked, Replied, Sent, Mine, AtWork
  <2>. QED
    BY <2>1, <2>2 DEF NotesInv, CallsPending, ListsPending, CarriesCall
<1>6. CASE Forward
  <2>1. /\ UNCHANGED <<nread, replies, pending, lists>>
        /\ cpc = "forward" /\ cpc' \in {"read", "stopped"}
        /\ atServer' \in {atServer, atServer \cup {cur}}
        /\ sent' = sent \/ (sent' = Append(sent, cur) /\ CarriesCall)
        /\ cur \in Message
    BY <1>6, <1>t DEF Forward, ClientGoes, sharedVars, CarriesCall, ClientTypeOK
  <2>2. Mine(cur.id) /\ ~CarriesCall' /\ \A i : ~Mine(i)'
    BY <2>1 DEF Mine, AtWork, CarriesCall
  <2>a. CarriesCall => cur \in CallMessage
    BY <2>1 DEF CarriesCall, Message, PlainMessage
  <2>3. \A i : /\ Sent(i)' => Sent(i) \/ (i = cur.id /\ CarriesCall)
               /\ Asked(i)' => Asked(i) \/ i = cur.id
               /\ Replied(i)' = Replied(i)
    <3>1. \A i : Sent(i)' => Sent(i) \/ (i = cur.id /\ CarriesCall)
      BY <1>t, <2>1, <2>a DEF Sent
    <3>. QED
      BY <2>1, <3>1 DEF Asked, Replied
  <2>4. CallsPending'
    BY <2>1, <2>2, <2>3 DEF TravelInv, OnePlace, NotesInv, CallsPending
  <2>5. cur.kind = "list" => cur.id \in lists \ pending
    BY <2>1, <2>2 DEF NotesInv, CallsPending, ListsPending, CarriesCall
  <2>6. ListsPending'
    BY <2>1, <2>5 DEF NotesInv, ListsPending
  <2>. QED
    BY <2>4, <2>6 DEF NotesInv
<1>7. CASE TakeProbeReply \/ ObserveReply
  <2>1. /\ UNCHANGED <<nread, cpc, cur, atServer, sent>>
        /\ replies # <<>> /\ replies' = Tail(replies)
        /\ \/ UNCHANGED <<pending, lists>>
           \/ pending' = pending \ {Head(replies).id} /\ lists' = lists \ {Head(replies).id}
    BY <1>7 DEF TakeProbeReply, ObserveReply, TakeReply, clientVars
  <2>2. /\ \A n \in DOMAIN replies' : n \in Nat /\ n + 1 # 1 /\ n + 1 \in DOMAIN replies
                                      /\ replies'[n] = replies[n + 1]
        /\ 1 \in DOMAIN replies /\ Head(replies) = replies[1]
    BY <1>t, <2>1
  <2>. PICK h : h = Head(replies).id
    OBVIOUS
  <2>3. /\ \A i : Asked(i)' = Asked(i) /\ Sent(i)' = Sent(i) /\ Mine(i)' = Mine(i)
        /\ \A i : Replied(i)' => Replied(i)
        /\ CarriesCall' = CarriesCall
    BY <2>1, <2>2 DEF Asked, Sent, Mine, AtWork, Replied, CarriesCall
  <2>4. \A n \in DOMAIN replies' : replies'[n].id \in Nat => replies'[n].id # h
    BY <2>2 DEF TravelInv, NoDoubles
  <2>5. /\ h \in Nat => ~Mine(h) /\ ~Asked(h) /\ ~Replied(h)'
        /\ AtWork => Mine(cur.id) /\ cur.id \in Nat
    <3>1. h \in Nat => Replied(h) /\ ~Replied(h)'
      BY <2>2, <2>4 DEF Replied
    <3>2. AtWork => Mine(cur.id) /\ cur.id \in Nat
      BY <1>0 DEF Mine, TravelInv, IdsGivenOut
    <3>. QED
      BY <3>1, <3>2 DEF TravelInv, OnePlace
  <2>6. CallsPending'
    BY <2>1, <2>3, <2>5 DEF NotesInv, CallsPending, CarriesCall, AtWork
  <2>7. ListsPending'
    <3>1. cpc = "forward" /\ cur.kind = "list" => cur.id \in lists'
      BY <2>1, <2>5 DEF NotesInv, ListsPending, AtWork
    <3>2. \A m \in atServer : m.kind = "list" /\ m.id \in Nat => m.id \in lists' \ pending'
      BY <2>1, <2>5 DEF NotesInv, ListsPending, Asked
    <3>3. \A n \in DOMAIN replies' :
            IsListing(replies'[n]) /\ replies'[n].id \in Nat => replies'[n].id \in lists' \ pending'
      BY <2>1, <2>2, <2>4 DEF NotesInv, ListsPending
    <3>. QED
      BY <2>1, <3>1, <3>2, <3>3 DEF ListsPending, IsListing
  <2>. QED
    BY <2>6, <2>7 DEF NotesInv
<1>8. CASE ClosePinsReady \/ ServerEOF \/ Deliver
  <2>1. UNCHANGED <<nread, cpc, cur, atServer, replies, sent, pending, lists>>
    BY <1>8 DEF ClosePinsReady, ServerEOF, Deliver, clientVars, sharedVars, wireVars,
                historyVars
  <2>. QED
    BY <2>1 DEF NotesInv, CallsPending, ListsPending, CarriesCall, Mine, AtWork, Asked,
                Replied, Sent
<1>9. ASSUME NEW m \in atServer, Answer(m)
      PROVE  NotesInv'
  <2>1. PICK r \in Results(m) : replies' = Append(replies, r)
    BY <1>9 DEF Answer
  <2>2. /\ UNCHANGED <<nread, cpc, cur, sent, pending, lists>>
        /\ atServer' = atServer \ {m}
    BY <1>9 DEF Answer, clientVars, sharedVars, historyVars
  <2>3. r.id = m.id /\ r \in Reply /\ (IsListing(r) => m.kind = "list")
    BY <1>t, ResultsFacts
  <2>4. \A n \in DOMAIN replies' :
          (n \in DOMAIN replies /\ replies'[n] = replies[n]) \/ replies'[n] = r
    BY <1>t, <2>1, <2>3
  <2>5. \A i : /\ Mine(i)' = Mine(i) /\ Sent(i)' = Sent(i)
               /\ Asked(i)' \/ Replied(i)' => Asked(i) \/ Replied(i)
    <3>1. \A i : Replied(i)' => Replied(i) \/ i = m.id
      BY <2>3, <2>4 DEF Replied
    <3>. QED
      BY <2>2, <3>1 DEF Mine, AtWork, Sent, Asked
  <2>6. CallsPending'
    BY <2>2, <2>5 DEF NotesInv, CallsPending, CarriesCall
  <2>7. ListsPending'
    BY <2>2, <2>3, <2>4 DEF NotesInv, ListsPending
  <2>. QED
    BY <2>6, <2>7 DEF NotesInv
<1>. QED
  BY <1>1, <1>2, <1>3, <1>4, <1>5, <1>6, <1>7, <1>8, <1>9, NotesFrame
     DEF ClientReads, ClientPump, ServerPump

-----------------------------------------------------------------------------
(***************************************************************************)
(* Answers.  A call is logged before it is noted, and noted before it is   *)
(* sent, so that the answer the server pump takes to a call that was sent  *)
(* is found among the calls and leaves a record; a list is found among the *)
(* lists and loses the tools that fail their pin.                          *)
(***************************************************************************)
Logged(i) == \E k \in {"call", "denied"} : [kind |-> k, id |-> i] \in audit

Concluded(i) == [kind |-> "result", id |-> i] \in audit

CallsLogged ==
    /\ cpc = "remember" \/ CarriesCall => Logged(cur.id)
    /\ \A i : Sent(i) => Logged(i)

HeldIsLogged ==
    spc = "deliver" /\ rsp.form = "result" /\ Sent(rsp.id) => Concluded(rsp.id)

ResultsLogged ==
    /\ HeldIsLogged
    /\ \A d \in delivered : d.form = "result" /\ Sent(d.id) => Concluded(d.id)

\* Every pinned tool of the list has the definition it is pinned to.
PinsHold(L) == \A t \in DOMAIN L : Pinned(This, t) => Matches(This, t, L[t])

HeldIsScreened ==
    PinMismatch = ActionDeny /\ spc = "deliver" /\ IsListing(rsp) => PinsHold(rsp.listing)

ListsScreened ==
    /\ HeldIsScreened
    /\ PinMismatch = ActionDeny =>
         \A d \in delivered : IsListing(d) => PinsHold(d.listing)

AnswersInv == CallsLogged /\ ResultsLogged /\ ListsScreened

LEMMA AnswersInvInit == Init => AnswersInv
BY DEF Init, AnswersInv, CallsLogged, ResultsLogged, HeldIsLogged, ListsScreened,
       HeldIsScreened, CarriesCall, Sent

LEMMA AnswersFrame ==
  ASSUME [Next]_vars
  PROVE  UNCHANGED <<cpc, cur, sent, spc, rsp, delivered, audit>>
           \/ ClientReads \/ ClientPump \/ PinsTimedOut \/ ServerPump
BY DEF Next, vars, clientVars, serverVars, historyVars, RunWaits, Peers, Terminated,
       ClientGone, ServerGone, GraceOver, RunGoes, Answer, ServerExits, ClientLeaves,
       StopsReading, ReadsOn

\* Screening a list leaves in it what passes CheckPin.
LEMMA KeptFacts ==
  ASSUME PinMismatch = ActionDeny, NEW r, IsListing(r), r \in Reply
  PROVE  PinsHold(Screened(r).listing)
<1>1. Screened(r).listing = Kept(This, r.listing)
  BY ReplyType DEF Screened
<1>. QED
  BY <1>1 DEF PinsHold, Kept, PinAction, ActionAllow, ActionDeny

\* What the server pump holds after it has looked an answer up.
LEMMA ObservedFacts ==
  ASSUME TypeOK, TravelInv, NotesInv, ObserveReply
  PROVE  HeldIsLogged' /\ HeldIsScreened'
<1>. PICK r : r = Head(replies)
  OBVIOUS
<1>1. /\ replies # <<>> /\ r.id # ProbeId
      /\ r.id \in pending /\ r.form = "result" =>
           audit' = audit \cup {[kind |-> "result", id |-> r.id]}
      /\ IF r.id \notin pending /\ r.id \in lists THEN rsp' = Screened(r) ELSE rsp' = r
  BY DEF ObserveReply
<1>2. r \in Reply /\ r.id \in Nat
  BY <1>1, RepliesType, ReplyType
<1>3. 1 \in DOMAIN replies /\ replies[1] = r
  BY <1>1 DEF TypeOK, WireTypeOK
<1>4. Screened(r).form = r.form /\ Screened(r).id = r.id
  BY <1>2, ReplyType DEF Screened, IsListing
<1>5. Sent(r.id) => r.id \in pending
  BY <1>2, <1>3 DEF NotesInv, CallsPending, Replied
<1>6. IsListing(r) => r.id \in lists \ pending
  BY <1>2, <1>3 DEF NotesInv, ListsPending
<1>7. HeldIsLogged'
  <2>1. UNCHANGED sent
    BY DEF ObserveReply, TakeReply
  <2>. SUFFICES ASSUME r.form = "result", Sent(r.id)
                PROVE  [kind |-> "result", id |-> r.id] \in audit'
    BY <1>1, <1>4, <2>1 DEF HeldIsLogged, Concluded, Sent
  <2>. QED
    BY <1>1, <1>5
<1>8. HeldIsScreened'
  <2>1. ASSUME PinMismatch = ActionDeny, IsListing(r)
        PROVE  rsp' = Screened(r) /\ PinsHold(Screened(r).listing)
    BY <1>1, <1>2, <1>6, <2>1, KeptFacts
  <2>2. PinMismatch = ActionDeny /\ IsListing(rsp)' => IsListing(r)
    BY <1>1, <1>4 DEF IsListing
  <2>. QED
    BY <2>1, <2>2 DEF HeldIsScreened, PinsHold
<1>. QED
  BY <1>7, <1>8

LEMMA AnswersInvStep ==
  TypeOK /\ NotesAreLists /\ TravelInv /\ NotesInv /\ AnswersInv /\ [Next]_vars => AnswersInv'
<1>. SUFFICES ASSUME TypeOK, NotesAreLists, TravelInv, NotesInv, AnswersInv, [Next]_vars
              PROVE  AnswersInv'
  OBVIOUS
<1>t. /\ ClientTypeOK /\ sent \in Seq(CallMessage)
      /\ \A m \in CallMessage : m.kind = "call" /\ m.id \in Nat
  BY DEF TypeOK, HistoryTypeOK, CallMessage
<1>a. \A i : audit \subseteq audit' => (Logged(i) => Logged(i)') /\ (Concluded(i) => Concluded(i)')
  BY DEF Logged, Concluded
<1>k. ASSUME UNCHANGED <<sent, spc, rsp, delivered>>, audit \subseteq audit', CallsLogged'
      PROVE  AnswersInv'
  <2>1. \A i : Sent(i)' = Sent(i)
    BY <1>k DEF Sent
  <2>. QED
    BY <1>a, <1>k, <2>1 DEF AnswersInv, ResultsLogged, HeldIsLogged, ListsScreened,
                            HeldIsScreened
<1>1. CASE UNCHANGED <<cpc, cur, sent, spc, rsp, delivered, audit>>
  BY <1>1, <1>k DEF AnswersInv, CallsLogged, CarriesCall, Logged, Sent
<1>2. CASE ClientReads \/ PinsTimedOut \/ PinsChecked \/ JudgeCall \/ LogDenial \/ RecordCall
           \/ SendProbe \/ NoteList
  <2>1. /\ UNCHANGED <<sent, spc, rsp, delivered>> /\ audit \subseteq audit'
        /\ cpc' # "remember" /\ ~CarriesCall'
    <3>1. CASE ClientReads
      BY <3>1 DEF ClientReads, ReadCall, ReadList, ReadOther, ReadEOF, ReadMessage,
                  historyVars, serverVars, CarriesCall
    <3>2. CASE PinsTimedOut \/ PinsChecked \/ JudgeCall \/ LogDenial \/ RecordCall
      BY <3>2 DEF PinsTimedOut, PinsChecked, JudgeCall, LogDenial, RecordCall, ClientGoes,
                  historyVars, serverVars, CarriesCall
    <3>3. CASE SendProbe \/ NoteList
      BY <3>3 DEF SendProbe, NoteList, NotesAreLists, ClientGoes, historyVars, serverVars,
                  CarriesCall
    <3>. QED
      BY <1>2, <3>1, <3>2, <3>3
  <2>. QED
    BY <1>a, <1>k, <2>1 DEF AnswersInv, CallsLogged, Sent
<1>3. CASE WriteDenial
  <2>1. /\ UNCHANGED <<sent, spc, rsp, audit>>
        /\ cpc' \in {"read", "stopped"}
        /\ \A d \in delivered' : d \in delivered \/ d.form = "denial"
    BY <1>3 DEF WriteDenial, ClientGoes, serverVars
  <2>. QED
    BY <2>1 DEF AnswersInv, CallsLogged, ResultsLogged, HeldIsLogged, ListsScreened,
                HeldIsScreened, CarriesCall, Logged, Concluded, Sent, IsListing
<1>4. CASE LogCall
  <2>1. /\ UNCHANGED <<sent, spc, rsp, delivered, cur>> /\ cpc' = "remember"
        /\ \E k \in {"call", "denied"} : audit' = audit \cup {[kind |-> k, id |-> cur.id]}
    BY <1>4 DEF LogCall, ClientGoes, serverVars
  <2>. QED
    BY <1>a, <1>k, <2>1 DEF AnswersInv, CallsLogged, Logged, Sent
<1>5. CASE Remember
  <2>1. /\ UNCHANGED <<sent, spc, rsp, delivered, cur, audit>> /\ cpc = "remember"
    BY <1>5 DEF Remember, ClientGoes, serverVars, historyVars
  <2>. QED
    BY <1>k, <2>1 DEF AnswersInv, CallsLogged, Logged, Sent
<1>6. CASE Forward
  <2>1. /\ UNCHANGED <<spc, rsp, delivered, audit>>
        /\ cpc = "forward" /\ cpc' \in {"read", "stopped"} /\ cur \in Message
        /\ sent' = sent \/ (sent' = Append(sent, cur) /\ CarriesCall)
    BY <1>6, <1>t DEF Forward, ClientGoes, serverVars, CarriesCall, ClientTypeOK
  <2>2. \A i : Sent(i)' => Sent(i) \/ (i = cur.id /\ CarriesCall)
    <3>1. CarriesCall => cur \in CallMessage
      BY <2>1 DEF CarriesCall, Message, PlainMessage
    <3>. QED
      BY <1>t, <2>1, <3>1 DEF Sent
  <2>3. CallsLogged'
    BY <2>1, <2>2 DEF AnswersInv, CallsLogged, CarriesCall, Logged
  <2>4. ~Held(cur.id) /\ ~Got(cur.id)
    <3>1. Mine(cur.id) /\ cur.id \in Nat
      BY <2>1, <1>t DEF Mine, AtWork, Message, PlainMessage
    <3>. QED
      BY <3>1 DEF TravelInv, OnePlace
  <2>5. ResultsLogged'
    BY <2>1, <2>2, <2>4 DEF AnswersInv, ResultsLogged, HeldIsLogged, Held, Got, Concluded
  <2>. QED
    BY <2>1, <2>3, <2>5 DEF AnswersInv, ListsScreened, HeldIsScreened
<1>7. CASE TakeProbeReply \/ ObserveReply
  <2>1. /\ UNCHANGED <<cpc, cur, sent, delivered>> /\ audit \subseteq audit'
        /\ spc' = "deliver" => ObserveReply
    BY <1>7 DEF TakeProbeReply, ObserveReply, TakeReply, clientVars
  <2>2. \A i : Sent(i)' = Sent(i)
    BY <2>1 DEF Sent
  <2>3. CallsLogged'
    BY <1>a, <2>1, <2>2 DEF AnswersInv, CallsLogged, CarriesCall
  <2>4. HeldIsLogged' /\ HeldIsScreened'
    <3>1. CASE spc' # "deliver"
      BY <3>1 DEF HeldIsLogged, HeldIsScreened
    <3>. QED
      BY <2>1, <3>1, ObservedFacts
  <2>5. ResultsLogged' /\ ListsScreened'
    BY <1>a, <2>1, <2>2, <2>4 DEF AnswersInv, ResultsLogged, ListsScreened
  <2>. QED
    BY <2>3, <2>4, <2>5 DEF AnswersInv
<1>8. CASE ClosePinsReady \/ ServerEOF \/ Deliver
  <2>1. /\ UNCHANGED <<cpc, cur, sent, audit>> /\ spc' # "deliver"
        /\ delivered' = delivered \/ (delivered' = delivered \cup {rsp} /\ spc = "deliver")
    BY <1>8 DEF ClosePinsReady, ServerEOF, Deliver, clientVars, wireVars, historyVars
  <2>. QED
    BY <2>1 DEF AnswersInv, CallsLogged, ResultsLogged, HeldIsLogged, ListsScreened,
                HeldIsScreened, CarriesCall, Logged, Concluded, Sent
<1>. QED
  BY <1>1, <1>2, <1>3, <1>4, <1>5, <1>6, <1>7, <1>8, AnswersFrame DEF ClientPump, ServerPump

\* The invariants of the traffic together; FlowInv says that a list in hand is
\* not taken for a call.
LEMMA TrafficInv ==
  Spec => [](TypeOK /\ FlowInv /\ TravelInv /\ NotesInv /\ AnswersInv)
<1>1. Init => TypeOK /\ FlowInv /\ TravelInv /\ NotesInv /\ AnswersInv
  BY TypeOKInit, FlowInvInit, TravelInvInit, NotesInvInit, AnswersInvInit
<1>2. TypeOK /\ FlowInv /\ TravelInv /\ NotesInv /\ AnswersInv /\ [Next]_vars
        => TypeOK' /\ FlowInv' /\ TravelInv' /\ NotesInv' /\ AnswersInv'
  BY TypeOKStep, FlowInvStep, TravelInvStep, NotesInvStep, AnswersInvStep DEF FlowInv
<1>. QED
  BY <1>1, <1>2, PTL DEF Spec

(***************************************************************************)
(* The output of a tool never reaches the client without a record of the   *)
(* call and one of its result, whatever overtakes what.                    *)
(***************************************************************************)
THEOREM OutputAuditedHolds == Spec => []OutputAudited
<1>1. AnswersInv => OutputAudited
  <2>. SUFFICES ASSUME AnswersInv, NEW d \in delivered, NEW n \in DOMAIN sent,
                       d.id = sent[n].id, d.form = "result"
                PROVE  Concluded(d.id) /\ Logged(d.id)
    BY DEF OutputAudited, Concluded, Logged
  <2>1. Sent(d.id)
    BY DEF Sent
  <2>. QED
    BY <2>1 DEF AnswersInv, CallsLogged, ResultsLogged
<1>. QED
  BY <1>1, TrafficInv, PTL

(***************************************************************************)
(* Where a changed definition is denied, no list the client gets holds a   *)
(* definition that fails its pin.                                          *)
(***************************************************************************)
THEOREM ListingsScreenedHolds == Spec => []ListingsScreened
<1>1. AnswersInv => ListingsScreened
  BY DEF AnswersInv, ListsScreened, ListingsScreened, IsListing, PinsHold
<1>. QED
  BY <1>1, TrafficInv, PTL

-----------------------------------------------------------------------------
(***************************************************************************)
(* Violations.  The verdict on the call in hand was reached on what the    *)
(* scopes carry, which is what the calls sent have brought; nothing is     *)
(* sent until the call itself is.                                          *)
(***************************************************************************)
CurBreaks ==
    \E r \in DOMAIN Rules :
        /\ Rules[r].sink \cap Labels(cur) # {}
        /\ Rules[r].after \subseteq Brought(Len(sent), cur.scope)

LoggedDenied(i) == [kind |-> "denied", id |-> i] \in audit

DenialsLogged ==
    /\ cpc \in {"record", "log"} /\ CurBreaks => verdict.deny
    /\ (cpc = "remember" \/ CarriesCall) /\ CurBreaks => LoggedDenied(cur.id)

ViolationsInv == DenialsLogged /\ ForbiddenCallsAudited

LEMMA ViolationsInvInit == Init => ViolationsInv
BY DEF Init, ViolationsInv, DenialsLogged, ForbiddenCallsAudited, CarriesCall

LEMMA ViolationsFrame ==
  ASSUME [Next]_vars
  PROVE  \/ UNCHANGED <<cpc, cur, verdict, sent>> /\ audit \subseteq audit'
         \/ ClientReads \/ ClientPump \/ PinsTimedOut
BY DEF Next, vars, clientVars, historyVars, ServerPump, TakeProbeReply, TakeReply,
       ObserveReply, ClosePinsReady, Deliver, ServerEOF, RunWaits, Peers, Terminated,
       ClientGone, ServerGone, GraceOver, RunGoes, Answer, ServerExits, ClientLeaves,
       StopsReading, ReadsOn

\* The steps that send nothing.
LEMMA ViolationsInvKept ==
  ASSUME ViolationsInv, UNCHANGED sent, audit \subseteq audit', DenialsLogged'
  PROVE  ViolationsInv'
<1>1. \A n, s : Brought(n, s)' = Brought(n, s)
  BY BroughtKept
<1>. QED
  BY <1>1 DEF ViolationsInv, ForbiddenCallsAudited, Breaks, Labels

LEMMA ViolationsInvStep ==
  TypeOK /\ FlowInv /\ ViolationsInv /\ [Next]_vars => ViolationsInv'
<1>. SUFFICES ASSUME TypeOK, FlowInv, ViolationsInv, [Next]_vars
              PROVE  ViolationsInv'
  OBVIOUS
<1>t. ClientTypeOK /\ sent \in Seq(CallMessage)
  BY DEF TypeOK, HistoryTypeOK
<1>c. UNCHANGED <<cur, sent>> => CurBreaks' = CurBreaks
  <2>1. UNCHANGED sent => \A n, s : Brought(n, s)' = Brought(n, s)
    BY BroughtKept
  <2>. QED
    BY <2>1 DEF CurBreaks, Labels
<1>1. CASE UNCHANGED <<cpc, cur, verdict, sent>> /\ audit \subseteq audit'
  BY <1>1, <1>c, ViolationsInvKept
     DEF ViolationsInv, DenialsLogged, CarriesCall, LoggedDenied
<1>2. CASE ClientReads \/ PinsTimedOut \/ PinsChecked \/ LogDenial \/ WriteDenial \/ SendProbe
           \/ NoteList
  <2>1. /\ UNCHANGED sent /\ audit \subseteq audit'
        /\ cpc' \notin {"record", "log", "remember"} /\ ~CarriesCall'
    <3>1. CASE ClientReads
      BY <3>1 DEF ClientReads, ReadCall, ReadList, ReadOther, ReadEOF, ReadMessage,
                  historyVars, CarriesCall
    <3>2. CASE PinsTimedOut \/ PinsChecked \/ LogDenial \/ WriteDenial
      BY <3>2 DEF PinsTimedOut, PinsChecked, LogDenial, WriteDenial, ClientGoes,
                  historyVars, CarriesCall
    <3>3. CASE SendProbe \/ NoteList
      BY <3>3 DEF SendProbe, NoteList, FlowInv, NotesAreLists, ClientGoes, historyVars,
                  CarriesCall
    <3>. QED
      BY <1>2, <3>1, <3>2, <3>3
  <2>. QED
    BY <2>1, ViolationsInvKept DEF DenialsLogged
<1>3. CASE JudgeCall
  <2>1. /\ UNCHANGED <<sent, cur, audit>> /\ cpc = "decide"
        /\ cpc' \in {"log denial", "record"}
        /\ verdict' = Decide(cur.scope, This, cur.tool, cur.arg)
        /\ cur \in CallMessage
    BY <1>3, <1>t DEF JudgeCall, ClientGoes, ClientTypeOK
  <2>2. Carried(cur.scope) = Brought(Len(sent), cur.scope)
    BY <2>1 DEF FlowInv, ScopesCarry, BroughtInHand, InHand, CallMessage
  <2>3. CurBreaks => Broken(cur.scope, Lookup(This, cur.tool).labels) # {}
    BY <2>2 DEF CurBreaks, Broken, Labels
  <2>4. CurBreaks => verdict'.deny
    BY <2>1, <2>3, DecideCause
  <2>5. CurBreaks' = CurBreaks /\ cpc' \notin {"log", "remember"} /\ ~CarriesCall'
    BY <1>c, <2>1 DEF CarriesCall
  <2>6. DenialsLogged'
    BY <2>4, <2>5 DEF DenialsLogged
  <2>. QED
    BY <2>1, <2>6, ViolationsInvKept
<1>4. CASE RecordCall
  <2>1. UNCHANGED <<sent, cur, audit, verdict>> /\ cpc = "record" /\ cpc' = "log"
    BY <1>4 DEF RecordCall, ClientGoes, historyVars
  <2>. QED
    BY <1>c, <2>1, ViolationsInvKept DEF ViolationsInv, DenialsLogged, CarriesCall
<1>5. CASE LogCall
  <2>1. /\ UNCHANGED <<sent, cur>> /\ cpc = "log" /\ cpc' = "remember"
        /\ audit \subseteq audit'
        /\ verdict.deny => LoggedDenied(cur.id)'
    BY <1>5 DEF LogCall, ClientGoes, LoggedDenied
  <2>2. CurBreaks => verdict.deny
    BY <2>1 DEF ViolationsInv, DenialsLogged
  <2>. QED
    BY <1>c, <2>1, <2>2, ViolationsInvKept DEF DenialsLogged, CarriesCall
<1>6. CASE Remember
  <2>1. UNCHANGED <<sent, cur, audit>> /\ cpc = "remember" /\ cpc' = "forward"
    BY <1>6 DEF Remember, ClientGoes, historyVars
  <2>. QED
    BY <1>c, <2>1, ViolationsInvKept
       DEF ViolationsInv, DenialsLogged, CarriesCall, LoggedDenied
<1>7. CASE Forward
  <2>1. /\ UNCHANGED audit /\ cpc = "forward" /\ cpc' \in {"read", "stopped"}
        /\ sent' = sent \/ (sent' = Append(sent, cur) /\ CarriesCall)
        /\ cur \in Message
    BY <1>7, <1>t DEF Forward, ClientGoes, ClientTypeOK, CarriesCall
  <2>2. DenialsLogged'
    BY <2>1 DEF DenialsLogged, CarriesCall
  <2>3. CASE sent' = sent
    BY <2>1, <2>2, <2>3, ViolationsInvKept
  <2>4. CASE sent' = Append(sent, cur) /\ CarriesCall
    <3>1. cur \in CallMessage
      BY <2>1, <2>4 DEF CarriesCall, Message, PlainMessage
    <3>2. PICK k \in Nat : k = Len(sent)
      BY <1>t
    <3>3. /\ Len(sent') = k + 1
          /\ \A n \in 1..k : sent'[n] = sent[n]
          /\ sent'[k + 1] = cur
          /\ \A s : \A n \in 0..k : Brought(n, s)' = Brought(n, s)
      BY <1>t, <2>4, <3>1, <3>2, BroughtAppend
    <3>4. ASSUME NEW n \in 1..k, Breaks(n)'
          PROVE  [kind |-> "denied", id |-> sent'[n].id] \in audit'
      <4>1. n - 1 \in 0..k /\ n \in DOMAIN sent
        BY <1>t, <3>2
      <4>2. Breaks(n)
        BY <3>3, <3>4, <4>1 DEF Breaks, Labels
      <4>. QED
        BY <2>1, <3>3, <4>1, <4>2 DEF ViolationsInv, ForbiddenCallsAudited
    <3>5. ASSUME Breaks(k + 1)'
          PROVE  [kind |-> "denied", id |-> sent'[k + 1].id] \in audit'
      <4>1. k + 1 - 1 = k /\ k \in 0..k
        BY <3>2
      <4>2. CurBreaks
        BY <3>2, <3>3, <3>5, <4>1 DEF Breaks, CurBreaks, Labels
      <4>. QED
        BY <2>1, <2>4, <3>3, <4>2 DEF ViolationsInv, DenialsLogged, LoggedDenied
    <3>6. DOMAIN sent' = 1..(k + 1) /\ \A n \in 1..(k + 1) : n \in 1..k \/ n = k + 1
      BY <1>t, <2>4, <3>1, <3>2, <3>3
    <3>. QED
      BY <2>2, <3>4, <3>5, <3>6 DEF ViolationsInv, ForbiddenCallsAudited
  <2>. QED
    BY <2>1, <2>3, <2>4
<1>. QED
  BY <1>1, <1>2, <1>3, <1>4, <1>5, <1>6, <1>7, ViolationsFrame DEF ClientPump

(***************************************************************************)
(* Denials.  The pump logs the denial of the call in hand before it writes *)
(* it, and what the server pump delivers is a reply.                       *)
(***************************************************************************)
RefusalsInv == RefusalsAudited /\ (cpc = "deny" => LoggedDenied(cur.id))

LEMMA RefusalsInvInit == Init => RefusalsInv
BY DEF Init, RefusalsInv, RefusalsAudited

LEMMA AuditGrows ==
  ASSUME [Next]_vars
  PROVE  audit \subseteq audit'
BY DEF Next, vars, historyVars, ClientReads, ReadCall, ReadList, ReadOther, ReadEOF,
       ReadMessage, ClientPump, SendProbe, PinsChecked, PinsTimedOut, JudgeCall, LogDenial,
       WriteDenial, RecordCall, LogCall, Remember, NoteList, Forward, ServerPump,
       TakeProbeReply, TakeReply, ObserveReply, ClosePinsReady, Deliver, ServerEOF,
       RunWaits, Peers, Terminated, ClientGone, ServerGone, GraceOver, RunGoes, Answer,
       ServerExits, ClientLeaves, StopsReading, ReadsOn

LEMMA DenyFrame ==
  ASSUME [Next]_vars
  PROVE  \/ UNCHANGED <<delivered, cpc, cur>>
         \/ UNCHANGED delivered /\ cpc' # "deny"
         \/ LogDenial \/ WriteDenial \/ Deliver
BY DEF Next, vars, historyVars, clientVars, ClientReads, ReadCall, ReadList, ReadOther,
       ReadEOF, ReadMessage, ClientPump, ClientGoes, SendProbe, PinsChecked, PinsTimedOut,
       JudgeCall, RecordCall, LogCall, Remember, NoteList, Forward, ServerPump,
       TakeProbeReply, TakeReply, ObserveReply, ClosePinsReady, ServerEOF, RunWaits,
       Peers, Terminated, ClientGone, ServerGone, GraceOver, RunGoes, Answer,
       ServerExits, ClientLeaves, StopsReading, ReadsOn

LEMMA RefusalsInvStep ==
  TypeOK /\ RefusalsInv /\ [Next]_vars => RefusalsInv'
<1>. SUFFICES ASSUME TypeOK, RefusalsInv, [Next]_vars PROVE RefusalsInv'
  OBVIOUS
<1>0. audit \subseteq audit'
  BY AuditGrows
<1>1. CASE UNCHANGED <<delivered, cpc, cur>> \/ (UNCHANGED delivered /\ cpc' # "deny")
  BY <1>0, <1>1 DEF RefusalsInv, RefusalsAudited, LoggedDenied
<1>2. CASE LogDenial
  BY <1>0, <1>2 DEF LogDenial, RefusalsInv, RefusalsAudited, LoggedDenied
<1>3. CASE WriteDenial
  <2>1. /\ UNCHANGED audit /\ LoggedDenied(cur.id) /\ cpc' # "deny"
        /\ \A d \in delivered' : d \in delivered \/ d.id = cur.id
    BY <1>3 DEF WriteDenial, ClientGoes, RefusalsInv
  <2>. QED
    BY <2>1 DEF RefusalsInv, RefusalsAudited, LoggedDenied
<1>4. CASE Deliver
  <2>1. rsp \in Reply /\ rsp.form # "denial"
    BY <1>4 DEF Deliver, TypeOK, ServerTypeOK, Reply
  <2>2. /\ UNCHANGED <<audit, cpc, cur>>
        /\ \A d \in delivered' : d \in delivered \/ d = rsp
    BY <1>4 DEF Deliver, clientVars
  <2>. QED
    BY <2>1, <2>2 DEF RefusalsInv, RefusalsAudited, LoggedDenied
<1>. QED
  BY <1>1, <1>2, <1>3, <1>4, DenyFrame

(***************************************************************************)
(* In any mode, a call that breaks a rule has left a "denied" record       *)
(* before the server gets it, and every call that is denied before the     *)
(* client is told.                                                         *)
(***************************************************************************)
THEOREM ViolationsAuditedHolds == Spec => []ViolationsAudited
<1>. DEFINE Inv == TypeOK /\ FlowInv /\ ViolationsInv /\ RefusalsInv
<1>1. Init => Inv
  BY TypeOKInit, FlowInvInit, ViolationsInvInit, RefusalsInvInit
<1>2. Inv /\ [Next]_vars => Inv'
  BY TypeOKStep, FlowInvStep, ViolationsInvStep, RefusalsInvStep
<1>3. Inv => ViolationsAudited
  BY DEF ViolationsInv, RefusalsInv, ViolationsAudited
<1>. QED
  BY <1>1, <1>2, <1>3, PTL DEF Spec

-----------------------------------------------------------------------------
(***************************************************************************)
(* Evidence.  The number of calls the engine counts in a scope is the      *)
(* number of its calls recorded, so that the evidence it notes for a label *)
(* names the call recorded at that moment, and no earlier one brought it.  *)
(***************************************************************************)
CallsCounted ==
    cpc # "stopped" => \A s \in Scope : calls[s] = Number(Len(Recorded), s)

EvidenceInv == CallsCounted /\ EvidenceIsFirst

LEMMA EvidenceInvInit == Init => EvidenceInv
<1>. SUFFICES ASSUME Init PROVE EvidenceInv
  OBVIOUS
<1>1. Recorded = <<>> /\ Len(Recorded) = 0 /\ DOMAIN Recorded = {}
  BY DEF Init, Recorded
<1>2. \A s : Number(0, s) = 0
  <2>1. \A s : {j \in 1..0 : Recorded[j].scope = s} = {}
    OBVIOUS
  <2>. QED
    BY <2>1, FS_EmptySet DEF Number
<1>3. \A s \in Scope, l \in Label : Bringing(s, l) = {} /\ seen[s][l] = NoEvidence
  BY <1>1 DEF Bringing, Init, EngineInit
<1>4. \A s \in Scope : calls[s] = 0
  BY DEF Init, EngineInit
<1>. QED
  BY <1>1, <1>2, <1>3, <1>4 DEF EvidenceInv, CallsCounted, EvidenceIsFirst

LEMMA EvidenceFrame ==
  ASSUME TypeOK, NotesAreLists, [Next]_vars
  PROVE  \/ cpc' = "stopped"
         \/ UNCHANGED <<Recorded, calls, seen>> /\ cpc # "stopped"
         \/ RecordCall
<1>1. CASE UNCHANGED <<cpc, cur, sent, calls, seen>>
  BY <1>1 DEF Recorded
<1>2. CASE ClientReads
  <2>1. /\ UNCHANGED <<sent, calls, seen>> /\ cpc = "read"
        /\ cpc' \in {"probe", "decide", "note", "stopped"} \/ (cpc' = "forward" /\ cur'.kind = "other")
    BY <1>2 DEF ClientReads, ReadCall, ReadList, ReadOther, ReadEOF, ReadMessage,
                engineVars, historyVars
  <2>. QED
    BY <2>1 DEF Recorded
<1>3. CASE PinsTimedOut \/ PinsChecked \/ JudgeCall \/ LogDenial \/ SendProbe \/ WriteDenial
  <2>1. /\ UNCHANGED <<sent, calls, seen>>
        /\ cpc \in {"probe", "wait", "decide", "log denial", "deny"}
        /\ cpc' \in {"wait", "decide", "log denial", "deny", "record", "read", "stopped"}
    BY <1>3 DEF PinsTimedOut, PinsChecked, JudgeCall, LogDenial, SendProbe, WriteDenial,
                ClientGoes, engineVars, historyVars
  <2>. QED
    BY <2>1 DEF Recorded
<1>4. CASE LogCall \/ Remember \/ NoteList
  <2>1. /\ UNCHANGED <<sent, calls, seen, cur>>
        /\ \/ cpc = "log" /\ cpc' = "remember"
           \/ cpc = "remember" /\ cpc' = "forward" /\ cur \in CallMessage
           \/ cpc = "note" /\ cpc' = "forward"
    BY <1>4 DEF LogCall, Remember, NoteList, ClientGoes, engineVars, historyVars, TypeOK,
                ClientTypeOK
  <2>. QED
    BY <2>1 DEF Recorded, NotesAreLists, CallMessage
<1>5. CASE Forward
  <2>1. /\ UNCHANGED <<calls, seen>>
        /\ cpc = "forward" /\ cpc' \in {"read", "stopped"}
        /\ cpc' = "read" => sent' = IF cur.kind = "call" THEN Append(sent, cur) ELSE sent
    BY <1>5 DEF Forward, ClientGoes, engineVars
  <2>. QED
    BY <2>1 DEF Recorded
<1>6. UNCHANGED <<cpc, cur, sent, calls, seen>> \/ ClientReads \/ ClientPump \/ PinsTimedOut
  <2>1. UNCHANGED <<clientVars, seen, sent>> \/ ClientReads \/ ClientPump \/ PinsTimedOut
    BY FlowFrame
  <2>2. UNCHANGED engineVars \/ RecordCall \/ UNCHANGED <<calls, seen>>
    BY EngineFrame, RepliesType
  <2>. QED
    BY <2>1, <2>2 DEF clientVars, engineVars, ClientPump
<1>. QED
  BY <1>1, <1>2, <1>3, <1>4, <1>5, <1>6 DEF ClientPump, NotesAreLists

LEMMA EvidenceInvKept ==
  ASSUME EvidenceInv, UNCHANGED <<Recorded, calls, seen>>, cpc # "stopped"
  PROVE  EvidenceInv'
<1>1. \A n, s : Number(n, s)' = Number(n, s)
  BY DEF Number
<1>2. \A s, l : Bringing(s, l)' = Bringing(s, l)
  BY DEF Bringing, Labels
<1>. QED
  BY <1>1, <1>2 DEF EvidenceInv, CallsCounted, EvidenceIsFirst

\* One more call is recorded.
LEMMA NumberAppend ==
  ASSUME Recorded \in Seq(CallMessage), NEW m \in CallMessage,
         NEW k \in Nat, k = Len(Recorded), Recorded' = Append(Recorded, m)
  PROVE  /\ \A s : \A n \in 0..k : Number(n, s) \in Nat /\ Number(n, s)' = Number(n, s)
         /\ \A s : Number(k + 1, s)' = IF m.scope = s THEN Number(k, s) + 1 ELSE Number(k, s)
         /\ \A s, l : Bringing(s, l)' =
              Bringing(s, l) \cup IF m.scope = s /\ l \in Stains(Labels(m)) THEN {k + 1} ELSE {}
<1>1. /\ Len(Recorded') = k + 1 /\ DOMAIN Recorded = 1..k /\ DOMAIN Recorded' = 1..(k + 1)
      /\ \A n \in 1..k : Recorded'[n] = Recorded[n]
      /\ Recorded'[k + 1] = m
  OBVIOUS
<1>. DEFINE Of(n, s) == {j \in 1..n : Recorded[j].scope = s}
<1>2. \A s : \A n \in 0..k : IsFiniteSet(Of(n, s)) /\ Cardinality(Of(n, s)) \in Nat
  <2>. SUFFICES ASSUME NEW s, NEW n \in 0..k
                PROVE  IsFiniteSet(Of(n, s)) /\ Cardinality(Of(n, s)) \in Nat
    OBVIOUS
  <2>1. IsFiniteSet(1..n)
    BY FS_Interval
  <2>2. IsFiniteSet(Of(n, s))
    BY <2>1, FS_Subset
  <2>. QED
    BY <2>2, FS_CardinalityType
<1>3. ASSUME NEW s, NEW n \in 0..k
      PROVE  Number(n, s) \in Nat /\ Number(n, s)' = Number(n, s)
  <2>1. Of(n, s)' = Of(n, s)
    BY <1>1
  <2>2. Number(n, s) = Cardinality(Of(n, s)) /\ Number(n, s)' = Cardinality(Of(n, s))
    BY <2>1 DEF Number
  <2>. QED
    BY <1>2, <2>2
<1>4. ASSUME NEW s
      PROVE  Number(k + 1, s)' = IF m.scope = s THEN Number(k, s) + 1 ELSE Number(k, s)
  <2>1. {j \in 1..(k + 1) : Recorded'[j].scope = s}
          = Of(k, s) \cup IF m.scope = s THEN {k + 1} ELSE {}
    BY <1>1
  <2>2. Number(k + 1, s)' = Cardinality(Of(k, s) \cup IF m.scope = s THEN {k + 1} ELSE {})
    BY <2>1 DEF Number
  <2>3. k \in 0..k /\ k + 1 \notin Of(k, s) /\ Number(k, s) = Cardinality(Of(k, s))
    BY DEF Number
  <2>4. IsFiniteSet(Of(k, s))
    BY <1>2, <2>3
  <2>. HIDE DEF Of
  <2>5. CASE m.scope = s
    <3>1. Cardinality(Of(k, s) \cup {k + 1}) = Cardinality(Of(k, s)) + 1
      BY <2>3, <2>4, FS_AddElement
    <3>. QED
      BY <2>2, <2>3, <2>5, <3>1
  <2>6. CASE m.scope # s
    BY <2>2, <2>3, <2>6
  <2>. QED
    BY <2>5, <2>6
<1>5. ASSUME NEW s, NEW l
      PROVE  Bringing(s, l)' =
               Bringing(s, l) \cup IF m.scope = s /\ l \in Stains(Labels(m)) THEN {k + 1} ELSE {}
  BY <1>1 DEF Bringing, Labels
<1>. QED
  BY <1>3, <1>4, <1>5

LEMMA EvidenceInvStep == TypeOK /\ NotesAreLists /\ EvidenceInv /\ [Next]_vars => EvidenceInv'
<1>. SUFFICES ASSUME TypeOK, NotesAreLists, EvidenceInv, [Next]_vars PROVE EvidenceInv'
  OBVIOUS
<1>1. CASE cpc' = "stopped"
  BY <1>1 DEF EvidenceInv, CallsCounted, EvidenceIsFirst
<1>2. CASE UNCHANGED <<Recorded, calls, seen>> /\ cpc # "stopped"
  BY <1>2, EvidenceInvKept
<1>3. CASE RecordCall
  <2>0. EngineTypeOK /\ sent \in Seq(CallMessage) /\ ClientTypeOK
    BY DEF TypeOK, HistoryTypeOK
  <2>1. /\ cpc = "record" /\ cpc' = "log" /\ UNCHANGED <<cur, sent>>
        /\ cur \in CallMessage /\ cur.scope \in Scope /\ cur.tool \in Tool
        /\ Stain(cur.scope, cur.tool, Labels(cur))
    BY <1>3, <2>0 DEF RecordCall, ClientGoes, historyVars, ClientTypeOK, Record, Labels,
                      CallMessage
  <2>2. Recorded = sent /\ Recorded' = Append(Recorded, cur)
    BY <2>1 DEF Recorded
  <2>. PICK k \in Nat : k = Len(Recorded)
    BY <2>0, <2>2
  <2>. PICK z \in Scope : z = cur.scope
    BY <2>1
  <2>. DEFINE new(s, l) == s = z /\ l \in Stains(Labels(cur))
  <2>3. /\ \A s : \A n \in 0..k : Number(n, s) \in Nat /\ Number(n, s)' = Number(n, s)
        /\ \A s : Number(k + 1, s)' = IF s = z THEN Number(k, s) + 1 ELSE Number(k, s)
        /\ \A s, l : Bringing(s, l)' = Bringing(s, l) \cup IF new(s, l) THEN {k + 1} ELSE {}
    BY <2>0, <2>1, <2>2, NumberAppend
  <2>4. /\ Len(Recorded') = k + 1 /\ Recorded'[k + 1] = cur
        /\ \A n \in 1..k : Recorded'[n] = Recorded[n] /\ Recorded[n].tool \in Tool
        /\ \A s, l : \A n \in Bringing(s, l) : n \in 1..k /\ n \in 0..k
    <3>1. Recorded \in Seq(CallMessage) /\ \A m \in CallMessage : m.tool \in Tool
      BY <2>0, <2>2 DEF CallMessage
    <3>2. /\ Len(Recorded') = k + 1 /\ Recorded'[k + 1] = cur /\ DOMAIN Recorded = 1..k
          /\ \A n \in 1..k : Recorded'[n] = Recorded[n] /\ Recorded[n] \in CallMessage
      BY <2>1, <2>2, <3>1
    <3>3. \A s, l : \A n \in Bringing(s, l) : n \in 1..k
      BY <3>2 DEF Bringing
    <3>. QED
      BY <3>1, <3>2, <3>3
  <2>5. /\ calls'[z] = calls[z] + 1
        /\ \A s \in Scope \ {z} : calls'[s] = calls[s] /\ seen'[s] = seen[s]
        /\ \A l \in Label :
             seen'[z][l] = IF l \in Stains(Labels(cur)) /\ seen[z][l] = NoEvidence
                           THEN [source |-> cur.tool, call |-> calls[z] + 1]
                           ELSE seen[z][l]
    BY <2>0, <2>1, StainEvidence
  <2>6. \A s \in Scope : calls[s] = Number(k, s)
    BY <2>1 DEF EvidenceInv, CallsCounted
  <2>7. CallsCounted'
    <3>1. \A s \in Scope : calls'[s] = Number(k + 1, s)'
      BY <2>3, <2>5, <2>6
    <3>2. \A s : Number(Len(Recorded), s)' = Number(k + 1, s)'
      BY <2>4 DEF Number
    <3>. QED
      BY <3>1, <3>2 DEF CallsCounted
  <2>8. ASSUME NEW s \in Scope, NEW l \in Label
        PROVE  IF Bringing(s, l)' = {} THEN seen'[s][l] = NoEvidence
               ELSE \E n \in Bringing(s, l)' :
                      /\ \A m \in Bringing(s, l)' : n <= m
                      /\ seen'[s][l] = [source |-> Recorded'[n].tool, call |-> Number(n, s)']
    <3>1. IF Bringing(s, l) = {} THEN seen[s][l] = NoEvidence
          ELSE \E n \in Bringing(s, l) :
                 /\ \A m \in Bringing(s, l) : n <= m
                 /\ seen[s][l] = [source |-> Recorded[n].tool, call |-> Number(n, s)]
      BY <2>1 DEF EvidenceInv, EvidenceIsFirst
    <3>2. CASE Bringing(s, l) # {}
      <4>1. PICK n \in Bringing(s, l) :
              /\ \A m \in Bringing(s, l) : n <= m
              /\ seen[s][l] = [source |-> Recorded[n].tool, call |-> Number(n, s)]
        BY <3>1, <3>2
      <4>2. seen[s][l] # NoEvidence
        BY <2>3, <2>4, <4>1, EngineAssumption
      <4>3. seen'[s][l] = seen[s][l]
        BY <2>5, <4>2
      <4>4. \A m \in Bringing(s, l)' : n <= m
        BY <2>3, <2>4, <4>1
      <4>5. seen'[s][l] = [source |-> Recorded'[n].tool, call |-> Number(n, s)']
        BY <2>3, <2>4, <4>1, <4>3
      <4>6. n \in Bringing(s, l)'
        BY <2>3
      <4>. QED
        BY <4>4, <4>5, <4>6
    <3>3. CASE Bringing(s, l) = {} /\ new(s, l)
      <4>1. Bringing(s, l)' = {k + 1}
        BY <2>3, <3>3
      <4>2. seen'[s][l] = [source |-> cur.tool, call |-> Number(k + 1, s)']
        BY <2>3, <2>5, <2>6, <3>1, <3>3
      <4>. QED
        BY <2>4, <4>1, <4>2
    <3>4. CASE Bringing(s, l) = {} /\ ~new(s, l)
      BY <2>3, <2>5, <3>1, <3>4
    <3>. QED
      BY <3>2, <3>3, <3>4
  <2>. QED
    BY <2>7, <2>8 DEF EvidenceInv, EvidenceIsFirst
<1>. QED
  BY <1>1, <1>2, <1>3, EvidenceFrame

(***************************************************************************)
(* For every policy and any number of scopes and calls, the evidence kept  *)
(* for a label names the first call of the scope that brought it, and its  *)
(* place among the calls of the scope.                                     *)
(***************************************************************************)
THEOREM EvidenceIsFirstHolds == Spec => []EvidenceIsFirst
<1>1. Init => TypeOK /\ FlowInv /\ EvidenceInv
  BY TypeOKInit, FlowInvInit, EvidenceInvInit
<1>2. TypeOK /\ FlowInv /\ EvidenceInv /\ [Next]_vars => TypeOK' /\ FlowInv' /\ EvidenceInv'
  BY TypeOKStep, FlowInvStep, EvidenceInvStep DEF FlowInv
<1>3. EvidenceInv => EvidenceIsFirst
  BY DEF EvidenceInv
<1>. QED
  BY <1>1, <1>2, <1>3, PTL DEF Spec

-----------------------------------------------------------------------------
(***************************************************************************)
(* Refinement.  Writing a call to the server is FlowWall's Release, and a  *)
(* verdict that blocks is its Refuse; every other step is a stutter.       *)
(***************************************************************************)
LEMMA RestrictedFact ==
  ASSUME NEW m \in CallMessage
  PROVE  EventOf(m).restricted <=>
           \/ ~Known(This, m.tool) /\ UnknownTools = ActionDeny
           \/ Lookup(This, m.tool).deny
           \/ PinsGate(This, m.tool)
           \/ BreaksArgs(Lookup(This, m.tool), m.arg)
BY DEF EventOf, Restricted, CallMessage

\* What the released calls carry is what the calls sent have brought.
LEMMA WallCarries ==
  ASSUME sent \in Seq(CallMessage)
  PROVE  \A s : Wall!CarriedIn(s) = Brought(Len(sent), s)
<1>. TAKE s
<1>. DEFINE rel == [i \in DOMAIN sent |-> EventOf(sent[i])]
            W   == {i \in 1..Len(sent) : sent[i].scope = s}
<1>1. {j \in DOMAIN rel : rel[j].scope = s} = W
  BY DEF EventOf
<1>2. \A i \in W : rel[i].labels = Labels(sent[i])
  BY DEF EventOf
<1>3. Wall!CarriedIn(s) = (UNION {rel[i].labels : i \in W}) \ {LabelSink}
  BY <1>1 DEF Wall!CarriedIn
<1>4. Brought(Len(sent), s) = UNION {Stains(Labels(sent[i])) : i \in W}
  BY DEF Brought
<1>. HIDE DEF W, rel
<1>5. \A l : l \in Wall!CarriedIn(s) <=> \E i \in W : l \in Labels(sent[i]) \ {LabelSink}
  BY <1>2, <1>3
<1>6. \A l : l \in Brought(Len(sent), s) <=> \E i \in W : l \in Labels(sent[i]) \ {LabelSink}
  BY <1>4 DEF Stains
<1>. QED
  BY <1>5, <1>6

LEMMA WallForbids ==
  ASSUME sent \in Seq(CallMessage), NEW m
  PROVE  Wall!Forbidden(EventOf(m)) <=>
           \E r \in DOMAIN Rules : /\ Rules[r].sink \cap Labels(m) # {}
                                   /\ Rules[r].after \subseteq Brought(Len(sent), m.scope)
BY WallCarries DEF Wall!Forbidden, EventOf

LEMMA WallInit == Init => Wall!Init
<1>. SUFFICES ASSUME Init PROVE Wall!Init
  OBVIOUS
<1>1. sent = <<>> /\ refused = {}
  BY DEF Init
<1>2. [i \in DOMAIN sent |-> EventOf(sent[i])] = <<>>
  BY <1>1
<1>. QED
  BY <1>1, <1>2 DEF Wall!Init

LEMMA WallStep ==
  ASSUME TypeOK, FlowInv, TravelInv, [Next]_vars
  PROVE  [Wall!Next]_<<[i \in DOMAIN sent |-> EventOf(sent[i])], {EventOf(m) : m \in refused}>>
<1>. DEFINE rel == [i \in DOMAIN sent |-> EventOf(sent[i])]
            ref == {EventOf(m) : m \in refused}
<1>t. ClientTypeOK /\ sent \in Seq(CallMessage) /\ refused \subseteq CallMessage
  BY DEF TypeOK, HistoryTypeOK
<1>e. \A m : EventOf(m)' = EventOf(m)
  BY DEF EventOf, Labels, Restricted, PinsGate
<1>1. CASE UNCHANGED <<sent, refused>>
  BY <1>1, <1>e
<1>2. CASE JudgeCall /\ refused' # refused
  <2>1. /\ UNCHANGED sent /\ refused' = refused \cup {cur}
        /\ Blocked(Decide(cur.scope, This, cur.tool, cur.arg))
        /\ cpc = "decide" /\ cur \in CallMessage
    BY <1>2, <1>t DEF JudgeCall, ClientGoes, ClientTypeOK
  <2>. DEFINE e == EventOf(cur)
  <2>2. e \notin ref
    <3>1. Mine(cur.id) /\ ~Denying /\ cur.id \in Nat
      BY <2>1 DEF Mine, AtWork, Denying, CallMessage
    <3>2. ~Refused(cur.id)
      BY <3>1 DEF TravelInv, OnePlace
    <3>3. \A m : EventOf(m).id = m.id
      BY DEF EventOf
    <3>. QED
      BY <3>2, <3>3 DEF Refused
  <2>3. ref' = ref \cup {e} /\ rel' = rel
    BY <1>e, <2>1
  <2>4. Enforced /\ (e.restricted \/ Wall!Forbidden(e))
    <3>1. Carried(cur.scope) = Brought(Len(sent), cur.scope)
      BY <2>1 DEF FlowInv, ScopesCarry, BroughtInHand, InHand, CallMessage
    <3>2. Broken(cur.scope, Lookup(This, cur.tool).labels) # {} => Wall!Forbidden(e)
      BY <1>t, <3>1, WallForbids DEF Broken, Labels
    <3>. QED
      BY <2>1, <3>2, DecideCause, RestrictedFact DEF Blocked
  <2>. QED
    BY <2>2, <2>3, <2>4 DEF Wall!Next, Wall!Refuse
<1>3. CASE Forward /\ sent' # sent
  <2>1. /\ UNCHANGED refused /\ sent' = Append(sent, cur)
        /\ cpc = "forward" /\ cur.kind = "call" /\ cur \in Message
    BY <1>3, <1>t DEF Forward, ClientGoes, ClientTypeOK
  <2>2. cur \in CallMessage
    BY <2>1 DEF Message, PlainMessage
  <2>. DEFINE e == EventOf(cur)
  <2>3. rel' = Append(rel, e) /\ ref' = ref
    BY <1>t, <1>e, <2>1, <2>2
  <2>4. Len(rel') > Len(rel) /\ rel'[Len(rel')] = e
    BY <1>t, <2>1, <2>2, <2>3
  <2>5. Enforced => ~Wall!Forbidden(e)
    BY <1>t, <2>1, WallForbids DEF FlowInv, PassedBreaksNothing, Passed, InHand
  <2>. QED
    BY <2>3, <2>4, <2>5 DEF Wall!Next, Wall!Release
<1>. QED
  BY <1>1, <1>2, <1>3, HistoryFrame, ReadsType, RepliesType DEF JudgeCall, Forward

(***************************************************************************)
(* For every policy and any number of calls, the calls the server got and  *)
(* the calls refused are what FlowWall allows.                             *)
(***************************************************************************)
THEOREM ImplementsFlowWallHolds == Spec => ImplementsFlowWall
<1>1. Init => TypeOK /\ FlowInv /\ TravelInv
  BY TypeOKInit, FlowInvInit, TravelInvInit
<1>2. TypeOK /\ FlowInv /\ TravelInv /\ [Next]_vars => TypeOK' /\ FlowInv' /\ TravelInv'
  BY TypeOKStep, FlowInvStep, TravelInvStep
<1>. QED
  BY <1>1, <1>2, WallInit, WallStep, PTL DEF Spec, ImplementsFlowWall, Wall!Spec

(***************************************************************************)
(* What FlowWall promises, it promises of the traffic of the proxy.        *)
(***************************************************************************)
Inherited == INSTANCE FlowWall_proofs WITH
    released <- [i \in DOMAIN sent |-> EventOf(sent[i])],
    refused  <- {EventOf(m) : m \in refused}

LEMMA SameWall ==
  /\ Wall!Spec => Inherited!Spec
  /\ Inherited!NothingLeaks => Wall!NothingLeaks
  /\ Inherited!NothingRefusedInVain => Wall!NothingRefusedInVain
<1>1. Wall!Init => Inherited!Init
  BY DEF Wall!Init, Inherited!Init
<1>2. Wall!Next <=> Inherited!Next
  BY DEF Wall!Next, Inherited!Next, Wall!Release, Inherited!Release, Wall!Refuse,
         Inherited!Refuse, Wall!Forbidden, Inherited!Forbidden, Wall!CarriedIn,
         Inherited!CarriedIn
<1>3. Inherited!NothingLeaks => Wall!NothingLeaks
  BY DEF Wall!NothingLeaks, Inherited!NothingLeaks, Wall!BroughtBy, Inherited!BroughtBy
<1>4. Inherited!NothingRefusedInVain => Wall!NothingRefusedInVain
  BY DEF Wall!NothingRefusedInVain, Inherited!NothingRefusedInVain, Wall!Forbidden,
         Inherited!Forbidden, Wall!CarriedIn, Inherited!CarriedIn
<1>. QED
  BY <1>1, <1>2, <1>3, <1>4, PTL DEF Wall!Spec, Inherited!Spec

(***************************************************************************)
(* In enforce mode no call reached the server that a rule forbids after    *)
(* the calls sent before it in its scope; and no call was refused but for  *)
(* what the policy restricts or for a rule that forbids it after the calls *)
(* that were sent.                                                         *)
(***************************************************************************)
THEOREM WallKept == Spec => [](Wall!NothingLeaks /\ Wall!NothingRefusedInVain)
<1>1. Inherited!Spec => [](Inherited!NothingLeaks /\ Inherited!NothingRefusedInVain)
  BY Inherited!WallHolds
<1>2. Spec => Wall!Spec
  BY ImplementsFlowWallHolds DEF ImplementsFlowWall
<1>. QED
  BY <1>1, <1>2, SameWall, PTL

=============================================================================

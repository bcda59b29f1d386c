---------------------------- MODULE McpClient_proofs ----------------------------
(***************************************************************************)
(* McpClient for every server, every page order and pipes of any length:   *)
(* what a caller of internal/mcp may rely on.                              *)
(***************************************************************************)
EXTENDS McpClientProperties, FiniteSetTheorems, TLAPS

(***************************************************************************)
(* pickVersion picks a revision: a finite set of them has a greatest one,  *)
(* for the sets of those above its members, ordered by strict inclusion,   *)
(* have a minimal one.                                                     *)
(***************************************************************************)
LEMMA MaxIsMember ==
  ASSUME NEW O \in SUBSET Nat, IsFiniteSet(O), O # {}
  PROVE  Max(O) \in O
<1>. DEFINE R == StrictSubsetOrdering(Nat)
            Above(n) == {m \in O : m > n}
            T == {Above(n) : n \in O}
<1>1. T \subseteq FiniteSubsetsOf(Nat)
  <2>. SUFFICES ASSUME NEW n \in O PROVE Above(n) \in FiniteSubsetsOf(Nat)
    OBVIOUS
  <2>1. Above(n) \subseteq O /\ Above(n) \subseteq Nat
    OBVIOUS
  <2>2. IsFiniteSet(Above(n))
    BY <2>1, FS_Subset
  <2>. QED
    BY <2>1, <2>2 DEF FiniteSubsetsOf
<1>2. IsWellFoundedOn(R, FiniteSubsetsOf(Nat))
  BY FS_StrictSubsetOrderingWellFounded
<1>3. T # {}
  OBVIOUS
<1>4. PICK x \in T : \A y \in T : ~ (<<y, x>> \in R)
  <2>. HIDE DEF R, T
  <2>. QED
    BY <1>1, <1>2, <1>3, WFMin
<1>5. PICK n \in O : x = Above(n)
  OBVIOUS
<1>6. \A m \in O : n >= m
  <2>. SUFFICES ASSUME NEW m \in O, ~(n >= m) PROVE FALSE
    OBVIOUS
  <2>0. m \in Nat /\ n \in Nat /\ m > n /\ \A k \in O : k \in Nat
    OBVIOUS
  <2>1. Above(m) \subseteq Above(n) /\ m \in Above(n) /\ m \notin Above(m)
    <3>. HIDE DEF R, T
    <3>1. \A k \in O : k > m => k > n
      BY <2>0
    <3>2. m > n /\ ~(m > m)
      BY <2>0
    <3>. QED
      BY <3>1, <3>2
  <2>2. Above(m) \in SUBSET Nat /\ Above(n) \in SUBSET Nat /\ Above(m) # Above(n)
    BY <2>1
  <2>3. <<Above(m), Above(n)>> \in R
    BY <2>1, <2>2 DEF StrictSubsetOrdering
  <2>. QED
    BY <1>4, <1>5, <2>3
<1>. QED
  BY <1>6 DEF Max

LEMMA PickedIsVersion ==
  ASSUME NEW O \in Offers \cup {{}}
  PROVE  PickVersion(O) \in Nat
<1>1. O \in SUBSET Nat /\ IsFiniteSet(O)
  BY ClientAssumption, FS_EmptySet
<1>. QED
  BY <1>1, ClientAssumption, MaxIsMember DEF PickVersion

-----------------------------------------------------------------------------
(***************************************************************************)
(* Types.  The pipes and the channel; and the client, with the phases Dial *)
(* goes through: in each it has a request of its own in hand.              *)
(***************************************************************************)
LEMMA EmptyIsSeq == \A S : <<>> \in Seq(S)
OBVIOUS

LEMMA QueueFacts ==
  ASSUME NEW S, NEW q \in Seq(S)
  PROVE  /\ q # <<>> => /\ Head(q) \in S /\ Head(q) = q[1] /\ Tail(q) \in Seq(S)
                        /\ Len(Tail(q)) = Len(q) - 1
                        /\ \A i \in DOMAIN Tail(q) : i + 1 \in DOMAIN q /\ Tail(q)[i] = q[i + 1]
         /\ \A x \in S : /\ Append(q, x) \in Seq(S)
                         /\ Len(Append(q, x)) = Len(q) + 1
         /\ Len(q) \in Nat
OBVIOUS

PipesTypeOK ==
    /\ stdin \in Seq(Message) /\ Len(stdin) <= PipeCap
    /\ stdout \in Seq(FromServer) /\ Len(stdout) <= PipeCap
    /\ incoming \in Seq(FromServer) /\ Len(incoming) <= ChanCap
    /\ reader \in {"reading", "ended", "broken"} /\ alive \in BOOLEAN
    /\ unanswered \subseteq {r \in Message : r.kind = "request"} /\ answered \subseteq Answer
    /\ unsolicited \in 0 .. MaxUnsolicited
    /\ wire \in Seq(Message)

Param == Cursor \cup Payload \cup {NoParam}

Outcome == {"ok", "error", "no method", "none", "closed", "timed out"}

InCall == req.method \in Listing \cup {"call"}

ClientTypeOK ==
    /\ status \in {"dialling", "ready", "failed", "closed"}
    /\ step \in {"rest", "write", "wait", "refuse"}
    /\ req \in Message /\ req.kind # "refusal"
    /\ nextID \in Nat /\ era \in {"modern", "legacy"} /\ version \in Nat
    /\ gathered \in Seq(About)

ReturnsTypeOK ==
    /\ calls \in 0 .. MaxCalls
    /\ \A r \in returned : r.method \in Listing \cup {"call"} /\ r.outcome \in Outcome
                          /\ r.got \in Seq(About)

\* What Dial has in hand, one after the other; and a dialled client.
PhaseOK ==
    /\ step \in {"wait", "refuse"} => req.kind = "request"
    /\ status = "dialling" =>
         /\ step # "rest"
         /\ \/ req.method = "discover" /\ req.kind = "request" /\ era = "modern"
            \/ req.method = "initialize" /\ req.kind = "request" /\ era = "legacy"
                 /\ version = LegacyVersion
            \/ req = Initialized /\ step = "write" /\ era = "legacy"
    /\ status \in {"failed", "closed"} => step = "rest"
    /\ status = "ready" /\ step # "rest" => InCall /\ req.kind = "request"
    /\ req.method \in Listing => req.param \in Cursor

ClientOK == ClientTypeOK /\ ReturnsTypeOK /\ PhaseOK

TypeInv == PipesTypeOK /\ ClientOK

LEMMA TypeInvIsType == TypeInv => TypeOK
BY DEF TypeInv, PipesTypeOK, ClientOK, ClientTypeOK, ReturnsTypeOK, TypeOK, Outcome

LEMMA TypeInvInit == Init => TypeInv
<1>. SUFFICES ASSUME Init PROVE TypeInv
  OBVIOUS
<1>1. <<>> \in Seq(Message) /\ <<>> \in Seq(FromServer) /\ <<>> \in Seq(About) /\ Len(<<>>) = 0
  OBVIOUS
<1>2. PipesTypeOK
  BY <1>1, ClientAssumption DEF Init, PipesTypeOK
<1>3. req \in Message /\ req.kind = "request" /\ req.method = "discover"
  BY ClientAssumption DEF Init, Request, Message, Method
<1>4. ClientTypeOK /\ ReturnsTypeOK /\ PhaseOK
  BY <1>1, <1>3, ClientAssumption
     DEF Init, ClientTypeOK, ReturnsTypeOK, PhaseOK, InCall, Listing
<1>. QED
  BY <1>2, <1>4 DEF TypeInv, ClientOK

\* The steps that touch the pipes, the channel and what the child does.
Writes(m) == Len(stdin) < PipeCap /\ stdin' = Append(stdin, m) /\ wire' = Append(wire, m)

LEMMA StdinFrame ==
  ASSUME [Next]_vars
  PROVE  /\ UNCHANGED stdin \/ ServerReads \/ Writes(req) \/ Writes(Refusal)
         /\ UNCHANGED wire \/ WriteRequest \/ Refuse
<1>1. UNCHANGED stdin \/ ServerReads \/ WriteRequest \/ Refuse
  BY DEF Next, vars, clientVars, serverVars, readerVars, historyVars, RoundTrip,
       Handshake, Results, Reader, Child, Halted, WriteFails, Ignore, TakeRequest,
       FindClosed, TimesOut, Take, Answered, DiscoverAnswered, NothingOffered,
       InitializeAnswered, HandshakeRefused, PageArrives, ListingRefused, CallAnswered,
       List, CallRaw, Close, CancelDial, Begin, ReadMessage, ReadEnd, ReadGarbage,
       ReadFails, ServerAnswers, ServerSpeaks, ServerExits, Says
<1>2. WriteRequest => Writes(req)
  BY DEF WriteRequest, Writes
<1>3. Refuse => UNCHANGED stdin \/ Writes(Refusal)
  BY DEF Refuse, Writes
<1>4. UNCHANGED wire \/ WriteRequest \/ Refuse
  BY DEF Next, vars, clientVars, serverVars, readerVars, historyVars, RoundTrip,
       Handshake, Results, Reader, Child, Halted, WriteFails, Ignore, TakeRequest,
       FindClosed, TimesOut, Take, Answered, DiscoverAnswered, NothingOffered,
       InitializeAnswered, HandshakeRefused, PageArrives, ListingRefused, CallAnswered,
       List, CallRaw, Close, CancelDial, Begin, ReadMessage, ReadEnd, ReadGarbage,
       ReadFails, ServerReads, ServerAnswers, ServerSpeaks, ServerExits, Says
<1>. QED
  BY <1>1, <1>2, <1>3, <1>4

LEMMA StdoutFrame ==
  ASSUME [Next]_vars
  PROVE  /\ UNCHANGED stdout \/ ReadMessage \/ ServerAnswers \/ ServerSpeaks
         /\ UNCHANGED incoming \/ ReadMessage \/ \E m \in Arrived : Take(m)
         /\ UNCHANGED reader \/ ReadEnd \/ ReadGarbage
<1>1. UNCHANGED stdout \/ ReadMessage \/ ServerAnswers \/ ServerSpeaks
  BY DEF Next, vars, clientVars, serverVars, readerVars, historyVars, RoundTrip,
       Handshake, Results, Reader, Child, Halted, WriteRequest, WriteFails, Ignore,
       TakeRequest, Refuse, FindClosed, TimesOut, Take, Answered, DiscoverAnswered,
       NothingOffered, InitializeAnswered, HandshakeRefused, PageArrives,
       ListingRefused, CallAnswered, List, CallRaw, Close, CancelDial, Begin, ReadEnd,
       ReadGarbage, ReadFails, ServerReads, ServerExits, Says
<1>2. UNCHANGED incoming \/ ReadMessage \/ \E m \in Arrived : Take(m)
  BY DEF Next, vars, clientVars, serverVars, readerVars, historyVars, RoundTrip,
       Handshake, Results, Reader, Child, Halted, WriteRequest, WriteFails, Ignore,
       TakeRequest, Refuse, FindClosed, TimesOut, Answered, DiscoverAnswered,
       NothingOffered, InitializeAnswered, HandshakeRefused, PageArrives,
       ListingRefused, CallAnswered, List, CallRaw, Close, CancelDial, Begin, ReadEnd,
       ReadGarbage, ReadFails, ServerReads, ServerAnswers, ServerSpeaks, ServerExits,
       Says
<1>3. UNCHANGED reader \/ ReadEnd \/ ReadGarbage
  BY DEF Next, vars, clientVars, serverVars, readerVars, historyVars, RoundTrip,
       Handshake, Results, Reader, Child, Halted, WriteRequest, WriteFails, Ignore,
       TakeRequest, Refuse, FindClosed, TimesOut, Take, Answered, DiscoverAnswered,
       NothingOffered, InitializeAnswered, HandshakeRefused, PageArrives,
       ListingRefused, CallAnswered, List, CallRaw, Close, CancelDial, Begin,
       ReadMessage, ReadFails, ServerReads, ServerAnswers, ServerSpeaks, ServerExits,
       Says
<1>. QED
  BY <1>1, <1>2, <1>3

LEMMA ChildFrame ==
  ASSUME [Next]_vars
  PROVE  /\ UNCHANGED <<answered, unsolicited>> \/ ServerAnswers \/ ServerSpeaks
         /\ UNCHANGED unanswered \/ ServerAnswers \/ ServerReads
         /\ UNCHANGED alive \/ alive' = FALSE
<1>1. UNCHANGED <<answered, unsolicited>> \/ ServerAnswers \/ ServerSpeaks
  BY DEF Next, vars, clientVars, serverVars, readerVars, historyVars, RoundTrip,
       Handshake, Results, Reader, Child, Halted, WriteRequest, WriteFails, Ignore,
       TakeRequest, Refuse, FindClosed, TimesOut, Take, Answered, DiscoverAnswered,
       NothingOffered, InitializeAnswered, HandshakeRefused, PageArrives,
       ListingRefused, CallAnswered, List, CallRaw, Close, CancelDial, Begin,
       ReadMessage, ReadEnd, ReadGarbage, ReadFails, ServerReads, ServerExits, Says
<1>2. UNCHANGED unanswered \/ ServerAnswers \/ ServerReads
  BY DEF Next, vars, clientVars, serverVars, readerVars, historyVars, RoundTrip,
       Handshake, Results, Reader, Child, Halted, WriteRequest, WriteFails, Ignore,
       TakeRequest, Refuse, FindClosed, TimesOut, Take, Answered, DiscoverAnswered,
       NothingOffered, InitializeAnswered, HandshakeRefused, PageArrives,
       ListingRefused, CallAnswered, List, CallRaw, Close, CancelDial, Begin,
       ReadMessage, ReadEnd, ReadGarbage, ReadFails, ServerSpeaks, ServerExits, Says
<1>3. UNCHANGED alive \/ alive' = FALSE
  BY DEF Next, vars, clientVars, serverVars, readerVars, historyVars, RoundTrip,
       Handshake, Results, Reader, Child, Halted, WriteRequest, WriteFails, Ignore,
       TakeRequest, Refuse, FindClosed, TimesOut, Take, Answered, DiscoverAnswered,
       NothingOffered, InitializeAnswered, HandshakeRefused, PageArrives,
       ListingRefused, CallAnswered, List, CallRaw, Close, CancelDial, Begin,
       ReadMessage, ReadEnd, ReadGarbage, ReadFails, ServerReads, ServerAnswers,
       ServerSpeaks, ServerExits, Says, Fails, Returns, Call, Dialled, DialFails,
       LegacyInitialize
<1>. QED
  BY <1>1, <1>2, <1>3
-----------------------------------------------------------------------------
LEMMA SaidIsMessage ==
  /\ \A m \in FromServer : m.kind = "answer" => m \in Answer
  /\ \A k \in {"request", "notification", "garbage"} : [kind |-> k, id |-> 0] \in FromServer
BY DEF FromServer, Answer

LEMMA AnswerIsAnswer ==
  ASSUME PipesTypeOK, NEW r \in unanswered, NEW code \in Codes(r.method),
         NEW O \in Versions(r.method, code)
  PROVE  [kind |-> "answer", id |-> r.id, code |-> code, versions |-> O,
          about |-> <<r.method, r.param>>] \in Answer
<1>1. r.id \in Nat /\ r.method \in Method /\ r.param \in Param
  BY DEF PipesTypeOK, Message, Initialized, Refusal, Param
<1>2. code \in {"ok", "error", "no method", "unsupported"}
  BY DEF Codes
<1>3. O \in Offers \cup {{}}
  BY DEF Versions
<1>. QED
  BY <1>1, <1>2, <1>3 DEF Answer, About, Param

LEMMA RefusalIsMessage == Refusal \in Message /\ Initialized \in Message
BY DEF Message

LEMMA StdinStep ==
  ASSUME TypeInv, [Next]_vars
  PROVE  /\ stdin' \in Seq(Message) /\ Len(stdin') <= PipeCap
         /\ wire' \in Seq(Message)
<1>1. stdin \in Seq(Message) /\ wire \in Seq(Message) /\ req \in Message /\ PipeCap \in Nat
      /\ Len(stdin) <= PipeCap
  BY ClientAssumption DEF TypeInv, PipesTypeOK, ClientOK, ClientTypeOK
<1>2. UNCHANGED stdin => stdin' \in Seq(Message) /\ Len(stdin') <= PipeCap
  BY <1>1
<1>3. ASSUME ServerReads PROVE stdin' \in Seq(Message) /\ Len(stdin') <= PipeCap
  <2>1. stdin # <<>> /\ stdin' = Tail(stdin)
    BY <1>3 DEF ServerReads
  <2>2. Tail(stdin) \in Seq(Message) /\ Len(Tail(stdin)) = Len(stdin) - 1 /\ Len(stdin) \in Nat
    BY <1>1, <2>1, QueueFacts
  <2>. QED
    BY <1>1, <2>1, <2>2
<1>4. ASSUME NEW m \in Message, Writes(m)
      PROVE  stdin' \in Seq(Message) /\ Len(stdin') <= PipeCap
  <2>1. Append(stdin, m) \in Seq(Message) /\ Len(Append(stdin, m)) = Len(stdin) + 1
        /\ Len(stdin) \in Nat
    BY <1>1, QueueFacts
  <2>. QED
    BY <1>1, <1>4, <2>1 DEF Writes
<1>5. stdin' \in Seq(Message) /\ Len(stdin') <= PipeCap
  BY <1>1, <1>2, <1>3, <1>4, RefusalIsMessage, StdinFrame
<1>6. wire' = wire \/ wire' = Append(wire, req) \/ wire' = Append(wire, Refusal)
  BY StdinFrame DEF WriteRequest, Refuse
<1>7. wire' \in Seq(Message)
  BY <1>1, <1>6, RefusalIsMessage
<1>. QED
  BY <1>5, <1>7

LEMMA ArrivedFacts ==
  ASSUME PipesTypeOK, NEW m \in Arrived
  PROVE  /\ incoming # <<>> /\ m = Head(incoming) /\ m = incoming[1] /\ 1 \in DOMAIN incoming
         /\ m \in FromServer
         /\ m.kind = "answer" => m \in Answer
<1>1. incoming \in Seq(FromServer)
  BY DEF PipesTypeOK
<1>2. 1 \in DOMAIN incoming /\ m = incoming[1]
  BY DEF Arrived
<1>3. incoming # <<>> /\ Head(incoming) = incoming[1] /\ incoming[1] \in FromServer
  BY <1>1, <1>2
<1>. QED
  BY <1>2, <1>3, SaidIsMessage

LEMMA StdoutStep ==
  ASSUME TypeInv, [Next]_vars
  PROVE  /\ stdout' \in Seq(FromServer) /\ Len(stdout') <= PipeCap
         /\ incoming' \in Seq(FromServer) /\ Len(incoming') <= ChanCap
         /\ unanswered' \subseteq {r \in Message : r.kind = "request"} /\ answered' \subseteq Answer
         /\ unsolicited' \in 0 .. MaxUnsolicited
<1>. USE DEF TypeInv
<1>1. /\ stdout \in Seq(FromServer) /\ incoming \in Seq(FromServer)
      /\ Len(stdout) <= PipeCap /\ Len(incoming) <= ChanCap
      /\ PipeCap \in Nat /\ ChanCap \in Nat
  BY ClientAssumption DEF PipesTypeOK
<1>2. ASSUME ReadMessage PROVE stdout' \in Seq(FromServer) /\ Len(stdout') <= PipeCap
                               /\ incoming' \in Seq(FromServer) /\ Len(incoming') <= ChanCap
  <2>1. stdout # <<>> /\ Len(incoming) < ChanCap
        /\ stdout' = Tail(stdout) /\ incoming' = Append(incoming, Head(stdout))
    BY <1>2 DEF ReadMessage
  <2>2. Head(stdout) \in FromServer /\ Tail(stdout) \in Seq(FromServer)
        /\ Len(Tail(stdout)) = Len(stdout) - 1 /\ Len(stdout) \in Nat
    BY <1>1, <2>1, QueueFacts
  <2>3. Append(incoming, Head(stdout)) \in Seq(FromServer)
        /\ Len(Append(incoming, Head(stdout))) = Len(incoming) + 1 /\ Len(incoming) \in Nat
    BY <1>1, <2>2, QueueFacts
  <2>. QED
    BY <1>1, <2>1, <2>2, <2>3
<1>3. ASSUME NEW m \in Arrived, Take(m)
      PROVE  incoming' \in Seq(FromServer) /\ Len(incoming') <= ChanCap
  <2>1. incoming # <<>> /\ incoming' = Tail(incoming)
    BY <1>3, ArrivedFacts DEF Take
  <2>2. Tail(incoming) \in Seq(FromServer) /\ Len(Tail(incoming)) = Len(incoming) - 1
        /\ Len(incoming) \in Nat
    BY <1>1, <2>1, QueueFacts
  <2>. QED
    BY <1>1, <2>1, <2>2
<1>4. ASSUME NEW m, m \in FromServer, Says(m)
      PROVE  stdout' \in Seq(FromServer) /\ Len(stdout') <= PipeCap
  <2>1. Append(stdout, m) \in Seq(FromServer) /\ Len(Append(stdout, m)) = Len(stdout) + 1
        /\ Len(stdout) \in Nat
    BY <1>1, <1>4, QueueFacts
  <2>. QED
    BY <1>1, <1>4, <2>1 DEF Says
<1>5. ASSUME ServerSpeaks
      PROVE  /\ \E m \in FromServer : Says(m)
             /\ UNCHANGED <<unanswered, answered>> /\ unsolicited' \in 0 .. MaxUnsolicited
  <2>1. PICK k \in {"request", "notification", "garbage"} :
           Says([kind |-> k, id |-> 0]) /\ unsolicited < MaxUnsolicited
           /\ unsolicited' = unsolicited + 1 /\ UNCHANGED <<unanswered, answered>>
    BY <1>5 DEF ServerSpeaks
  <2>. QED
    BY <2>1, SaidIsMessage, ClientAssumption DEF PipesTypeOK
<1>6. ASSUME ServerAnswers
      PROVE  /\ \E m \in Answer : Says(m) /\ answered' = answered \cup {m}
             /\ unanswered' \subseteq unanswered /\ UNCHANGED unsolicited
  <2>1. PICK r \in unanswered : \E code \in Codes(r.method) :
          \E O \in Versions(r.method, code) :
          LET m == [kind |-> "answer", id |-> r.id, code |-> code, versions |-> O,
                    about |-> <<r.method, r.param>>]
          IN  /\ Says(m)
              /\ unanswered' = unanswered \ {r}
              /\ answered' = answered \cup {m}
              /\ UNCHANGED unsolicited
    BY <1>6 DEF ServerAnswers
  <2>. QED
    BY <2>1, AnswerIsAnswer
<1>7. stdout' \in Seq(FromServer) /\ Len(stdout') <= PipeCap
  <2>1. UNCHANGED stdout \/ ReadMessage \/ ServerAnswers \/ ServerSpeaks
    BY StdoutFrame
  <2>. QED
    BY <1>1, <1>2, <1>4, <1>5, <1>6, <2>1 DEF FromServer
<1>8. incoming' \in Seq(FromServer) /\ Len(incoming') <= ChanCap
  BY <1>1, <1>2, <1>3, StdoutFrame
<1>9. answered' \subseteq Answer /\ unsolicited' \in 0 .. MaxUnsolicited
  BY <1>5, <1>6, ChildFrame DEF PipesTypeOK
<1>10. unanswered' \subseteq {r \in Message : r.kind = "request"}
  <2>1. ASSUME ServerReads PROVE unanswered' \subseteq {r \in Message : r.kind = "request"}
    <3>1. stdin # <<>> /\ unanswered' = unanswered \cup {r \in {Head(stdin)} : r.kind = "request"}
      BY <2>1 DEF ServerReads
    <3>2. Head(stdin) \in Message
      BY <3>1, QueueFacts DEF PipesTypeOK
    <3>. QED
      BY <3>1, <3>2 DEF PipesTypeOK
  <2>. QED
    BY <1>6, <2>1, ChildFrame DEF PipesTypeOK
<1>. QED
  BY <1>7, <1>8, <1>9, <1>10

LEMMA PipesStep == TypeInv /\ [Next]_vars => PipesTypeOK'
<1>. SUFFICES ASSUME TypeInv, [Next]_vars PROVE PipesTypeOK'
  OBVIOUS
<1>1. reader' \in {"reading", "ended", "broken"}
  <2>1. ReadEnd \/ ReadGarbage => reader' \in {"ended", "broken"}
    BY DEF ReadEnd, ReadGarbage, ReadFails
  <2>. QED
    BY <2>1, StdoutFrame DEF TypeInv, PipesTypeOK
<1>2. alive' \in BOOLEAN
  BY ChildFrame DEF TypeInv, PipesTypeOK
<1>. QED
  BY <1>1, <1>2, StdinStep, StdoutStep DEF PipesTypeOK

-----------------------------------------------------------------------------
(***************************************************************************)
(* The client: which steps move it, and the ways a call ends.              *)
(***************************************************************************)
Quiet == UNCHANGED <<clientVars, calls, returned>>

Failure == WriteFails \/ FindClosed \/ TimesOut \/ HandshakeRefused

LEMMA ClientFrame ==
  ASSUME [Next]_vars
  PROVE  \/ Quiet
         \/ WriteRequest \/ TakeRequest \/ Refuse \/ Failure
         \/ DiscoverAnswered \/ NothingOffered \/ InitializeAnswered
         \/ PageArrives \/ ListingRefused \/ CallAnswered
         \/ List \/ CallRaw \/ Close
<1>1. Ignore \/ CancelDial \/ UNCHANGED vars => Quiet
  BY DEF Quiet, Ignore, CancelDial, Take, vars, clientVars, historyVars
<1>2. Reader => Quiet
  BY DEF Quiet, Reader, ReadMessage, ReadEnd, ReadGarbage, ReadFails, clientVars, historyVars
<1>3. Child => Quiet
  BY DEF Quiet, Child, ServerReads, ServerAnswers, ServerSpeaks, ServerExits, Says,
         clientVars, historyVars
<1>. QED
  BY <1>1, <1>2, <1>3 DEF Failure, Next, RoundTrip, Handshake, Results, Halted

LEMMA FailureFacts ==
  ASSUME Failure
  PROVE  \E o \in {"closed", "timed out", "error"} :
           /\ Fails(o) /\ UNCHANGED calls /\ step \in {"write", "wait"}
           /\ o = "error" => req.method \in {"discover", "initialize"}
           /\ o = "closed" => WriteFails \/ FindClosed
<1>1. WriteFails => Fails("closed") /\ UNCHANGED calls /\ step = "write"
  BY DEF WriteFails
<1>2. FindClosed => Fails("closed") /\ UNCHANGED calls /\ step = "wait"
  BY DEF FindClosed
<1>3. TimesOut => Fails("timed out") /\ UNCHANGED calls /\ step = "wait"
  BY DEF TimesOut
<1>4. HandshakeRefused => /\ Fails("error") /\ UNCHANGED calls /\ step = "wait"
                          /\ req.method \in {"discover", "initialize"}
  BY DEF HandshakeRefused, Answered, Take
<1>. QED
  BY <1>1, <1>2, <1>3, <1>4 DEF Failure

LEMMA OneNotification ==
  ASSUME NEW m \in Message, m.kind = "notification"
  PROVE  m = Initialized
BY DEF Message, Refusal

LEMMA RequestKinds ==
  /\ Initialized.kind = "notification" /\ Initialized.method = "initialized"
  /\ Refusal.kind = "refusal" /\ Refusal.method = "none"
  /\ \A m \in Message : /\ m.kind = "request" => m.method \in Method /\ m.id \in Nat
                        /\ m.kind # "refusal" => m.kind \in {"request", "notification"}
                        /\ m.kind # "request" => m \in {Initialized, Refusal}
BY DEF Message, Initialized, Refusal

LEMMA CallFacts ==
  ASSUME ClientTypeOK, NEW method \in Method, NEW param \in Param,
         NEW given \in {CallerMeta, NoMeta}, Call(method, param, given),
         era' \in {"modern", "legacy"}, version' \in Nat
  PROVE  /\ nextID' = nextID + 1 /\ nextID' \in Nat /\ step' = "write"
         /\ req' \in Message /\ req'.kind = "request" /\ req'.id = nextID'
         /\ req'.method = method /\ req'.param = param
         /\ era' = "modern" => req'.meta = version'
         /\ era' = "legacy" => req'.meta = given
<1>1. /\ req' = Request(nextID + 1, method, param, Meta(era', version', given))
      /\ nextID' = nextID + 1 /\ nextID + 1 \in Nat /\ step' = "write"
  BY DEF Call, ClientTypeOK
<1>2. Meta(era', version', given) \in Nat \cup {CallerMeta, NoMeta}
  BY DEF Meta
<1>3. req' \in [kind : {"request"}, id : Nat, method : Method,
                param : Cursor \cup Payload \cup {NoParam}, meta : Nat \cup {CallerMeta, NoMeta}]
  BY <1>1, <1>2 DEF Request, Param
<1>4. /\ req'.kind = "request" /\ req'.id = nextID + 1 /\ req'.method = method
      /\ req'.param = param /\ req'.meta = Meta(era', version', given)
  BY <1>1 DEF Request
<1>. QED
  BY <1>1, <1>3, <1>4 DEF Message, Meta

LEMMA HandshakeStarts ==
  ASSUME ClientOK, LegacyInitialize, UNCHANGED calls, status = "dialling"
  PROVE  /\ ClientOK' /\ UNCHANGED returned /\ req'.method = "initialize" /\ req'.id = nextID'
         /\ nextID' = nextID + 1 /\ req'.kind = "request"
         /\ step' = "write" /\ status' = "dialling" /\ era' = "legacy"
<1>1. era' = "legacy" /\ version' = LegacyVersion /\ LegacyVersion \in Nat
      /\ Call("initialize", NoParam, NoMeta)
      /\ UNCHANGED <<status, gathered, alive, returned>>
  BY ClientAssumption DEF LegacyInitialize
<1>2. /\ nextID' = nextID + 1 /\ nextID' \in Nat /\ step' = "write" /\ req' \in Message
      /\ req'.kind = "request" /\ req'.id = nextID' /\ req'.method = "initialize"
  BY <1>1, CallFacts DEF ClientOK, Method, Param
<1>3. ClientTypeOK' /\ ReturnsTypeOK'
  BY <1>1, <1>2 DEF ClientOK, ClientTypeOK, ReturnsTypeOK
<1>4. PhaseOK'
  BY <1>1, <1>2 DEF PhaseOK, Listing
<1>. QED
  BY <1>1, <1>2, <1>3, <1>4 DEF ClientOK

LEMMA DialEnds ==
  ASSUME ClientOK, UNCHANGED calls, step \in {"write", "wait"}, status = "dialling",
         \/ Dialled /\ version' \in Nat /\ UNCHANGED era
         \/ DialFails
  PROVE  ClientOK'
<1>1. /\ status' \in {"ready", "failed"} /\ step' = "rest" /\ version' \in Nat
      /\ UNCHANGED <<req, nextID, gathered, returned, era>>
  BY DEF Dialled, DialFails, ClientOK, ClientTypeOK
<1>2. ClientTypeOK' /\ ReturnsTypeOK'
  BY <1>1 DEF ClientOK, ClientTypeOK, ReturnsTypeOK
<1>3. PhaseOK'
  BY <1>1 DEF ClientOK, PhaseOK
<1>. QED
  BY <1>2, <1>3 DEF ClientOK

LEMMA CallEnds ==
  ASSUME ClientOK, UNCHANGED calls, InCall, step # "rest", NEW o \in Outcome, NEW got \in Seq(About),
         Returns(o, got)
  PROVE  ClientOK'
<1>1. /\ returned' = returned \cup
           {[id |-> req.id, method |-> req.method, param |-> req.param,
             outcome |-> o, got |-> got]}
      /\ step' = "rest" /\ gathered' = <<>> /\ <<>> \in Seq(About)
      /\ UNCHANGED <<status, req, nextID, era, version>>
  BY DEF Returns
<1>2. status # "dialling"
  <2>1. Initialized.method = "initialized"
    BY RequestKinds
  <2>. QED
    BY <2>1 DEF ClientOK, PhaseOK, InCall, Listing
<1>3. ClientTypeOK'
  BY <1>1 DEF ClientOK, ClientTypeOK
<1>4. ReturnsTypeOK'
  BY <1>1 DEF ClientOK, ReturnsTypeOK, InCall
<1>5. PhaseOK'
  BY <1>1, <1>2 DEF ClientOK, PhaseOK
<1>. QED
  BY <1>3, <1>4, <1>5 DEF ClientOK

\* What is in hand tells whether the client dials.
LEMMA InHand ==
  ASSUME ClientOK, step # "rest"
  PROVE  /\ InCall => status = "ready" /\ req.kind = "request"
         /\ ~InCall => status = "dialling"
         /\ req.method = "initialize" => era = "legacy" /\ version = LegacyVersion
         /\ req.method = "discover" => era = "modern"
         /\ req.method = "initialized" => req = Initialized /\ era = "legacy"
         /\ status = "dialling" =>
               req.method \in {"discover", "initialize", "initialized"}
BY RequestKinds DEF ClientOK, ClientTypeOK, PhaseOK, InCall, Listing

LEMMA ClientStep == TypeInv /\ [Next]_vars => ClientOK'
<1>. SUFFICES ASSUME TypeInv, [Next]_vars PROVE ClientOK'
  OBVIOUS
<1>0. ClientOK /\ PipesTypeOK
  BY DEF TypeInv
<1>1. CASE Quiet
  BY <1>0, <1>1
     DEF Quiet, clientVars, ClientOK, ClientTypeOK, ReturnsTypeOK, PhaseOK, InCall
<1>2. CASE WriteRequest
  <2>1. ASSUME req.kind = "request", step' = "wait",
               UNCHANGED <<status, req, nextID, era, version, gathered, alive, returned>>
        PROVE  ClientOK'
    <3>1. step = "write" /\ UNCHANGED calls
      BY <1>2 DEF WriteRequest
    <3>. QED
      BY <1>0, <2>1, <3>1, RequestKinds DEF ClientOK, ClientTypeOK, ReturnsTypeOK, PhaseOK, InCall
  <2>2. ASSUME req.kind = "notification", Dialled, UNCHANGED <<era, version>>
        PROVE  ClientOK'
    <3>1. step = "write" /\ UNCHANGED calls
      BY <1>2 DEF WriteRequest
    <3>2. req = Initialized
      <4>1. req \in Message /\ req.kind = "notification"
        BY <1>0, <2>2 DEF ClientOK, ClientTypeOK
      <4>. QED
        BY <4>1, OneNotification
    <3>5. ~InCall
      BY <3>2, RequestKinds DEF InCall, Listing
    <3>3. status = "dialling"
      BY <1>0, <3>1, <3>5, InHand
    <3>4. version' \in Nat
      BY <1>0, <2>2 DEF ClientOK, ClientTypeOK
    <3>. QED
      BY <1>0, <2>2, <3>1, <3>3, <3>4, DialEnds
  <2>. QED
    BY <1>2, <2>1, <2>2 DEF WriteRequest
<1>3. CASE TakeRequest \/ Refuse
  <2>1. /\ step' \in {"wait", "refuse"} /\ step \in {"wait", "refuse"}
        /\ UNCHANGED <<status, req, nextID, era, version, gathered, returned, calls>>
    BY <1>3 DEF TakeRequest, Refuse, Take
  <2>. QED
    BY <1>0, <2>1 DEF ClientOK, ClientTypeOK, ReturnsTypeOK, PhaseOK, InCall
<1>4. CASE Failure
  <2>1. PICK o \in {"closed", "timed out", "error"} :
          Fails(o) /\ UNCHANGED calls /\ step \in {"write", "wait"}
    BY <1>4, FailureFacts
  <2>2. o \in Outcome /\ <<>> \in Seq(About)
    BY EmptyIsSeq DEF Outcome
  <2>3. CASE req.method = "discover" /\ LegacyInitialize
    BY <1>0, <2>1, <2>3, HandshakeStarts, InHand DEF InCall, Listing
  <2>4. CASE req.method \in {"initialize", "initialized"} /\ DialFails
    BY <1>0, <2>1, <2>4, DialEnds, InHand DEF InCall, Listing
  <2>5. CASE InCall /\ Returns(o, <<>>)
    BY <1>0, <2>1, <2>2, <2>5, CallEnds
  <2>. QED
    BY <2>1, <2>3, <2>4, <2>5 DEF Fails, InCall
<1>5. ASSUME NEW m \in Arrived, Own(m)
      PROVE  m \in Answer /\ m.versions \in Offers \cup {{}} /\ m.about \in About
  BY <1>0, <1>5, ArrivedFacts DEF Own, Answer
<1>6. CASE DiscoverAnswered
  <2>1. PICK m \in Arrived : /\ Answered({"discover"}, {"ok", "unsupported"}, m)
                             /\ version' = PickVersion(m.versions) /\ Dialled /\ UNCHANGED era
    BY <1>6 DEF DiscoverAnswered
  <2>2. Own(m) /\ step = "wait" /\ req.method = "discover" /\ UNCHANGED calls
    BY <2>1 DEF Answered, Take
  <2>3. version' \in Nat
    BY <1>5, <2>1, <2>2, PickedIsVersion
  <2>4. status = "dialling"
    BY <1>0, <2>2, InHand DEF InCall, Listing
  <2>. QED
    BY <1>0, <2>1, <2>2, <2>3, <2>4, DialEnds
<1>7. CASE NothingOffered
  <2>1. /\ DialFails /\ step = "wait" /\ req.method = "discover" /\ UNCHANGED calls
    BY <1>7 DEF NothingOffered, Answered, Take
  <2>2. status = "dialling"
    BY <1>0, <2>1, InHand DEF InCall, Listing
  <2>. QED
    BY <1>0, <2>1, <2>2, DialEnds
<1>8. CASE InitializeAnswered
  <2>1. PICK m \in Arrived :
          /\ Answered({"initialize"}, {"ok"}, m)
          /\ \/ m.versions = {} /\ UNCHANGED version
             \/ version' \in m.versions
          /\ req' = Initialized /\ step' = "write"
          /\ UNCHANGED <<status, nextID, era, gathered, alive, returned>>
    BY <1>8 DEF InitializeAnswered
  <2>2. Own(m) /\ step = "wait" /\ req.method = "initialize" /\ UNCHANGED calls
    BY <2>1 DEF Answered, Take
  <2>3. m.versions \subseteq Nat
    BY <1>5, <2>2, ClientAssumption
  <2>4. version' \in Nat
    BY <1>0, <2>1, <2>3 DEF ClientOK, ClientTypeOK
  <2>5. status = "dialling" /\ era = "legacy"
    BY <1>0, <2>2, InHand DEF InCall, Listing
  <2>6. ClientTypeOK' /\ ReturnsTypeOK'
    BY <1>0, <2>1, <2>2, <2>4, RefusalIsMessage, RequestKinds DEF ClientOK, ClientTypeOK, ReturnsTypeOK
  <2>7. PhaseOK'
    BY <2>1, <2>5, RequestKinds DEF PhaseOK, Listing
  <2>. QED
    BY <2>6, <2>7 DEF ClientOK
<1>9. CASE PageArrives
  <2>1. PICK m \in Arrived :
          /\ Answered(Listing, {"ok"}, m)
          /\ \/ Returns("ok", Append(gathered, m.about))
             \/ /\ gathered' = Append(gathered, m.about)
                /\ UNCHANGED <<era, version>>
                /\ Call(req.method, NextCursor[req.param], NoMeta)
                /\ UNCHANGED <<status, alive, returned>>
    BY <1>9 DEF PageArrives
  <2>2. Own(m) /\ step = "wait" /\ req.method \in Listing /\ InCall /\ UNCHANGED calls
    BY <2>1 DEF Answered, Take, InCall
  <2>3. Append(gathered, m.about) \in Seq(About)
    BY <1>0, <1>5, <2>2 DEF ClientOK, ClientTypeOK
  <2>4. CASE Returns("ok", Append(gathered, m.about))
    BY <1>0, <2>2, <2>3, <2>4, CallEnds DEF Outcome
  <2>5. ASSUME gathered' = Append(gathered, m.about), UNCHANGED <<era, version>>,
               Call(req.method, NextCursor[req.param], NoMeta),
               UNCHANGED <<status, alive, returned>>
        PROVE  ClientOK'
    <3>1. NextCursor[req.param] \in Cursor /\ req.method \in Method
      BY <1>0, <2>2, ClientAssumption DEF ClientOK, PhaseOK, Listing, Method
    <3>2. ClientTypeOK /\ era' \in {"modern", "legacy"} /\ version' \in Nat
      BY <1>0, <2>5 DEF ClientOK, ClientTypeOK
    <3>3. /\ nextID' \in Nat /\ step' = "write" /\ req' \in Message /\ req'.kind = "request"
          /\ req'.method = req.method /\ req'.param = NextCursor[req.param]
      BY <2>5, <3>1, <3>2, CallFacts DEF Param
    <3>4. ClientTypeOK' /\ ReturnsTypeOK'
      BY <1>0, <2>2, <2>3, <2>5, <3>2, <3>3 DEF ClientOK, ClientTypeOK, ReturnsTypeOK
    <3>5. PhaseOK'
      BY <1>0, <2>2, <2>5, <3>1, <3>3, InHand DEF PhaseOK, InCall
    <3>. QED
      BY <3>4, <3>5 DEF ClientOK
  <2>. QED
    BY <2>1, <2>4, <2>5
<1>10. CASE ListingRefused
  <2>1. PICK o \in {"none", "error"} : Returns(o, <<>>) /\ step = "wait" /\ InCall /\ UNCHANGED calls
    BY <1>10 DEF ListingRefused, Answered, Take, InCall
  <2>2. o \in Outcome /\ <<>> \in Seq(About)
    BY EmptyIsSeq DEF Outcome
  <2>. QED
    BY <1>0, <2>1, <2>2, CallEnds
<1>11. CASE CallAnswered
  <2>1. PICK m \in Arrived :
          Answered({"call"}, {"ok", "error", "no method"}, m) /\ Returns(m.code, <<m.about>>)
    BY <1>11 DEF CallAnswered
  <2>2. /\ Own(m) /\ step = "wait" /\ InCall /\ UNCHANGED calls
        /\ m.code \in Outcome
    BY <2>1 DEF Answered, Take, InCall, Outcome
  <2>3. <<m.about>> \in Seq(About)
    BY <1>5, <2>2
  <2>. QED
    BY <1>0, <2>1, <2>2, <2>3, CallEnds
<1>12. CASE List \/ CallRaw
  <2>1. PICK method \in Listing \cup {"call"}, param \in Param, given \in {CallerMeta, NoMeta} :
          Begin(method, param, given) /\ (method \in Listing => param \in Cursor)
    BY <1>12, ClientAssumption DEF List, CallRaw, Param, Listing
  <2>2. /\ status = "ready" /\ calls < MaxCalls /\ calls' = calls + 1
        /\ UNCHANGED <<era, version, status, gathered, returned>>
        /\ Call(method, param, given)
    BY <2>1 DEF Begin
  <2>3. ClientTypeOK /\ era' \in {"modern", "legacy"} /\ version' \in Nat /\ method \in Method
    BY <1>0, <2>2 DEF ClientOK, ClientTypeOK, Listing, Method
  <2>4. /\ nextID' \in Nat /\ step' = "write" /\ req' \in Message /\ req'.kind = "request"
        /\ req'.method = method /\ req'.param = param
    BY <2>2, <2>3, CallFacts
  <2>5. ClientTypeOK' /\ ReturnsTypeOK'
    BY <1>0, <2>2, <2>3, <2>4, ClientAssumption DEF ClientOK, ClientTypeOK, ReturnsTypeOK
  <2>6. PhaseOK'
    BY <2>1, <2>2, <2>4 DEF PhaseOK, InCall
  <2>. QED
    BY <2>5, <2>6 DEF ClientOK
<1>13. CASE Close
  <2>1. /\ status' = "closed" /\ step = "rest"
        /\ UNCHANGED <<step, req, nextID, era, version, gathered, calls, returned>>
    BY <1>13 DEF Close, historyVars
  <2>. QED
    BY <1>0, <2>1 DEF ClientOK, ClientTypeOK, ReturnsTypeOK, PhaseOK
<1>. QED
  BY <1>1, <1>2, <1>3, <1>4, <1>6, <1>7, <1>8, <1>9, <1>10, <1>11, <1>12, <1>13, ClientFrame

LEMMA TypeInvStep == TypeInv /\ [Next]_vars => TypeInv'
BY PipesStep, ClientStep DEF TypeInv

\* Every variable keeps its type, queues stay within their capacity, and a
\* request is in hand exactly where roundTrip and Dial have one.
THEOREM TypeCorrect == Spec => []TypeOK
<1>1. Spec => []TypeInv
  BY TypeInvInit, TypeInvStep, PTL DEF Spec
<1>. QED
  BY <1>1, TypeInvIsType, PTL

-----------------------------------------------------------------------------
(***************************************************************************)
(* The moves of the client, each with all that it does to the request in   *)
(* hand, to the wire and to the pages gathered.                            *)
(***************************************************************************)
Stays ==
    /\ UNCHANGED <<step, req, nextID, era, version, gathered, wire>>
    /\ UNCHANGED status \/ (status = "ready" /\ status' = "closed")

Written ==
    /\ step = "write" /\ step' = "wait" /\ req.kind = "request"
    /\ wire' = Append(wire, req)
    /\ UNCHANGED <<status, req, nextID, era, version, gathered>>

Notified ==
    /\ step = "write" /\ step' = "rest" /\ req = Initialized
    /\ status = "dialling" /\ status' = "ready"
    /\ wire' = Append(wire, req)
    /\ UNCHANGED <<req, nextID, era, version, gathered>>

Turns ==
    /\ step \in {"wait", "refuse"} /\ step' \in {"wait", "refuse"}
    /\ wire' = wire \/ wire' = Append(wire, Refusal)
    /\ UNCHANGED <<status, req, nextID, era, version, gathered>>

Rests ==
    /\ step # "rest" /\ step' = "rest"
    /\ UNCHANGED <<req, nextID, era, wire>>
    /\ \/ /\ status = "dialling" /\ ~InCall
          /\ UNCHANGED gathered
          /\ (status' = "failed" /\ UNCHANGED version) \/ DiscoverAnswered
       \/ InCall /\ gathered' = <<>> /\ UNCHANGED <<status, version>>

Asks ==
    /\ nextID' = nextID + 1 /\ req'.id = nextID' /\ req'.kind = "request"
    /\ step' = "write" /\ UNCHANGED <<status, wire>>

StartsLegacy ==
    /\ Asks
    /\ status = "dialling" /\ req.method = "discover" /\ req'.method = "initialize"
    /\ era' = "legacy" /\ UNCHANGED gathered

Describes ==
    /\ Asks
    /\ status = "ready" /\ UNCHANGED <<era, version>>
    /\ era = "modern" => req'.meta = version
    /\ era = "legacy" => req'.meta \in {CallerMeta, NoMeta}
    /\ req'.method \in Listing \cup {"call"}

Begins ==
    /\ Describes
    /\ step = "rest" /\ UNCHANGED gathered
    /\ req'.method \in Listing => req'.param = First

Continues ==
    /\ Describes
    /\ step = "wait" /\ req.method \in Listing /\ ~LastPage(req.param)
    /\ req'.method = req.method /\ req'.param = NextCursor[req.param]
    /\ \E m \in Arrived : Own(m) /\ gathered' = Append(gathered, m.about)

Accepts ==
    /\ InitializeAnswered
    /\ step = "wait" /\ step' = "write" /\ status = "dialling"
    /\ req.method = "initialize" /\ req' = Initialized
    /\ UNCHANGED <<status, nextID, era, gathered, wire>>

LEMMA CallEndsRests ==
  ASSUME TypeInv, InCall, step # "rest", UNCHANGED wire, NEW o, NEW got, Returns(o, got)
  PROVE  Rests
BY DEF Returns, Rests

LEMMA FailureMoves ==
  ASSUME TypeInv, [Next]_vars, Failure
  PROVE  Rests \/ StartsLegacy
<1>0. ClientOK
  BY DEF TypeInv
<1>1. PICK o \in {"closed", "timed out", "error"} :
        Fails(o) /\ UNCHANGED calls /\ step \in {"write", "wait"}
  BY FailureFacts
<1>2. UNCHANGED wire
  BY DEF Failure, WriteFails, FindClosed, TimesOut, HandshakeRefused, Answered, Take
<1>3. CASE req.method = "discover" /\ LegacyInitialize
  <2>1. status = "dialling"
    BY <1>0, <1>1, <1>3, InHand DEF InCall, Listing
  <2>2. /\ req'.method = "initialize" /\ req'.id = nextID' /\ nextID' = nextID + 1
        /\ req'.kind = "request" /\ step' = "write" /\ status' = "dialling" /\ era' = "legacy"
    BY <1>0, <1>1, <1>3, <2>1, HandshakeStarts
  <2>3. UNCHANGED gathered
    BY <1>3 DEF LegacyInitialize
  <2>. QED
    BY <1>2, <1>3, <2>1, <2>2, <2>3 DEF StartsLegacy, Asks
<1>4. CASE req.method \in {"initialize", "initialized"} /\ DialFails
  <2>1. status = "dialling" /\ ~InCall
    BY <1>0, <1>1, <1>4, InHand DEF InCall, Listing
  <2>. QED
    BY <1>1, <1>2, <1>4, <2>1 DEF Rests, DialFails
<1>5. CASE InCall /\ Returns(o, <<>>)
  BY <1>1, <1>2, <1>5, CallEndsRests
<1>. QED
  BY <1>1, <1>3, <1>4, <1>5 DEF Fails, InCall

LEMMA BeginMoves ==
  ASSUME TypeInv, List \/ CallRaw
  PROVE  Begins
<1>1. PICK method \in Listing \cup {"call"}, param \in Param, given \in {CallerMeta, NoMeta} :
        Begin(method, param, given) /\ (method \in Listing => param = First)
  BY ClientAssumption DEF List, CallRaw, Param, Listing
<1>2. /\ status = "ready" /\ step = "rest"
      /\ UNCHANGED <<era, version, status, gathered, wire>>
      /\ Call(method, param, given)
  BY <1>1 DEF Begin
<1>3. ClientTypeOK /\ era' \in {"modern", "legacy"} /\ version' \in Nat /\ method \in Method
  BY <1>2 DEF TypeInv, ClientOK, ClientTypeOK, Listing, Method
<1>4. /\ nextID' = nextID + 1 /\ step' = "write" /\ req'.id = nextID' /\ req'.kind = "request"
      /\ req'.method = method /\ req'.param = param
      /\ era' = "modern" => req'.meta = version'
      /\ era' = "legacy" => req'.meta = given
  BY <1>2, <1>3, CallFacts
<1>. QED
  BY <1>1, <1>2, <1>4 DEF Begins, Describes, Asks

LEMMA PageMoves ==
  ASSUME TypeInv, PageArrives
  PROVE  Rests \/ Continues
<1>0. ClientOK
  BY DEF TypeInv
<1>1. PICK m \in Arrived :
        /\ Answered(Listing, {"ok"}, m)
        /\ \/ /\ LastPage(req.param)
              /\ Returns("ok", Append(gathered, m.about))
           \/ /\ ~LastPage(req.param)
              /\ gathered' = Append(gathered, m.about)
              /\ UNCHANGED <<era, version>>
              /\ Call(req.method, NextCursor[req.param], NoMeta)
              /\ UNCHANGED <<status, alive, returned>>
  BY DEF PageArrives
<1>2. Own(m) /\ step = "wait" /\ req.method \in Listing /\ InCall /\ UNCHANGED wire
  BY <1>1 DEF Answered, Take, InCall
<1>3. CASE Returns("ok", Append(gathered, m.about))
  BY <1>2, <1>3, CallEndsRests
<1>4. ASSUME ~LastPage(req.param), gathered' = Append(gathered, m.about), UNCHANGED <<era, version>>,
             Call(req.method, NextCursor[req.param], NoMeta), UNCHANGED status
      PROVE  Continues
  <2>1. NextCursor[req.param] \in Param /\ req.method \in Method
    BY <1>0, <1>2, ClientAssumption DEF ClientOK, PhaseOK, Listing, Method, Param
  <2>2. ClientTypeOK /\ era' \in {"modern", "legacy"} /\ version' \in Nat
    BY <1>0, <1>4 DEF ClientOK, ClientTypeOK
  <2>3. /\ nextID' = nextID + 1 /\ step' = "write" /\ req'.id = nextID' /\ req'.kind = "request"
        /\ req'.method = req.method /\ req'.param = NextCursor[req.param]
        /\ era' = "modern" => req'.meta = version'
        /\ era' = "legacy" => req'.meta = NoMeta
    BY <1>4, <2>1, <2>2, CallFacts
  <2>4. status = "ready"
    BY <1>0, <1>2, InHand
  <2>5. Describes
    BY <1>2, <1>4, <2>3, <2>4 DEF Describes, Asks
  <2>. QED
    BY <1>2, <1>4, <2>3, <2>5 DEF Continues
<1>. QED
  BY <1>1, <1>3, <1>4

LEMMA Moves ==
  ASSUME TypeInv, [Next]_vars
  PROVE  \/ Stays \/ Written \/ Notified \/ Turns \/ Rests
         \/ StartsLegacy \/ Begins \/ Continues \/ Accepts
<1>0. ClientOK
  BY DEF TypeInv
<1>1. ASSUME Quiet PROVE Stays
  <2>1. ~WriteRequest /\ ~Refuse
    BY <1>1, RequestKinds DEF Quiet, clientVars, WriteRequest, Dialled, Refuse
  <2>. QED
    BY <1>1, <2>1, StdinFrame DEF Quiet, clientVars, Stays
<1>2. ASSUME WriteRequest PROVE Written \/ Notified
  <2>1. CASE req.kind = "request"
    BY <1>2, <2>1 DEF WriteRequest, Written
  <2>2. ASSUME req.kind = "notification", Dialled, UNCHANGED <<era, version>> PROVE Notified
    <3>1. req \in Message /\ step = "write" /\ wire' = Append(wire, req)
      BY <1>0, <1>2 DEF ClientOK, ClientTypeOK, WriteRequest
    <3>2. req = Initialized
      BY <2>2, <3>1, OneNotification
    <3>3. ~InCall
      BY <3>2, RequestKinds DEF InCall, Listing
    <3>4. status = "dialling"
      BY <1>0, <3>1, <3>3, InHand
    <3>. QED
      BY <2>2, <3>1, <3>2, <3>4 DEF Dialled, Notified
  <2>. QED
    BY <1>2, <2>1, <2>2 DEF WriteRequest
<1>3. TakeRequest \/ Refuse => Turns
  BY DEF TakeRequest, Refuse, Take, Turns
<1>4. ASSUME DiscoverAnswered \/ NothingOffered PROVE Rests
  <2>1. /\ step = "wait" /\ req.method = "discover" /\ step' = "rest"
        /\ UNCHANGED <<req, nextID, era, wire, gathered>>
        /\ (status' = "failed" /\ UNCHANGED version) \/ DiscoverAnswered
    BY <1>4 DEF DiscoverAnswered, NothingOffered, Answered, Take, Dialled, DialFails
  <2>2. status = "dialling" /\ ~InCall
    BY <1>0, <2>1, InHand DEF InCall, Listing
  <2>. QED
    BY <2>1, <2>2 DEF Rests
<1>5. ASSUME InitializeAnswered PROVE Accepts
  <2>1. /\ step = "wait" /\ step' = "write" /\ req.method = "initialize" /\ req' = Initialized
        /\ UNCHANGED <<status, nextID, era, gathered, wire>>
    BY <1>5 DEF InitializeAnswered, Answered, Take
  <2>2. status = "dialling"
    BY <1>0, <2>1, InHand DEF InCall, Listing
  <2>. QED
    BY <1>5, <2>1, <2>2 DEF Accepts
<1>6. ASSUME ListingRefused PROVE Rests
  <2>1. InCall /\ step = "wait" /\ UNCHANGED wire /\ \E o : Returns(o, <<>>)
    BY <1>6 DEF ListingRefused, Answered, Take, InCall
  <2>. QED
    BY <2>1, CallEndsRests
<1>7. ASSUME CallAnswered PROVE Rests
  <2>1. InCall /\ step = "wait" /\ UNCHANGED wire /\ \E o, got : Returns(o, got)
    BY <1>7 DEF CallAnswered, Answered, Take, InCall
  <2>. QED
    BY <2>1, CallEndsRests
<1>8. Close => Stays
  BY DEF Close, Stays, historyVars
<1>. QED
  BY <1>1, <1>2, <1>3, <1>4, <1>5, <1>6, <1>7, <1>8, FailureMoves, BeginMoves, PageMoves, ClientFrame

-----------------------------------------------------------------------------
(***************************************************************************)
(* Whose answer an answer is.  An id is written at most once before the    *)
(* next is drawn, and what the server answered, it had read.               *)
(***************************************************************************)
LEMMA AppendFacts ==
  ASSUME NEW S, NEW q \in Seq(S), NEW x \in S
  PROVE  /\ \A i \in DOMAIN q : i \in DOMAIN Append(q, x) /\ Append(q, x)[i] = q[i]
         /\ \A i \in DOMAIN Append(q, x) : (i \in DOMAIN q /\ Append(q, x)[i] = q[i])
                                             \/ (i \notin DOMAIN q /\ Append(q, x)[i] = x)
         /\ Len(q) + 1 \in DOMAIN Append(q, x) /\ Append(q, x)[Len(q) + 1] = x
OBVIOUS

\* The request in hand has the last id; none with it is on the wire before it
\* is written, and it is the only one afterwards.
IdsInv ==
    /\ req.kind = "request" => req.id = nextID
    /\ \A i \in DOMAIN wire : wire[i].kind = "request" =>
         /\ wire[i].id <= nextID
         /\ step = "write" /\ req.kind = "request" => wire[i].id # req.id
         /\ step \in {"wait", "refuse"} /\ wire[i].id = req.id => wire[i] = req

LEMMA WireGrows ==
  ASSUME TypeInv, [Next]_vars
  PROVE  /\ \A i \in DOMAIN wire : i \in DOMAIN wire' /\ wire'[i] = wire[i]
         /\ \A i \in DOMAIN wire' :
              \/ i \in DOMAIN wire /\ wire'[i] = wire[i]
              \/ Written /\ wire'[i] = req
              \/ Notified /\ wire'[i] = Initialized
              \/ Turns /\ wire'[i] = Refusal
<1>1. wire \in Seq(Message) /\ req \in Message /\ Refusal \in Message
  BY RefusalIsMessage DEF TypeInv, PipesTypeOK, ClientOK, ClientTypeOK
<1>2. UNCHANGED wire \/ ((Written \/ Notified) /\ wire' = Append(wire, req))
                     \/ (Turns /\ wire' = Append(wire, Refusal))
  BY Moves DEF Stays, Written, Notified, Turns, Rests, StartsLegacy, Begins, Continues,
               Describes, Asks, Accepts
<1>3. Notified => req = Initialized
  BY DEF Notified
<1>4. CASE UNCHANGED wire
  BY <1>4
<1>5. CASE (Written \/ Notified) /\ wire' = Append(wire, req)
  BY <1>1, <1>3, <1>5, AppendFacts
<1>6. CASE Turns /\ wire' = Append(wire, Refusal)
  BY <1>1, <1>6, AppendFacts
<1>. QED
  BY <1>2, <1>4, <1>5, <1>6

LEMMA IdsInvStep == TypeInv /\ IdsInv /\ [Next]_vars => IdsInv'
<1>. SUFFICES ASSUME TypeInv, IdsInv, [Next]_vars PROVE IdsInv'
  OBVIOUS
<1>0. /\ nextID \in Nat /\ req \in Message
      /\ \A i \in DOMAIN wire : wire[i] \in Message
      /\ \A m \in Message : m.kind = "request" => m.id \in Nat
  <2>1. nextID \in Nat /\ req \in Message /\ wire \in Seq(Message)
    BY DEF TypeInv, PipesTypeOK, ClientOK, ClientTypeOK
  <2>2. \A i \in DOMAIN wire : wire[i] \in Message
    BY <2>1
  <2>3. \A m \in Message : m.kind = "request" => m.id \in Nat
    BY DEF Message, Initialized, Refusal
  <2>. QED
    BY <2>1, <2>2, <2>3
<1>1. req'.kind = "request" => req'.id = nextID'
  BY Moves, RequestKinds DEF IdsInv, Stays, Written, Notified, Turns, Rests, StartsLegacy, Begins,
     Continues, Describes, Asks, Accepts
<1>2. ASSUME NEW i \in DOMAIN wire', wire'[i].kind = "request"
      PROVE  /\ wire'[i].id <= nextID'
             /\ step' = "write" /\ req'.kind = "request" => wire'[i].id # req'.id
             /\ step' \in {"wait", "refuse"} /\ wire'[i].id = req'.id => wire'[i] = req'
  <2>1. CASE Stays
    <3>1. i \in DOMAIN wire /\ wire'[i] = wire[i]
      BY <2>1 DEF Stays
    <3>. QED
      BY <1>2, <2>1, <3>1 DEF Stays, IdsInv
  <2>2. CASE Written
    <3>1. (i \in DOMAIN wire /\ wire'[i] = wire[i]) \/ wire'[i] = req
      BY <1>2, WireGrows, RequestKinds
    <3>2. req' = req /\ nextID' = nextID /\ step = "write" /\ step' = "wait"
          /\ req.kind = "request" /\ req.id = nextID
      BY <2>2 DEF Written, IdsInv
    <3>3. CASE i \in DOMAIN wire /\ wire'[i] = wire[i]
      BY <1>2, <3>2, <3>3 DEF IdsInv
    <3>4. CASE wire'[i] = req
      BY <1>0, <3>2, <3>4
    <3>. QED
      BY <3>1, <3>3, <3>4
  <2>3. CASE Notified
    <3>1. (i \in DOMAIN wire /\ wire'[i] = wire[i])
      BY <1>2, <2>3, WireGrows, RequestKinds DEF Written, Turns, Notified
    <3>. QED
      BY <1>2, <2>3, <3>1 DEF Notified, IdsInv
  <2>4. CASE Turns
    <3>1. (i \in DOMAIN wire /\ wire'[i] = wire[i])
      BY <1>2, <2>4, WireGrows, RequestKinds DEF Written, Turns, Notified
    <3>. QED
      BY <1>2, <2>4, <3>1 DEF Turns, IdsInv
  <2>5. CASE Rests
    <3>1. wire' = wire /\ nextID' = nextID /\ step' = "rest"
      BY <2>5 DEF Rests
    <3>. QED
      BY <1>2, <3>1 DEF IdsInv
  <2>6. CASE StartsLegacy \/ Begins \/ Continues
    <3>1. Asks
      BY <2>6 DEF StartsLegacy, Begins, Continues, Describes
    <3>2. wire[i].id <= nextID /\ wire' = wire /\ wire[i].id \in Nat
      BY <1>0, <1>2, <3>1 DEF Asks, IdsInv
    <3>. QED
      BY <1>0, <3>1, <3>2 DEF Asks
  <2>7. CASE Accepts
    <3>1. wire' = wire /\ nextID' = nextID /\ step' = "write" /\ req'.kind = "notification"
      BY <2>7, RequestKinds DEF Accepts
    <3>. QED
      BY <1>2, <3>1 DEF IdsInv
  <2>. QED
    BY <2>1, <2>2, <2>3, <2>4, <2>5, <2>6, <2>7, Moves
<1>. QED
  BY <1>1, <1>2 DEF IdsInv

\* m answers what was written at position i.
Answers(m, i) ==
    /\ wire[i].kind = "request" /\ wire[i].id = m.id
    /\ m.about = <<wire[i].method, wire[i].param>>

\* What the server holds or answered was written to it, and what it wrote and
\* the client holds, it answered.
KnownInv ==
    /\ \A j \in DOMAIN stdin : \E i \in DOMAIN wire : wire[i] = stdin[j]
    /\ \A r \in unanswered : \E i \in DOMAIN wire : wire[i] = r
    /\ \A a \in answered : \E i \in DOMAIN wire : Answers(a, i)
    /\ \A j \in DOMAIN stdout : stdout[j].kind = "answer" => stdout[j] \in answered
    /\ \A j \in DOMAIN incoming : incoming[j].kind = "answer" => incoming[j] \in answered

LEMMA AnsweringFacts ==
  ASSUME ServerAnswers
  PROVE  \E r \in unanswered : \E m :
           /\ m.kind = "answer" /\ m.id = r.id /\ m.about = <<r.method, r.param>>
           /\ stdout' = Append(stdout, m)
           /\ unanswered' = unanswered \ {r} /\ answered' = answered \cup {m}
           /\ (PipesTypeOK => m \in Answer)
           /\ alive /\ UNCHANGED <<wire, stdin, incoming>>
<1>0. PICK r \in unanswered : \E code \in Codes(r.method) : \E O \in Versions(r.method, code) :
          LET m == [kind |-> "answer", id |-> r.id, code |-> code, versions |-> O,
                    about |-> <<r.method, r.param>>]
          IN  /\ Says(m)
              /\ unanswered' = unanswered \ {r}
              /\ answered' = answered \cup {m}
              /\ UNCHANGED unsolicited
  BY DEF ServerAnswers
<1>1. PICK code \in Codes(r.method) : \E O \in Versions(r.method, code) :
          LET m == [kind |-> "answer", id |-> r.id, code |-> code, versions |-> O,
                    about |-> <<r.method, r.param>>]
          IN  Says(m) /\ unanswered' = unanswered \ {r} /\ answered' = answered \cup {m}
  BY <1>0
<1>2. PICK O \in Versions(r.method, code) :
          LET m == [kind |-> "answer", id |-> r.id, code |-> code, versions |-> O,
                    about |-> <<r.method, r.param>>]
          IN  Says(m) /\ unanswered' = unanswered \ {r} /\ answered' = answered \cup {m}
  BY <1>1
<1>. DEFINE m == [kind |-> "answer", id |-> r.id, code |-> code, versions |-> O,
                  about |-> <<r.method, r.param>>]
<1>3. m.kind = "answer" /\ m.id = r.id /\ m.about = <<r.method, r.param>>
  OBVIOUS
<1>4. PipesTypeOK => m \in Answer
  BY AnswerIsAnswer
<1>5. Says(m) /\ unanswered' = unanswered \ {r} /\ answered' = answered \cup {m}
  BY <1>2
<1>6. stdout' = Append(stdout, m) /\ alive /\ UNCHANGED <<wire, stdin, incoming>>
  BY <1>5 DEF Says, historyVars
<1>. HIDE DEF m
<1>. QED
  BY <1>3, <1>4, <1>5, <1>6

LEMMA SpeakingFacts ==
  ASSUME ServerSpeaks
  PROVE  \E m \in FromServer : /\ m.kind # "answer" /\ stdout' = Append(stdout, m)
                              /\ UNCHANGED <<unanswered, answered, incoming>>
<1>1. PICK k \in {"request", "notification", "garbage"} :
        Says([kind |-> k, id |-> 0]) /\ UNCHANGED <<unanswered, answered>>
  BY DEF ServerSpeaks
<1>2. [kind |-> k, id |-> 0] \in FromServer /\ [kind |-> k, id |-> 0].kind # "answer"
  BY SaidIsMessage
<1>. QED
  BY <1>1, <1>2 DEF Says

\* What is in stdout or in incoming was there, or has just been answered.
LEMMA HeldFrame ==
  ASSUME TypeInv, [Next]_vars
  PROVE  /\ \A j \in DOMAIN stdout' : stdout'[j].kind = "answer" =>
              \/ \E k \in DOMAIN stdout : stdout[k] = stdout'[j]
              \/ stdout'[j] \in answered'
         /\ \A j \in DOMAIN incoming' : incoming'[j].kind = "answer" =>
              \/ \E k \in DOMAIN incoming : incoming[k] = incoming'[j]
              \/ \E k \in DOMAIN stdout : stdout[k] = incoming'[j]
         /\ answered \subseteq answered'
<1>1. stdout \in Seq(FromServer) /\ incoming \in Seq(FromServer)
  BY DEF TypeInv, PipesTypeOK
<1>2. ASSUME ReadMessage
      PROVE  /\ stdout # <<>> /\ stdout' = Tail(stdout) /\ incoming' = Append(incoming, stdout[1])
             /\ 1 \in DOMAIN stdout /\ stdout[1] \in FromServer
  <2>1. stdout # <<>> /\ stdout' = Tail(stdout) /\ incoming' = Append(incoming, Head(stdout))
    BY <1>2 DEF ReadMessage
  <2>. QED
    BY <1>1, <2>1
<1>3. ASSUME NEW j \in DOMAIN stdout', stdout'[j].kind = "answer"
      PROVE  (\E k \in DOMAIN stdout : stdout[k] = stdout'[j]) \/ stdout'[j] \in answered'
  <2>1. CASE UNCHANGED stdout
    BY <2>1
  <2>2. CASE ReadMessage
    BY <1>1, <1>2, <2>2, QueueFacts
  <2>3. CASE ServerAnswers
    <3>1. PICK m \in Answer : stdout' = Append(stdout, m) /\ m \in answered'
      BY <2>3, AnsweringFacts DEF TypeInv
    <3>2. m \in FromServer
      BY DEF FromServer
    <3>. QED
      BY <1>1, <3>1, <3>2, AppendFacts
  <2>4. CASE ServerSpeaks
    <3>1. PICK m \in FromServer : m.kind # "answer" /\ stdout' = Append(stdout, m)
      BY <2>4, SpeakingFacts
    <3>. QED
      BY <1>1, <1>3, <3>1, AppendFacts
  <2>. QED
    BY <2>1, <2>2, <2>3, <2>4, StdoutFrame
<1>4. ASSUME NEW j \in DOMAIN incoming'
      PROVE  \/ \E k \in DOMAIN incoming : incoming[k] = incoming'[j]
             \/ \E k \in DOMAIN stdout : stdout[k] = incoming'[j]
  <2>1. CASE UNCHANGED incoming
    BY <2>1
  <2>2. CASE ReadMessage
    BY <1>1, <1>2, <2>2, AppendFacts
  <2>3. ASSUME NEW m \in Arrived, Take(m)
        PROVE  \E k \in DOMAIN incoming : incoming[k] = incoming'[j]
    <3>1. incoming # <<>> /\ incoming' = Tail(incoming)
      BY <2>3, ArrivedFacts DEF Take, TypeInv
    <3>. QED
      BY <1>1, <3>1, QueueFacts
  <2>. QED
    BY <2>1, <2>2, <2>3, StdoutFrame
<1>5. answered \subseteq answered'
  BY ChildFrame, AnsweringFacts, SpeakingFacts
<1>. QED
  BY <1>3, <1>4, <1>5

LEMMA KnownInvStep == TypeInv /\ KnownInv /\ [Next]_vars => KnownInv'
<1>. SUFFICES ASSUME TypeInv, KnownInv, [Next]_vars PROVE KnownInv'
  OBVIOUS
<1>0. stdin \in Seq(Message) /\ req \in Message /\ Refusal \in Message /\ wire \in Seq(Message)
  BY RefusalIsMessage DEF TypeInv, PipesTypeOK, ClientOK, ClientTypeOK
<1>1. \A i \in DOMAIN wire : i \in DOMAIN wire' /\ wire'[i] = wire[i]
  BY WireGrows
<1>2. ASSUME NEW j \in DOMAIN stdin' PROVE \E i \in DOMAIN wire' : wire'[i] = stdin'[j]
  <2>1. CASE UNCHANGED stdin
    BY <1>1, <2>1 DEF KnownInv
  <2>2. CASE ServerReads
    <3>1. stdin # <<>> /\ stdin' = Tail(stdin)
      BY <2>2 DEF ServerReads
    <3>2. \E k \in DOMAIN stdin : stdin'[j] = stdin[k]
      BY <1>0, <3>1, QueueFacts
    <3>. QED
      BY <1>1, <3>2 DEF KnownInv
  <2>3. ASSUME NEW m \in Message, Writes(m) PROVE \E i \in DOMAIN wire' : wire'[i] = stdin'[j]
    <3>1. stdin' = Append(stdin, m) /\ wire' = Append(wire, m)
      BY <2>3 DEF Writes
    <3>2. (j \in DOMAIN stdin /\ stdin'[j] = stdin[j]) \/ stdin'[j] = m
      BY <1>0, <3>1, AppendFacts
    <3>3. Len(wire) + 1 \in DOMAIN wire' /\ wire'[Len(wire) + 1] = m
      BY <1>0, <3>1, AppendFacts
    <3>. QED
      BY <1>1, <3>2, <3>3 DEF KnownInv
  <2>. QED
    BY <1>0, <2>1, <2>2, <2>3, StdinFrame
<1>3. ASSUME NEW r \in unanswered' PROVE \E i \in DOMAIN wire' : wire'[i] = r
  <2>1. CASE r \in unanswered
    BY <1>1, <2>1 DEF KnownInv
  <2>2. CASE r \notin unanswered
    <3>1. ServerReads
      BY <2>2, ChildFrame, AnsweringFacts
    <3>2. stdin # <<>> /\ r = Head(stdin)
      BY <2>2, <3>1 DEF ServerReads
    <3>3. 1 \in DOMAIN stdin /\ r = stdin[1]
      BY <1>0, <3>2
    <3>. QED
      BY <1>1, <3>3 DEF KnownInv
  <2>. QED
    BY <2>1, <2>2
<1>4. ASSUME NEW a \in answered' PROVE \E i \in DOMAIN wire' : /\ wire'[i].kind = "request" /\ wire'[i].id = a.id
                                    /\ a.about = <<wire'[i].method, wire'[i].param>>
  <2>1. CASE a \in answered
    BY <1>1, <2>1 DEF KnownInv, Answers
  <2>2. CASE a \notin answered
    <3>1. ServerAnswers
      BY <2>2, ChildFrame, SpeakingFacts
    <3>2. PICK r \in unanswered : a.id = r.id /\ a.about = <<r.method, r.param>>
      BY <2>2, <3>1, AnsweringFacts
    <3>3. r.kind = "request"
      BY DEF TypeInv, PipesTypeOK
    <3>. QED
      BY <1>1, <3>2, <3>3 DEF KnownInv
  <2>. QED
    BY <2>1, <2>2
<1>5. ASSUME NEW j \in DOMAIN stdout', stdout'[j].kind = "answer" PROVE stdout'[j] \in answered'
  BY <1>5, HeldFrame DEF KnownInv
<1>6. ASSUME NEW j \in DOMAIN incoming', incoming'[j].kind = "answer" PROVE incoming'[j] \in answered'
  BY <1>6, HeldFrame DEF KnownInv
<1>. QED
  BY <1>2, <1>3, <1>4, <1>5, <1>6 DEF KnownInv, Answers

\* The answer roundTrip takes for its own is one to the request in hand.
LEMMA OwnIsMine ==
  ASSUME TypeInv, IdsInv, KnownInv, NEW m \in Arrived, Own(m), step = "wait"
  PROVE  /\ m \in answered /\ m \in Answer /\ m.about = <<req.method, req.param>>
         /\ \E i \in DOMAIN wire : wire[i] = req
<1>1. m \in answered /\ m \in Answer /\ m.id = req.id
  BY ArrivedFacts DEF KnownInv, Own, TypeInv
<1>2. PICK i \in DOMAIN wire : Answers(m, i)
  BY <1>1 DEF KnownInv
<1>3. wire[i] = req
  BY <1>1, <1>2 DEF IdsInv, Answers
<1>. QED
  BY <1>1, <1>2, <1>3 DEF Answers

\* The client's ids, what the server knows, and the types.
ProtocolInv == TypeInv /\ IdsInv /\ KnownInv

LEMMA ProtocolInvInit == Init => ProtocolInv
<1>. SUFFICES ASSUME Init PROVE ProtocolInv
  OBVIOUS
<1>1. TypeInv
  BY TypeInvInit
<1>2. IdsInv /\ KnownInv
  BY DEF Init, Request, IdsInv, KnownInv
<1>. QED
  BY <1>1, <1>2 DEF ProtocolInv

LEMMA ProtocolInvStep == ProtocolInv /\ [Next]_vars => ProtocolInv'
BY TypeInvStep, IdsInvStep, KnownInvStep DEF ProtocolInv

LEMMA ProtocolHolds == Spec => []ProtocolInv
BY ProtocolInvInit, ProtocolInvStep, PTL DEF Spec

-----------------------------------------------------------------------------
(***************************************************************************)
(* What the calls returned.                                                *)
(***************************************************************************)
NewReturn(o, got) ==
    [id |-> req.id, method |-> req.method, param |-> req.param, outcome |-> o, got |-> got]

LEMMA ReturnsFrame ==
  ASSUME ProtocolInv, [Next]_vars
  PROVE  \/ UNCHANGED returned
         \/ /\ InCall /\ step # "rest"
            /\ \E o \in {"closed", "timed out"} :
                 /\ returned' = returned \cup {NewReturn(o, <<>>)}
                 /\ o = "closed" => WriteFails \/ FindClosed
         \/ /\ req.method \in Listing /\ step # "rest" /\ LastPage(req.param)
            /\ returned' = returned \cup
                 {NewReturn("ok", Append(gathered, <<req.method, req.param>>))}
         \/ /\ req.method \in Listing
            /\ \E o \in {"none", "error"} : returned' = returned \cup {NewReturn(o, <<>>)}
         \/ /\ req.method = "call"
            /\ \E o \in {"ok", "error", "no method"} :
                 returned' = returned \cup {NewReturn(o, <<<<req.method, req.param>>>>)}
<1>1. CASE Failure
  <2>1. PICK o \in {"closed", "timed out", "error"} :
          /\ Fails(o) /\ step \in {"write", "wait"}
          /\ o = "error" => req.method \in {"discover", "initialize"}
          /\ o = "closed" => WriteFails \/ FindClosed
    BY <1>1, FailureFacts
  <2>2. CASE InCall /\ Returns(o, <<>>)
    <3>1. returned' = returned \cup {NewReturn(o, <<>>)} /\ o # "error"
      BY <2>1, <2>2 DEF Returns, NewReturn, InCall, Listing
    <3>. QED
      BY <2>1, <2>2, <3>1
  <2>. QED
    BY <2>1, <2>2 DEF Fails, InCall, LegacyInitialize, DialFails
<1>2. CASE PageArrives
  <2>1. PICK m \in Arrived :
          /\ Answered(Listing, {"ok"}, m)
          /\ \/ LastPage(req.param) /\ Returns("ok", Append(gathered, m.about))
             \/ UNCHANGED returned
    BY <1>2 DEF PageArrives
  <2>2. Own(m) /\ step = "wait" /\ req.method \in Listing
    BY <2>1 DEF Answered, Take
  <2>3. m.about = <<req.method, req.param>>
    BY <2>2, OwnIsMine DEF ProtocolInv
  <2>. QED
    BY <2>1, <2>2, <2>3 DEF Returns, NewReturn
<1>3. CASE ListingRefused
  BY <1>3 DEF ListingRefused, Answered, Returns, NewReturn
<1>4. CASE CallAnswered
  <2>1. PICK m \in Arrived :
          Answered({"call"}, {"ok", "error", "no method"}, m) /\ Returns(m.code, <<m.about>>)
    BY <1>4 DEF CallAnswered
  <2>2. /\ Own(m) /\ step = "wait" /\ req.method = "call"
        /\ m.code \in {"ok", "error", "no method"}
    BY <2>1 DEF Answered, Take
  <2>3. m.about = <<req.method, req.param>>
    BY <2>2, OwnIsMine DEF ProtocolInv
  <2>. QED
    BY <2>1, <2>2, <2>3 DEF Returns, NewReturn
<1>5. CASE Quiet \/ WriteRequest \/ TakeRequest \/ Refuse \/ DiscoverAnswered \/ NothingOffered
           \/ InitializeAnswered \/ List \/ CallRaw \/ Close
  BY <1>5 DEF Quiet, WriteRequest, TakeRequest, Refuse, DiscoverAnswered, NothingOffered,
     InitializeAnswered, List, CallRaw, Close, Dialled, DialFails, Begin, historyVars
<1>. QED
  BY <1>1, <1>2, <1>3, <1>4, <1>5, ClientFrame

\* The same, of the record a step adds.
Added(r) ==
    /\ r.id = req.id /\ r.method = req.method /\ r.param = req.param
    /\ \/ /\ r.outcome \in {"closed", "timed out"} /\ InCall /\ step # "rest"
          /\ r.outcome = "closed" => WriteFails \/ FindClosed
       \/ /\ r.outcome = "ok" /\ req.method \in Listing /\ step # "rest" /\ LastPage(req.param)
          /\ r.got = Append(gathered, <<req.method, req.param>>)
       \/ r.outcome \in {"none", "error"} /\ req.method \in Listing
       \/ /\ r.outcome \in {"ok", "error", "no method"} /\ req.method = "call"
          /\ r.got = <<<<req.method, req.param>>>>

LEMMA NewReturned ==
  ASSUME ProtocolInv, [Next]_vars, NEW r \in returned', r \notin returned
  PROVE  Added(r)
<1>1. \A o, got : /\ NewReturn(o, got).id = req.id /\ NewReturn(o, got).method = req.method
                  /\ NewReturn(o, got).param = req.param
                  /\ NewReturn(o, got).outcome = o /\ NewReturn(o, got).got = got
  BY DEF NewReturn
<1>2. ASSUME InCall, step # "rest", NEW o \in {"closed", "timed out"},
             returned' = returned \cup {NewReturn(o, <<>>)}, o = "closed" => WriteFails \/ FindClosed
      PROVE  Added(r)
  <2>1. r = NewReturn(o, <<>>)
    BY <1>2
  <2>. QED
    BY <1>1, <1>2, <2>1 DEF Added
<1>3. ASSUME req.method \in Listing, step # "rest", LastPage(req.param),
             returned' = returned \cup {NewReturn("ok", Append(gathered, <<req.method, req.param>>))}
      PROVE  Added(r)
  <2>1. r = NewReturn("ok", Append(gathered, <<req.method, req.param>>))
    BY <1>3
  <2>. QED
    <3>1. /\ r.id = req.id /\ r.method = req.method /\ r.param = req.param /\ r.outcome = "ok"
          /\ r.got = Append(gathered, <<req.method, req.param>>)
      BY <1>1, <2>1
    <3>. QED
      BY <1>3, <3>1, Zenon DEF Added
<1>4. ASSUME req.method \in Listing, NEW o \in {"none", "error"},
             returned' = returned \cup {NewReturn(o, <<>>)}
      PROVE  Added(r)
  <2>1. r = NewReturn(o, <<>>)
    BY <1>4
  <2>. QED
    BY <1>1, <1>4, <2>1 DEF Added
<1>5. ASSUME req.method = "call", NEW o \in {"ok", "error", "no method"},
             returned' = returned \cup {NewReturn(o, <<<<req.method, req.param>>>>)}
      PROVE  Added(r)
  <2>1. r = NewReturn(o, <<<<req.method, req.param>>>>)
    BY <1>5
  <2>2. r.id = req.id /\ r.method = req.method /\ r.param = req.param /\ r.outcome = o
        /\ r.got = <<<<req.method, req.param>>>>
    BY <1>1, <2>1
  <2>3. r.outcome \in {"ok", "error", "no method"}
    BY <2>2
  <2>. QED
    BY <1>5, <2>2, <2>3, Zenon DEF Added
<1>6. ~UNCHANGED returned
  OBVIOUS
<1>. QED
  BY <1>2, <1>3, <1>4, <1>5, <1>6, ReturnsFrame

LEMMA OwnAnswerStep == ProtocolInv /\ OwnAnswer /\ [Next]_vars => OwnAnswer'
<1>. SUFFICES ASSUME ProtocolInv, OwnAnswer, [Next]_vars,
                     NEW r \in returned', r.method = "call", r.outcome \in {"ok", "error", "no method"}
              PROVE  r.got = <<<<"call", r.param>>>>
  BY DEF OwnAnswer
<1>1. CASE r \in returned
  BY <1>1 DEF OwnAnswer
<1>2. CASE r \notin returned
  <2>1. req.method = "call" /\ r.got = <<<<req.method, req.param>>>>
    BY <1>2, NewReturned DEF Added, Listing
  <2>. QED
    BY <1>2, <2>1, NewReturned DEF Added
<1>. QED
  BY <1>1, <1>2

\* The result of a forwarded call was computed for that call and its params,
\* never for one that had timed out: client.go's matching of ids, over every
\* order of answers and any number of calls.
THEOREM OwnAnswerHolds == Spec => []OwnAnswer
<1>1. Init => OwnAnswer
  BY DEF Init, OwnAnswer
<1>2. Spec => []OwnAnswer
  BY <1>1, OwnAnswerStep, ProtocolHolds, PTL DEF Spec
<1>. QED
  BY <1>2

-----------------------------------------------------------------------------
(***************************************************************************)
(* Listings.  The pages gathered so far are those of the listing in hand,  *)
(* from the first one up to the one it asks for.                           *)
(***************************************************************************)
GatherInv ==
    /\ step = "rest" \/ req.method \notin Listing => gathered = <<>>
    /\ step # "rest" /\ req.method \in Listing =>
         IF gathered = <<>> THEN req.param = First
         ELSE /\ gathered[1] = <<req.method, First>>
              /\ \A i \in 1 .. Len(gathered) - 1 :
                   gathered[i + 1] = <<req.method, NextCursor[gathered[i][2]]>>
              /\ req.param = NextCursor[gathered[Len(gathered)][2]]

\* The pages with the one in hand added.
LEMMA PagesChain ==
  ASSUME TypeInv, GatherInv, step # "rest", req.method \in Listing,
         NEW g, g = Append(gathered, <<req.method, req.param>>)
  PROVE  /\ g # <<>> /\ Len(g) \in Nat /\ Len(g) > 0 /\ g[1] = <<req.method, First>>
         /\ \A i \in 1 .. Len(g) - 1 : g[i + 1] = <<req.method, NextCursor[g[i][2]]>>
         /\ g[Len(g)] = <<req.method, req.param>> /\ g[Len(g)][2] = req.param
<1>. DEFINE x == <<req.method, req.param>>
<1>1. x \in About /\ gathered \in Seq(About) /\ Len(gathered) \in Nat
  BY DEF TypeInv, ClientOK, ClientTypeOK, PhaseOK, About, Listing, Method
<1>2. /\ Len(g) = Len(gathered) + 1 /\ g[Len(gathered) + 1] = x
      /\ \A i \in 1 .. Len(gathered) : g[i] = gathered[i]
  BY <1>1
<1>3. g # <<>> /\ Len(g) \in Nat /\ Len(g) > 0
  BY <1>1, <1>2
<1>4. x[2] = req.param
  OBVIOUS
<1>. HIDE DEF x
<1>5. CASE gathered = <<>>
  <2>1. x = <<req.method, First>> /\ Len(gathered) = 0
    BY <1>5 DEF GatherInv, x
  <2>. QED
    BY <1>2, <1>3, <1>4, <2>1 DEF x
<1>6. CASE gathered # <<>>
  <2>1. Len(gathered) > 0
    BY <1>1, <1>6
  <2>2. /\ gathered[1] = <<req.method, First>>
        /\ \A i \in 1 .. Len(gathered) - 1 :
             gathered[i + 1] = <<req.method, NextCursor[gathered[i][2]]>>
        /\ req.param = NextCursor[gathered[Len(gathered)][2]]
    BY <1>6 DEF GatherInv
  <2>3. g[1] = <<req.method, First>>
    BY <1>1, <1>2, <2>1, <2>2
  <2>4. ASSUME NEW i \in 1 .. Len(g) - 1 PROVE g[i + 1] = <<req.method, NextCursor[g[i][2]]>>
    <3>1. i \in 1 .. Len(gathered) /\ g[i] = gathered[i]
      BY <1>1, <1>2
    <3>2. CASE i = Len(gathered)
      <4>1. g[i + 1] = x /\ NextCursor[g[i][2]] = req.param
        BY <1>2, <2>2, <3>1, <3>2
      <4>. QED
        BY <4>1 DEF x
    <3>3. CASE i # Len(gathered)
      <4>1. i \in 1 .. Len(gathered) - 1 /\ i + 1 \in 1 .. Len(gathered)
        BY <1>1, <3>1, <3>3
      <4>2. g[i + 1] = gathered[i + 1]
        BY <1>2, <4>1
      <4>. QED
        BY <2>2, <3>1, <4>1, <4>2
    <3>. QED
      BY <3>2, <3>3
  <2>. QED
    BY <1>2, <1>3, <1>4, <2>3, <2>4 DEF x
<1>. QED
  BY <1>5, <1>6

LEMMA GatherInvStep == ProtocolInv /\ GatherInv /\ [Next]_vars => GatherInv'
<1>. SUFFICES ASSUME ProtocolInv, GatherInv, [Next]_vars PROVE GatherInv'
  OBVIOUS
<1>0. TypeInv /\ ClientOK
  BY DEF ProtocolInv, TypeInv
<1>1. CASE Stays \/ Written \/ Turns
  <2>1. UNCHANGED <<gathered, req>> /\ (step' = step \/ (step # "rest" /\ step' # "rest"))
    BY <1>1 DEF Stays, Written, Turns
  <2>. QED
    BY <2>1 DEF GatherInv
<1>2. CASE Notified \/ Accepts
  <2>1. UNCHANGED gathered /\ req' = Initialized /\ Initialized.method \notin Listing
    BY <1>2, RequestKinds DEF Notified, Accepts, Listing
  <2>2. req.method \notin Listing
    BY <1>2, <2>1 DEF Notified, Accepts, Listing
  <2>. QED
    BY <2>1, <2>2 DEF GatherInv
<1>3. CASE Rests
  <2>1. step' = "rest" /\ (gathered' = <<>> \/ (UNCHANGED gathered /\ ~InCall))
    BY <1>3 DEF Rests
  <2>. QED
    BY <2>1 DEF GatherInv, InCall
<1>4. CASE StartsLegacy
  <2>1. UNCHANGED gathered /\ req.method \notin Listing /\ req'.method \notin Listing
        /\ step' = "write"
    BY <1>4 DEF StartsLegacy, Asks, Listing
  <2>. QED
    BY <2>1 DEF GatherInv
<1>5. CASE Begins
  <2>1. /\ gathered' = <<>> /\ step' = "write"
        /\ req'.method \in Listing => req'.param = First
    BY <1>5 DEF Begins, Describes, Asks, GatherInv
  <2>. QED
    BY <2>1 DEF GatherInv
<1>6. CASE Continues
  <2>1. /\ step = "wait" /\ step' = "write" /\ req.method \in Listing
        /\ req'.method = req.method /\ req'.param = NextCursor[req.param]
    BY <1>6 DEF Continues, Describes, Asks
  <2>2. PICK m \in Arrived : Own(m) /\ gathered' = Append(gathered, m.about)
    BY <1>6 DEF Continues
  <2>3. m.about = <<req.method, req.param>>
    BY <2>1, <2>2, OwnIsMine DEF ProtocolInv
  <2>4. PICK g : g = Append(gathered, <<req.method, req.param>>) /\ gathered' = g
    BY <2>2, <2>3
  <2>5. /\ g # <<>> /\ Len(g) \in Nat /\ g[1] = <<req.method, First>>
        /\ \A i \in 1 .. Len(g) - 1 : g[i + 1] = <<req.method, NextCursor[g[i][2]]>>
        /\ g[Len(g)][2] = req.param
    BY <1>0, <2>1, <2>4, PagesChain
  <2>. QED
    BY <2>1, <2>4, <2>5 DEF GatherInv
<1>. QED
  BY <1>0, <1>1, <1>2, <1>3, <1>4, <1>5, <1>6, Moves

LEMMA ListingIsWholeStep ==
  ProtocolInv /\ GatherInv /\ ListingIsWhole /\ [Next]_vars => ListingIsWhole'
<1>. SUFFICES ASSUME ProtocolInv, GatherInv, ListingIsWhole, [Next]_vars,
                     NEW r \in returned', r.method \in Listing, r.outcome = "ok"
              PROVE  LET n == Len(r.got) IN
                     /\ n > 0 /\ r.got[1] = <<r.method, First>>
                     /\ \A i \in 1 .. n - 1 : r.got[i + 1] = <<r.method, NextCursor[r.got[i][2]]>>
                     /\ NextCursor[r.got[n][2]] \in {First, r.got[n][2]}
  BY DEF ListingIsWhole
<1>1. CASE r \in returned
  BY <1>1 DEF ListingIsWhole
<1>2. CASE r \notin returned
  <2>1. /\ r.method = req.method /\ req.method \in Listing /\ step # "rest"
        /\ LastPage(req.param) /\ r.got = Append(gathered, <<req.method, req.param>>)
    BY <1>2, NewReturned DEF Added, Listing
  <2>2. PICK g : g = Append(gathered, <<req.method, req.param>>) /\ r.got = g
    BY <2>1
  <2>3. /\ Len(g) \in Nat /\ Len(g) > 0 /\ g[1] = <<req.method, First>>
        /\ \A i \in 1 .. Len(g) - 1 : g[i + 1] = <<req.method, NextCursor[g[i][2]]>>
        /\ g[Len(g)][2] = req.param
    BY <2>1, <2>2, PagesChain DEF ProtocolInv
  <2>4. NextCursor[g[Len(g)][2]] \in {First, g[Len(g)][2]}
    BY <2>1, <2>3 DEF LastPage
  <2>. QED
    BY <2>1, <2>2, <2>3, <2>4
<1>. QED
  BY <1>1, <1>2

\* A listing that succeeds is the server's whole listing, page by page from the
\* first to one that names no next page but itself, whatever came late of the
\* listings before it (ListTools, ListResources).
THEOREM ListingIsWholeHolds == Spec => []ListingIsWhole
<1>1. Init => GatherInv /\ ListingIsWhole
  BY DEF Init, GatherInv, ListingIsWhole, Request, Listing
<1>2. Spec => [](GatherInv /\ ListingIsWhole)
  BY <1>1, GatherInvStep, ListingIsWholeStep, ProtocolHolds, PTL DEF Spec
<1>. QED
  BY <1>2, PTL

-----------------------------------------------------------------------------
(***************************************************************************)
(* The era and the revision.                                               *)
(***************************************************************************)
\* The revision a follows from what server's answer a says of it.
AgreedBy(a) ==
    \/ /\ era = "modern" /\ a.about[1] = "discover" /\ a.code \in {"ok", "unsupported"}
       /\ version = PickVersion(a.versions)
    \/ /\ era = "legacy" /\ a.about[1] = "initialize" /\ a.code = "ok"
       /\ IF a.versions = {} THEN version = LegacyVersion ELSE version \in a.versions

\* It is agreed as soon as initialize is answered.
VersionInv ==
    status \in {"ready", "closed"} \/ (step = "write" /\ req = Initialized)
      => \E a \in answered : AgreedBy(a)

LEMMA VersionInvStep == ProtocolInv /\ VersionInv /\ [Next]_vars => VersionInv'
<1>. SUFFICES ASSUME ProtocolInv, VersionInv, [Next]_vars,
                     (status \in {"ready", "closed"} \/ (step = "write" /\ req = Initialized))'
              PROVE  \E a \in answered' : AgreedBy(a)'
  BY DEF VersionInv
<1>0. TypeInv /\ ClientOK /\ answered \subseteq answered'
  BY HeldFrame DEF ProtocolInv, TypeInv
<1>1. ASSUME UNCHANGED <<era, version>>, \E a \in answered : AgreedBy(a)
      PROVE  \E a \in answered' : AgreedBy(a)'
  <2>1. PICK a \in answered : AgreedBy(a)
    BY <1>1
  <2>2. AgreedBy(a)'
    BY <1>1, <2>1 DEF AgreedBy
  <2>. QED
    BY <1>0, <2>2
<1>2. CASE Stays \/ Written \/ Notified \/ Turns
  <2>1. UNCHANGED <<era, version>>
    BY <1>2 DEF Stays, Written, Notified, Turns
  <2>2. status \in {"ready", "closed"} \/ (step = "write" /\ req = Initialized)
    BY <1>2 DEF Stays, Written, Notified, Turns
  <2>. QED
    BY <1>1, <2>1, <2>2 DEF VersionInv
<1>3. CASE Rests
  <2>1. CASE DiscoverAnswered
    <3>1. PICK m \in Arrived : /\ Answered({"discover"}, {"ok", "unsupported"}, m)
                               /\ version' = PickVersion(m.versions) /\ UNCHANGED era
      BY <2>1 DEF DiscoverAnswered
    <3>2. Own(m) /\ step = "wait" /\ req.method = "discover" /\ m.code \in {"ok", "unsupported"}
      BY <3>1 DEF Answered, Take
    <3>3. m \in answered /\ m.about = <<req.method, req.param>>
      BY <3>2, OwnIsMine DEF ProtocolInv
    <3>4. era = "modern" /\ m.about[1] = "discover"
      BY <1>0, <3>2, <3>3, InHand
    <3>5. AgreedBy(m)'
      BY <3>1, <3>2, <3>4 DEF AgreedBy
    <3>. QED
      BY <1>0, <3>3, <3>5
  <2>2. CASE ~DiscoverAnswered
    <3>1. step' = "rest" /\ UNCHANGED <<era, version>>
          /\ ((status = "dialling" /\ status' = "failed") \/ (InCall /\ UNCHANGED status))
      BY <1>3, <2>2 DEF Rests
    <3>2. status \in {"ready", "closed"}
      BY <3>1
    <3>. QED
      BY <1>1, <3>1, <3>2 DEF VersionInv
  <2>. QED
    BY <2>1, <2>2
<1>4. CASE StartsLegacy
  BY <1>4, RequestKinds DEF StartsLegacy, Asks
<1>5. CASE Begins \/ Continues
  <2>1. status = "ready" /\ UNCHANGED <<era, version>>
    BY <1>5 DEF Begins, Continues, Describes
  <2>. QED
    BY <1>1, <2>1 DEF VersionInv
<1>6. CASE Accepts
  <2>1. InitializeAnswered
    BY <1>6 DEF Accepts
  <2>2. PICK m \in Arrived :
          /\ Answered({"initialize"}, {"ok"}, m)
          /\ (m.versions = {} /\ UNCHANGED version) \/ version' \in m.versions
          /\ UNCHANGED era
    BY <2>1 DEF InitializeAnswered
  <2>3. Own(m) /\ step = "wait" /\ req.method = "initialize" /\ m.code = "ok"
    BY <2>2 DEF Answered, Take
  <2>4. m \in answered /\ m.about = <<req.method, req.param>>
    BY <2>3, OwnIsMine DEF ProtocolInv
  <2>5. era = "legacy" /\ version = LegacyVersion /\ m.about[1] = "initialize"
    BY <1>0, <2>3, <2>4, InHand
  <2>6. AgreedBy(m)'
    BY <2>2, <2>3, <2>5 DEF AgreedBy
  <2>. QED
    BY <1>0, <2>4, <2>6
<1>. QED
  BY <1>0, <1>2, <1>3, <1>4, <1>5, <1>6, Moves

\* The revision the client goes on with follows from what the server itself
\* said, to discover or to initialize, and not from an answer that came when
\* the client had moved on (detectEra, legacyInitialize).
THEOREM VersionAgreedHolds == Spec => []VersionAgreed
<1>1. Init => VersionInv
  BY RequestKinds DEF Init, VersionInv, Request
<1>2. VersionInv => VersionAgreed
  BY DEF VersionInv, VersionAgreed, AgreedBy
<1>3. Spec => []VersionInv
  BY <1>1, VersionInvStep, ProtocolHolds, PTL DEF Spec
<1>. QED
  BY <1>2, <1>3, PTL

-----------------------------------------------------------------------------
(***************************************************************************)
(* What is on the wire fits the era: no session without its handshake, and *)
(* nothing but the handshake before it is over.                            *)
(***************************************************************************)
IsCall(m) == m.method \in Listing \cup {"call"}

EraInv ==
    /\ era = "modern" => \A i \in DOMAIN wire : wire[i].method # "initialize"
    /\ era = "modern" => req.method # "initialize"
    /\ status \in {"dialling", "failed"} => \A i \in DOMAIN wire : ~IsCall(wire[i])
    /\ status = "dialling" /\ step = "write" /\ req = Initialized =>
         \E i \in DOMAIN wire : wire[i].method = "initialize"
    /\ status \in {"ready", "closed"} /\ era = "legacy" =>
         /\ \E i \in DOMAIN wire : wire[i].method = "initialize"
         /\ \E i \in DOMAIN wire : wire[i] = Initialized
    /\ status = "ready" /\ step # "rest" =>
         /\ era = "modern" => req.meta = version
         /\ era = "legacy" => req.meta \in {CallerMeta, NoMeta}

\* What the wire gains: the request in hand, a notification or a refusal.
LEMMA WireGains ==
  ASSUME TypeInv, [Next]_vars, NEW i \in DOMAIN wire', i \notin DOMAIN wire
  PROVE  /\ i = Len(wire) + 1 /\ Len(wire) \in Nat
         /\ \/ Written /\ wire'[i] = req
            \/ Notified /\ wire'[i] = Initialized
            \/ Turns /\ wire'[i] = Refusal
<1>1. wire \in Seq(Message) /\ req \in Message /\ Refusal \in Message
  BY RefusalIsMessage DEF TypeInv, PipesTypeOK, ClientOK, ClientTypeOK
<1>2. \E m \in Message : wire' = Append(wire, m)
  BY <1>1, Moves DEF Stays, Written, Notified, Turns, Rests, StartsLegacy, Begins, Continues,
                     Describes, Asks, Accepts
<1>. QED
  BY <1>1, <1>2, WireGrows

LEMMA EraFrame ==
  ASSUME TypeInv, [Next]_vars
  PROVE  /\ era' = era \/ (StartsLegacy /\ era' = "legacy")
         /\ UNCHANGED version \/ status = "dialling"
         /\ \/ UNCHANGED req \/ (Accepts /\ req' = Initialized)
            \/ (StartsLegacy /\ era' = "legacy" /\ req'.kind = "request")
            \/ (Describes /\ req'.method \in Listing \cup {"call"} /\ req'.kind = "request")
         /\ status' \in {"dialling", "failed"} => status \in {"dialling", "failed"}
         /\ status' = "dialling" => status = "dialling"
         /\ status' \in {"ready", "closed"} =>
              status \in {"ready", "closed"} \/ Notified \/ (DiscoverAnswered /\ UNCHANGED era)
<1>1. DiscoverAnswered => UNCHANGED era
  BY DEF DiscoverAnswered
<1>2. Accepts => UNCHANGED era
  BY DEF Accepts
<1>. QED
  BY <1>1, Moves DEF Stays, Written, Notified, Turns, Rests, StartsLegacy, Begins, Continues,
                     Describes, Asks, Accepts

LEMMA EraInvStep == ProtocolInv /\ EraInv /\ [Next]_vars => EraInv'
<1>. SUFFICES ASSUME ProtocolInv, EraInv, [Next]_vars PROVE EraInv'
  OBVIOUS
<1>0. TypeInv /\ ClientOK
  BY DEF ProtocolInv, TypeInv
<1>1. \A i \in DOMAIN wire : i \in DOMAIN wire' /\ wire'[i] = wire[i]
  BY <1>0, WireGrows
<1>2. ~IsCall(Initialized) /\ ~IsCall(Refusal)
      /\ Initialized.method # "initialize" /\ Refusal.method # "initialize"
  BY RequestKinds DEF IsCall, Listing
<1>3. ASSUME era' = "modern", NEW i \in DOMAIN wire' PROVE wire'[i].method # "initialize"
  <2>1. era = "modern"
    BY <1>0, <1>3, EraFrame
  <2>. QED
    BY <1>0, <1>2, <2>1, WireGrows DEF EraInv
<1>4. ASSUME era' = "modern" PROVE req'.method # "initialize"
  BY <1>0, <1>2, <1>4, EraFrame DEF EraInv, Listing
<1>5. ASSUME status' \in {"dialling", "failed"}, NEW i \in DOMAIN wire' PROVE ~IsCall(wire'[i])
  <2>1. status \in {"dialling", "failed"}
    BY <1>0, <1>5, EraFrame
  <2>2. Written => status = "dialling" /\ ~IsCall(req)
    BY <1>0, <2>1, InHand DEF Written, IsCall, InCall, ClientOK, PhaseOK
  <2>. QED
    BY <1>0, <1>2, <2>1, <2>2, WireGrows DEF EraInv
<1>6. ASSUME status' = "dialling", step' = "write", req' = Initialized
      PROVE  \E i \in DOMAIN wire' : wire'[i].method = "initialize"
  <2>1. CASE Accepts
    <3>1. PICK m \in Arrived : Answered({"initialize"}, {"ok"}, m)
      BY <2>1 DEF Accepts, InitializeAnswered
    <3>2. Own(m) /\ step = "wait" /\ req.method = "initialize"
      BY <3>1 DEF Answered, Take
    <3>3. \E i \in DOMAIN wire : wire[i] = req
      BY <3>2, OwnIsMine DEF ProtocolInv
    <3>. QED
      BY <1>1, <3>2, <3>3
  <2>2. CASE Stays
    <3>1. status = "dialling" /\ step = "write" /\ req = Initialized
      BY <1>6, <2>2 DEF Stays
    <3>. QED
      BY <1>1, <3>1 DEF EraInv
  <2>3. ~Asks
    BY <1>6, RequestKinds DEF Asks
  <2>. QED
    BY <1>0, <1>6, <2>1, <2>2, <2>3, Moves DEF Written, Notified, Turns, Rests, StartsLegacy,
       Begins, Continues, Describes
<1>7. ASSUME status' \in {"ready", "closed"}, era' = "legacy"
      PROVE  /\ \E i \in DOMAIN wire' : wire'[i].method = "initialize"
             /\ \E i \in DOMAIN wire' : wire'[i] = Initialized
  <2>1. CASE status \in {"ready", "closed"}
    <3>1. era = "legacy"
      BY <1>0, <1>7, <2>1, EraFrame DEF StartsLegacy
    <3>. QED
      BY <1>1, <2>1, <3>1 DEF EraInv
  <2>2. CASE Notified
    <3>1. status = "dialling" /\ step = "write" /\ req = Initialized /\ wire' = Append(wire, req)
      BY <2>2 DEF Notified
    <3>2. \E i \in DOMAIN wire : wire[i].method = "initialize"
      BY <3>1 DEF EraInv
    <3>3. wire \in Seq(Message) /\ req \in Message
      BY <1>0 DEF TypeInv, PipesTypeOK, ClientOK, ClientTypeOK
    <3>4. Len(wire) + 1 \in DOMAIN wire' /\ wire'[Len(wire) + 1] = req
      BY <3>1, <3>3, AppendFacts
    <3>. QED
      BY <1>1, <3>1, <3>2, <3>4
  <2>3. ASSUME DiscoverAnswered, UNCHANGED era PROVE FALSE
    <3>1. step = "wait" /\ req.method = "discover"
      BY <2>3 DEF DiscoverAnswered, Answered, Take
    <3>2. era = "modern"
      BY <1>0, <3>1, InHand
    <3>. QED
      BY <1>7, <2>3, <3>2
  <2>. QED
    BY <1>0, <1>7, <2>1, <2>2, <2>3, EraFrame
<1>8. ASSUME status' = "ready", step' # "rest"
      PROVE  /\ era' = "modern" => req'.meta = version'
             /\ era' = "legacy" => req'.meta \in {CallerMeta, NoMeta}
  <2>1. CASE Stays \/ Written \/ Turns
    <3>1. status = "ready" /\ step # "rest" /\ UNCHANGED <<era, version, req>>
      BY <1>8, <2>1 DEF Stays, Written, Turns
    <3>. QED
      BY <3>1 DEF EraInv
  <2>2. CASE Begins \/ Continues
    BY <2>2 DEF Begins, Continues, Describes
  <2>. QED
    BY <1>0, <1>8, <2>1, <2>2, Moves DEF Notified, Rests, StartsLegacy, Asks, Accepts
<1>. QED
  BY <1>3, <1>4, <1>5, <1>6, <1>7, <1>8 DEF EraInv

LEMMA CallsFitEraStep == ProtocolInv /\ EraInv /\ CallsFitEra /\ [Next]_vars => CallsFitEra'
<1>. SUFFICES ASSUME ProtocolInv, EraInv, CallsFitEra, [Next]_vars,
                     NEW i \in DOMAIN wire', IsCall(wire'[i])
              PROVE  IF \E j \in 1 .. i : wire'[j].method = "initialize"
                     THEN /\ \E j \in 1 .. i : wire'[j] = Initialized
                          /\ wire'[i].meta \in {CallerMeta, NoMeta}
                     ELSE wire'[i].meta = version'
  BY DEF CallsFitEra, IsCall
<1>0. TypeInv /\ ClientOK /\ EraInv' /\ wire \in Seq(Message) /\ wire' \in Seq(Message)
  BY EraInvStep, TypeInvStep DEF ProtocolInv, TypeInv, PipesTypeOK
<1>1. \A j \in DOMAIN wire : j \in DOMAIN wire' /\ wire'[j] = wire[j]
  BY <1>0, WireGrows
<1>2. CASE i \in DOMAIN wire
  <2>1. wire'[i] = wire[i] /\ IsCall(wire[i]) /\ \A j \in 1 .. i : wire'[j] = wire[j]
    <3>1. \A j \in 1 .. i : j \in DOMAIN wire
      BY <1>0, <1>2
    <3>. QED
      BY <1>1, <1>2, <3>1
  <2>2. UNCHANGED version
    <3>1. status # "dialling"
      BY <1>2, <2>1 DEF EraInv
    <3>. QED
      BY <1>0, <3>1, EraFrame
  <2>3. IF \E j \in 1 .. i : wire[j].method = "initialize"
        THEN /\ \E j \in 1 .. i : wire[j] = Initialized
             /\ wire[i].meta \in {CallerMeta, NoMeta}
        ELSE wire[i].meta = version
    BY <1>2, <2>1 DEF CallsFitEra, IsCall
  <2>. QED
    BY <2>1, <2>2, <2>3
<1>3. CASE i \notin DOMAIN wire
  <2>1. i = Len(wire) + 1 /\ Len(wire) \in Nat /\ Written /\ wire'[i] = req
    BY <1>0, <1>3, WireGains, RequestKinds DEF IsCall, Listing
  <2>2. status = "ready" /\ step = "write" /\ UNCHANGED <<status, era, version, req>>
    BY <1>0, <2>1, InHand DEF Written, IsCall, InCall
  <2>3. CASE era = "modern"
    <3>1. \A j \in 1 .. i : j \in DOMAIN wire'
      BY <1>0, <2>1
    <3>2. \A j \in 1 .. i : wire'[j].method # "initialize"
      BY <1>0, <2>2, <2>3, <3>1 DEF EraInv
    <3>. QED
      BY <2>1, <2>2, <2>3, <3>2 DEF EraInv
  <2>4. CASE era = "legacy"
    <3>1. PICK k \in DOMAIN wire, l \in DOMAIN wire :
            wire[k].method = "initialize" /\ wire[l] = Initialized
      BY <2>2, <2>4 DEF EraInv
    <3>2. k \in 1 .. i /\ l \in 1 .. i
      BY <1>0, <2>1
    <3>3. wire'[k].method = "initialize" /\ wire'[l] = Initialized
      BY <1>1, <3>1
    <3>4. req.meta \in {CallerMeta, NoMeta}
      BY <2>2, <2>4 DEF EraInv
    <3>. QED
      BY <2>1, <3>2, <3>3, <3>4
  <2>. QED
    BY <1>0, <2>3, <2>4 DEF ClientOK, ClientTypeOK
<1>. QED
  BY <1>2, <1>3

\* On the wire every call fits the era: after the initialized notification in
\* a session, described by the agreed revision without one, for any server and
\* any number of calls (encodeParams, legacyInitialize).
THEOREM CallsFitEraHolds == Spec => []CallsFitEra
<1>1. Init => EraInv /\ CallsFitEra
  BY RequestKinds DEF Init, EraInv, CallsFitEra, Request
<1>2. Spec => [](EraInv /\ CallsFitEra)
  BY <1>1, EraInvStep, CallsFitEraStep, ProtocolHolds, PTL DEF Spec
<1>. QED
  BY <1>2, PTL

-----------------------------------------------------------------------------
(***************************************************************************)
(* No answer is lost: until roundTrip takes it, an answer to the request   *)
(* in hand is in the pipe or in the channel, and the reader ends only when *)
(* the pipe is empty and nobody fills it any more.                         *)
(***************************************************************************)
Held(a) == (\E j \in DOMAIN stdout : stdout[j] = a) \/ (\E j \in DOMAIN incoming : incoming[j] = a)

PendingInv ==
    /\ reader = "ended" => stdout = <<>> /\ ~alive
    /\ step \in {"wait", "refuse"} => \A a \in answered : a.id = req.id => Held(a)
    /\ \A r \in returned : r.outcome = "closed" /\ reader # "broken" => ~alive

LEMMA TakeFrame ==
  ASSUME [Next]_vars, step' \in {"wait", "refuse"}
  PROVE  UNCHANGED incoming \/ ReadMessage \/ Ignore \/ TakeRequest
<1>1. \A o : ~Fails(o)
  BY DEF Fails, LegacyInitialize, Call, DialFails, Returns
<1>2. ~Failure
  BY <1>1, FailureFacts
<1>3. ~DiscoverAnswered /\ ~NothingOffered /\ ~InitializeAnswered
  BY DEF DiscoverAnswered, NothingOffered, InitializeAnswered, Dialled, DialFails
<1>4. ~PageArrives /\ ~ListingRefused /\ ~CallAnswered
  BY DEF PageArrives, ListingRefused, CallAnswered, Returns, Call
<1>5. ~List /\ ~CallRaw
  BY DEF List, CallRaw, Begin, Call
<1>6. Ignore \/ TakeRequest \/ ReadMessage \/ UNCHANGED incoming
  BY <1>2, <1>3, <1>4, <1>5
     DEF Failure, Next, vars, serverVars, readerVars, historyVars, RoundTrip, Handshake, Results,
         Reader, Child, Halted, WriteRequest, Refuse, Close, CancelDial, ReadEnd, ReadGarbage,
         ReadFails, ServerReads, ServerAnswers, ServerSpeaks, ServerExits, Says
<1>. QED
  BY <1>6

\* An answer to the request in hand stays where it is, or moves on by one.
LEMMA HeldStays ==
  ASSUME TypeInv, [Next]_vars, step' \in {"wait", "refuse"}, NEW a, Held(a),
         a.kind = "answer", a.id = req.id
  PROVE  Held(a)'
<1>1. stdout \in Seq(FromServer) /\ incoming \in Seq(FromServer)
  BY DEF TypeInv, PipesTypeOK
<1>2. ASSUME ReadMessage
      PROVE  /\ stdout # <<>> /\ stdout' = Tail(stdout) /\ incoming' = Append(incoming, stdout[1])
             /\ stdout[1] \in FromServer
  <2>1. stdout # <<>> /\ stdout' = Tail(stdout) /\ incoming' = Append(incoming, Head(stdout))
    BY <1>2 DEF ReadMessage
  <2>. QED
    BY <1>1, <2>1
<1>3. ASSUME NEW q \in Seq(FromServer), NEW j \in DOMAIN q
      PROVE  j = 1 \/ (j - 1 \in DOMAIN Tail(q) /\ Tail(q)[j - 1] = q[j])
  OBVIOUS
<1>4. ASSUME NEW j \in DOMAIN stdout, stdout[j] = a PROVE Held(a)'
  <2>1. CASE ReadMessage
    <3>1. CASE j = 1
      <4>1. Len(incoming) + 1 \in DOMAIN incoming' /\ incoming'[Len(incoming) + 1] = a
        BY <1>1, <1>2, <1>4, <2>1, <3>1, AppendFacts
      <4>. QED
        BY <4>1 DEF Held
    <3>2. CASE j - 1 \in DOMAIN Tail(stdout) /\ Tail(stdout)[j - 1] = stdout[j]
      BY <1>2, <1>4, <2>1, <3>2 DEF Held
    <3>. QED
      BY <1>1, <1>3, <3>1, <3>2
  <2>2. CASE UNCHANGED stdout
    BY <1>4, <2>2 DEF Held
  <2>3. ASSUME NEW m \in FromServer, stdout' = Append(stdout, m) PROVE Held(a)'
    BY <1>1, <1>4, <2>3, AppendFacts DEF Held
  <2>4. ServerAnswers => \E m \in FromServer : stdout' = Append(stdout, m)
    BY AnsweringFacts DEF TypeInv, FromServer
  <2>. QED
    BY <2>1, <2>2, <2>3, <2>4, SpeakingFacts, StdoutFrame
<1>5. ASSUME NEW j \in DOMAIN incoming, incoming[j] = a PROVE Held(a)'
  <2>1. CASE ReadMessage
    BY <1>1, <1>2, <1>5, <2>1, AppendFacts DEF Held
  <2>2. CASE UNCHANGED incoming
    BY <1>5, <2>2 DEF Held
  <2>3. ASSUME NEW m \in Arrived, Take(m), m # a PROVE Held(a)'
    <3>1. incoming' = Tail(incoming) /\ m = incoming[1]
      BY <2>3, ArrivedFacts DEF Take, TypeInv
    <3>2. j - 1 \in DOMAIN Tail(incoming) /\ Tail(incoming)[j - 1] = incoming[j]
      BY <1>1, <1>3, <1>5, <2>3, <3>1
    <3>. QED
      BY <1>5, <3>1, <3>2 DEF Held
  <2>4. Ignore \/ TakeRequest => \E m \in Arrived : Take(m) /\ m # a
    BY DEF Ignore, TakeRequest, Own
  <2>. QED
    BY <2>1, <2>2, <2>3, <2>4, TakeFrame
<1>. QED
  BY <1>4, <1>5 DEF Held

LEMMA NewlyAnswered ==
  ASSUME TypeInv, [Next]_vars, NEW a \in answered', a \notin answered
  PROVE  alive /\ Held(a)'
<1>1. ServerAnswers
  BY ChildFrame, SpeakingFacts
<1>2. PICK m \in Answer : alive /\ stdout' = Append(stdout, m) /\ answered' = answered \cup {m}
  BY <1>1, AnsweringFacts DEF TypeInv
<1>3. m = a /\ m \in FromServer /\ stdout \in Seq(FromServer)
  BY <1>2 DEF FromServer, TypeInv, PipesTypeOK
<1>4. Len(stdout) + 1 \in DOMAIN stdout' /\ stdout'[Len(stdout) + 1] = a
  BY <1>2, <1>3, AppendFacts
<1>. QED
  BY <1>2, <1>4 DEF Held

\* A request not yet written has no answer.
LEMMA UnwrittenUnanswered ==
  ASSUME ProtocolInv, step = "write", req.kind = "request", NEW a \in answered
  PROVE  a.id # req.id
<1>1. PICK i \in DOMAIN wire : Answers(a, i)
  BY DEF ProtocolInv, KnownInv
<1>. QED
  BY <1>1 DEF ProtocolInv, IdsInv, Answers

LEMMA PendingInvStep == ProtocolInv /\ PendingInv /\ [Next]_vars => PendingInv'
<1>. SUFFICES ASSUME ProtocolInv, PendingInv, [Next]_vars PROVE PendingInv'
  OBVIOUS
<1>0. TypeInv /\ alive \in BOOLEAN /\ (UNCHANGED alive \/ alive' = FALSE)
  BY ChildFrame DEF ProtocolInv, TypeInv, PipesTypeOK
<1>1. ASSUME reader' = "ended" PROVE stdout' = <<>> /\ ~alive'
  <2>1. CASE reader = "ended"
    <3>1. stdout = <<>> /\ ~alive
      BY <2>1 DEF PendingInv
    <3>2. ~ReadMessage /\ ~ServerAnswers /\ ~ServerSpeaks
      BY <3>1, AnsweringFacts DEF ReadMessage, ServerSpeaks, Says
    <3>. QED
      BY <1>0, <3>1, <3>2, StdoutFrame
  <2>2. CASE reader # "ended"
    <3>1. ReadEnd
      BY <1>1, <2>2, StdoutFrame DEF ReadGarbage, ReadFails
    <3>. QED
      BY <3>1 DEF ReadEnd, ReadFails, serverVars
  <2>. QED
    BY <2>1, <2>2
<1>2. ASSUME step' \in {"wait", "refuse"}, NEW a \in answered', a.id = req'.id
      PROVE  Held(a)'
  <2>1. CASE a \notin answered
    BY <1>0, <2>1, NewlyAnswered
  <2>2. CASE a \in answered /\ step \in {"wait", "refuse"} /\ UNCHANGED req
    <3>1. a.id = req.id /\ a.kind = "answer" /\ Held(a)
      BY <1>0, <1>2, <2>2 DEF PendingInv, TypeInv, PipesTypeOK, Answer
    <3>. QED
      BY <1>0, <1>2, <3>1, HeldStays
  <2>3. CASE a \in answered /\ Written
    <3>1. step = "write" /\ req.kind = "request" /\ UNCHANGED req
      BY <2>3 DEF Written
    <3>. QED
      BY <1>2, <2>3, <3>1, UnwrittenUnanswered
  <2>4. Written \/ (step \in {"wait", "refuse"} /\ UNCHANGED req)
    BY <1>0, <1>2, Moves DEF Stays, Notified, Turns, Rests, StartsLegacy, Begins, Continues,
                             Describes, Asks, Accepts
  <2>. QED
    BY <2>1, <2>2, <2>3, <2>4
<1>3. ASSUME NEW r \in returned', r.outcome = "closed", reader' # "broken" PROVE ~alive'
  <2>1. reader # "broken"
    BY <1>3, StdoutFrame DEF ReadEnd, ReadGarbage, ReadFails
  <2>2. CASE r \in returned
    BY <1>0, <1>3, <2>1, <2>2 DEF PendingInv
  <2>3. CASE r \notin returned
    <3>1. WriteFails \/ FindClosed
      BY <1>3, <2>3, NewReturned DEF Added
    <3>2. FindClosed => reader = "ended"
      BY <1>0, <2>1 DEF FindClosed, TypeInv, PipesTypeOK
    <3>. QED
      BY <1>0, <3>1, <3>2 DEF WriteFails, PendingInv
  <2>. QED
    BY <2>2, <2>3
<1>. QED
  BY <1>1, <1>2, <1>3 DEF PendingInv

LEMMA NoAnswerLostStep ==
  ProtocolInv /\ PendingInv /\ NoAnswerLost /\ [Next]_vars => NoAnswerLost'
<1>. SUFFICES ASSUME ProtocolInv, PendingInv, NoAnswerLost, [Next]_vars,
                     NEW r \in returned', r.outcome = "closed", reader' # "broken",
                     NEW a \in answered', a.id = r.id
              PROVE  FALSE
  BY DEF NoAnswerLost
<1>0. TypeInv /\ ClientOK
  BY DEF ProtocolInv, TypeInv
<1>1. reader # "broken"
  BY StdoutFrame DEF ReadEnd, ReadGarbage, ReadFails
<1>2. CASE r \in returned
  <2>1. ~alive
    BY <1>1, <1>2 DEF PendingInv
  <2>2. a \in answered
    BY <1>0, <2>1, NewlyAnswered
  <2>. QED
    BY <1>1, <1>2, <2>2 DEF NoAnswerLost
<1>3. CASE r \notin returned
  <2>1. r.id = req.id /\ InCall /\ step # "rest" /\ (WriteFails \/ FindClosed)
    BY <1>3, NewReturned DEF Added
  <2>2. a \in answered
    BY <2>1 DEF WriteFails, FindClosed
  <2>3. CASE WriteFails
    <3>1. step = "write" /\ req.kind = "request"
      BY <1>0, <2>1, <2>3, InHand DEF WriteFails
    <3>. QED
      BY <2>1, <2>2, <3>1, UnwrittenUnanswered
  <2>4. CASE FindClosed
    <3>1. step = "wait" /\ incoming = <<>> /\ reader = "ended"
      BY <1>0, <1>1, <2>4 DEF FindClosed, TypeInv, PipesTypeOK
    <3>2. stdout = <<>> /\ Held(a)
      BY <2>1, <2>2, <3>1 DEF PendingInv
    <3>. QED
      BY <3>1, <3>2 DEF Held
  <2>. QED
    BY <2>1, <2>3, <2>4
<1>. QED
  BY <1>2, <1>3

\* A server that answered and then exited is not reported as having hung up,
\* however the reader, the timer and the caller interleave (readLoop closes the
\* channel only after it has handed over all the pipe held).
THEOREM NoAnswerLostHolds == Spec => []NoAnswerLost
<1>1. Init => PendingInv /\ NoAnswerLost
  BY DEF Init, PendingInv, NoAnswerLost
<1>2. Spec => [](PendingInv /\ NoAnswerLost)
  BY <1>1, PendingInvStep, NoAnswerLostStep, ProtocolHolds, PTL DEF Spec
<1>. QED
  BY <1>2, PTL
=============================================================================

-------------------------- MODULE ProxyProperties --------------------------
(***************************************************************************)
(* What Proxy promises.                                                    *)
(***************************************************************************)
EXTENDS Proxy, FiniteSets

Id == 1 .. MaxMessages

ClientTypeOK ==
    /\ nread \in Nat
    /\ cpc \in {"read", "probe", "wait", "decide", "log denial", "deny",
                "record", "log", "remember", "note", "forward", "stopped"}
    /\ cur \in Message \cup {NoMessage}
    /\ cpc \notin {"read", "stopped"} => cur \in Message
    /\ cpc \notin {"read", "stopped", "note", "forward"} => cur \in CallMessage
    /\ verdict.deny \in BOOLEAN

ServerTypeOK ==
    /\ spc \in {"read", "ready", "deliver", "stopped"}
    /\ rsp \in Reply \cup {NoMessage}
    /\ spc = "deliver" => rsp \in Reply

SharedTypeOK ==
    /\ pending \subseteq Nat /\ lists \subseteq Nat
    /\ probed \in BOOLEAN /\ pinsReady \in BOOLEAN

WireTypeOK ==
    /\ atServer \subseteq Message \cup {ProbeMessage}
    /\ replies \in Seq(Reply)
    /\ serverUp \in BOOLEAN /\ stdinOpen \in BOOLEAN /\ clientUp \in BOOLEAN
    /\ stalled \subseteq {"server", "client"}
    /\ main \in {"running", "grace", "ended", "expired"}

HistoryTypeOK ==
    /\ sent \in Seq(CallMessage)
    /\ refused \subseteq CallMessage
    /\ shown \in [Tool -> Def \cup {NoDef}]
    /\ cleared \subseteq Nat

TypeOK == /\ EngineTypeOK /\ ClientTypeOK /\ ServerTypeOK
          /\ SharedTypeOK /\ WireTypeOK /\ HistoryTypeOK

-----------------------------------------------------------------------------
(***************************************************************************)
(* The wall.                                                               *)
(***************************************************************************)

\* The labels that reached scope s with the first n calls the server got.
Brought(n, s) ==
    UNION {Stains(Labels(sent[i])) : i \in {j \in 1..n : sent[j].scope = s}}

\* The call at position n breaks a rule, given the calls before it.
Breaks(n) ==
    \E r \in DOMAIN Rules :
        /\ Rules[r].sink \cap Labels(sent[n]) # {}
        /\ Rules[r].after \subseteq Brought(n - 1, sent[n].scope)

\* In enforce mode the server never gets a call that a rule forbids after the
\* calls it got before in that scope, however the client pipelines them and
\* whatever has been answered (flow.Record: stain on release).
NoForbiddenFlow == Enforced => \A n \in DOMAIN sent : ~Breaks(n)

ForbiddenCallsAudited ==
    \A n \in DOMAIN sent :
        Breaks(n) => [kind |-> "denied", id |-> sent[n].id] \in audit

RefusalsAudited ==
    \A d \in delivered :
        d.form = "denial" => [kind |-> "denied", id |-> d.id] \in audit

\* In any mode, a call the wall objects to leaves a "denied" record before anyone
\* learns what became of it: before the server gets a call that breaks a rule,
\* if observe mode lets it through, and before the client gets a denial
\* (screenCall: the log shows what the policy would have blocked).
ViolationsAudited == ForbiddenCallsAudited /\ RefusalsAudited

\* The calls that were recorded: the ones the server got, and the one the pump
\* has recorded and not yet written.
Recorded ==
    IF cpc \in {"log", "remember"} \/ (cpc = "forward" /\ cur.kind = "call")
    THEN Append(sent, cur) ELSE sent

\* How many of the first n calls recorded are of scope s.
Number(n, s) == Cardinality({j \in 1..n : Recorded[j].scope = s})

\* The calls that bring label l into scope s, by position.
Bringing(s, l) ==
    {n \in DOMAIN Recorded : /\ Recorded[n].scope = s
                             /\ l \in Stains(Labels(Recorded[n]))}

\* While the pump runs, the evidence for a label names the first call of the
\* scope that brought it: its tool and its number among the calls of the scope
\* (flow.Evidence: "the call that first brought a label into the scope").
EvidenceIsFirst ==
    cpc # "stopped" =>
      \A s \in Scope, l \in Label :
        LET brings == Bringing(s, l)
        IN  IF brings = {} THEN seen[s][l] = NoEvidence
            ELSE \E n \in brings :
                   /\ \A m \in brings : n <= m
                   /\ seen[s][l] = [source |-> Recorded[n].tool, call |-> Number(n, s)]

\* What can refuse a call besides a flow rule.
Restricted ==
    [t \in Tool |->
       [a \in Arg |->
          LET tp == Lookup(This, t)
          IN  \/ ~Known(This, t) /\ UnknownTools = ActionDeny
              \/ tp.deny
              \/ PinsGate(This, t)
              \/ BreaksArgs(tp, a)]]

EventOf(m) == [id |-> m.id, scope |-> m.scope, labels |-> Labels(m), exit |-> TRUE,
               restricted |-> Restricted[m.tool][m.arg]]

Wall == INSTANCE FlowWall WITH
    released <- [i \in DOMAIN sent |-> EventOf(sent[i])],
    refused  <- {EventOf(m) : m \in refused}

\* The calls the server got and the calls refused are what FlowWall allows.
ImplementsFlowWall == Wall!Spec

-----------------------------------------------------------------------------
(***************************************************************************)
(* Pins.                                                                   *)
(***************************************************************************)

\* A call of a pinned tool reaches the server only if, at some time since the
\* pump read it, the definition the server had shown last matched the pin: not
\* if it was never shown, not if it has changed since (NeedsPinCheck, Decide).
PinnedCallsCleared ==
    Enforced =>
      \A n \in DOMAIN sent : PinsGate(This, sent[n].tool) => sent[n].id \in cleared

\* No definition that fails its pin reaches the client in a tool list, whatever
\* it listed before and however the answers overtake each other
\* (screenToolList: a poisoned description never reaches the model).
ListingsScreened ==
    PinMismatch = ActionDeny =>
      \A d \in {e \in delivered : e.form = "tools"} :
        \A t \in DOMAIN d.listing :
          Pinned(This, t) => Matches(This, t, d.listing[t])

-----------------------------------------------------------------------------
(***************************************************************************)
(* Answers and records.                                                    *)
(***************************************************************************)

\* Every request has one answer at most, the wall's refusal or the server's
\* reply, and toolwall's own request never shows (pumpFromServer).
OneAnswer ==
    /\ \A d, e \in delivered : d.id = e.id => d = e
    /\ \A d \in delivered : d.id \in 1 .. nread
    /\ \A m \in refused, n \in DOMAIN sent : m.id # sent[n].id

\* The output of a tool never reaches the client without a record of the
\* call and of its result (observeResponse; remember comes before the write).
OutputAudited ==
    \A d \in delivered, n \in DOMAIN sent :
        d.id = sent[n].id /\ d.form = "result" =>
            /\ [kind |-> "result", id |-> d.id] \in audit
            /\ \E k \in {"call", "denied"} : [kind |-> k, id |-> d.id] \in audit

-----------------------------------------------------------------------------
(***************************************************************************)
(* Progress, under FairSpec.                                               *)
(***************************************************************************)

\* The client pump is in a write to a peer that does not read.
HeldWriting ==
    \/ cpc = "probe" /\ ~probed /\ "server" \in stalled
    \/ cpc = "forward" /\ "server" \in stalled
    \/ cpc = "deny" /\ "client" \in stalled

\* Nothing but a peer that does not read holds the client pump on a message:
\* the probe is answered, or fails, or times out (verifyPins).  While the write
\* of the probe, of a denial or of the message itself is held, it waits.
EveryMessageHandled ==
    (cpc \notin {"read", "stopped"})
        ~> (cpc \in {"read", "stopped"} \/ ~Running \/ HeldWriting)

\* Once the client pump has found that the client hung up, Run returns, even if
\* the server never does and a write to the client is held (shutdownGrace).
HangUpEndsRun == (cpc = "stopped") ~> ~Running

\* Replies to calls in flight still belong to the client: one the server has
\* written is delivered unless the grace period runs out, the client leaves, or
\* the client does not read and a write to it is held.
RepliesDelivered ==
    \A i \in Id :
        (\/ \E n \in DOMAIN replies : replies[n].id = i
         \/ spc = "deliver" /\ rsp.id = i)
            ~> \/ \E d \in delivered : d.id = i
               \/ ~clientUp
               \/ main = "expired"
               \/ spc = "deliver" /\ "client" \in stalled
=============================================================================

-------------------------------- MODULE Proxy --------------------------------
(***************************************************************************)
(* internal/proxy: `toolwall run`, the wall between one client and one     *)
(* server.  Two goroutines run at once.  The client pump reads a message,  *)
(* screens it if it is a tools/call, and writes it to the server; the      *)
(* server pump reads a message, screens it if it is a tool list, and       *)
(* writes it to the client.  They share the engine, the maps `calls` and   *)
(* `lists`, and the channel pinsReady.  Run waits for either to stop.      *)
(*                                                                         *)
(* Each goroutine has a program counter, and a step of either is what it   *)
(* does between two points where the other can see the difference: every   *)
(* critical section, every write to a peer, every wait.                    *)
(*                                                                         *)
(* The client and the server are environment.  The client may send         *)
(* anything at any time and does not wait for answers; its request ids are *)
(* never reused, and here they count its messages.  The server may answer  *)
(* what it was sent in any order, late or never, advertise a different     *)
(* list of tools each time, and die.  Either may stop reading: its pipe    *)
(* fills, and whoever writes to it is held until it reads on or goes away. *)
(***************************************************************************)
EXTENDS FlowEngine

CONSTANTS
    This,           \* Options.Server: the id of the server being fronted
    Listing,        \* the tool lists the server may advertise
    MaxMessages,    \* bound: messages the client sends
    Sends,          \* bound: the kinds of message the client sends
    Faults,         \* bound: who may go away, and may a peer stop reading?
    ProbeId,        \* pinProbeID, the id of toolwall's own request
    NoMessage, NoDef

ASSUME ProxyAssumption ==
    /\ This \in Server \cup {NoServer}
    /\ MaxMessages \in Nat
    /\ Sends \subseteq {"call", "list", "other"}
    /\ Faults \subseteq {"server", "client", "stall"}
    /\ ProbeId \notin Nat
    /\ ~Offline
    /\ Listing \subseteq UNION {[S -> Def] : S \in SUBSET Tool}
    /\ NoDef \notin Def

VARIABLES
    nread,          \* messages read from the client so far
    cpc,            \* where the client pump is
    cur,            \* the message it is working on
    verdict,        \* screenCall's d
    spc,            \* where the server pump is
    rsp,            \* the message it is working on
    pending,        \* p.calls: calls forwarded and not answered
    lists,          \* p.lists: tools/list requests forwarded and not answered
    probed,         \* has probeOnce fired?
    pinsReady,      \* is the channel closed?
    atServer,       \* requests on their way to the server or being served
    replies,        \* the server's replies on their way to the server pump
    serverUp,       \* is the server process running?
    stdinOpen,      \* is the server's stdin open?
    clientUp,       \* will the client ever read what toolwall writes?
    stalled,        \* the peers that have stopped reading, their pipe full
    main            \* what Run is doing

\* History: nothing in the program reads these.
VARIABLES
    sent,           \* the tool calls the server got, in order
    refused,        \* the calls refused
    delivered,      \* what was written to the client
    audit,          \* the records of the audit log
    shown,          \* shown[t]: the definition of t the wall saw last
    cleared         \* calls between whose reading and forwarding it matched once

clientVars  == <<nread, cpc, cur, verdict>>
serverVars  == <<spc, rsp>>
sharedVars  == <<pending, lists, probed, pinsReady>>
wireVars    == <<atServer, replies, serverUp, stdinOpen, clientUp, stalled, main>>
historyVars == <<sent, refused, delivered, audit, shown, cleared>>

vars == <<engineVars, clientVars, serverVars, sharedVars, wireVars, historyVars>>

-----------------------------------------------------------------------------
(***************************************************************************)
(* Messages.  "other" is every message the client pump forwards without a  *)
(* look: the other methods, notifications, responses, and a tools/call     *)
(* whose params do not decode.                                             *)
(***************************************************************************)
CallMessage  == [kind : {"call"}, id : Nat, scope : Scope, tool : Tool, arg : Arg]
PlainMessage == [kind : {"list", "other"}, id : Nat]
ProbeMessage == [kind |-> "list", id |-> ProbeId]
Message      == CallMessage \cup PlainMessage

\* A list of tools: some tools, each with a definition.
ToolList == UNION {[S -> Def] : S \in SUBSET Tool}

\* A reply: a result, a JSON-RPC error, or a request for more input.  Only a
\* tools/list result carries a listing.
Reply == [form : {"result", "error", "input_required"}, id : Nat \cup {ProbeId}]
           \cup [form : {"tools"}, id : Nat \cup {ProbeId}, listing : ToolList]

Labels(m) == Lookup(This, m.tool).labels

\* Does the definition of t seen last match its pin?
Current(t) == shown[t] # NoDef /\ Matches(This, t, shown[t])

Running == main \in {"running", "grace"}

Init ==
    /\ EngineInit
    /\ nread = 0 /\ cpc = "read" /\ cur = NoMessage /\ verdict = Allowed
    /\ spc = "read" /\ rsp = NoMessage
    /\ pending = {} /\ lists = {}
    /\ probed = FALSE /\ pinsReady = FALSE
    /\ atServer = {} /\ replies = <<>>
    /\ serverUp = TRUE /\ stdinOpen = TRUE /\ clientUp = TRUE /\ stalled = {}
    /\ main = "running"
    /\ sent = <<>> /\ refused = {} /\ delivered = {} /\ audit = {}
    /\ shown = [t \in Tool |-> NoDef]
    /\ cleared = {}

-----------------------------------------------------------------------------
(***************************************************************************)
(* The client pump: pumpFromClient, screenCall, verifyPins.                *)
(***************************************************************************)
ReadMessage(m) ==
    /\ Running /\ cpc = "read" /\ nread < MaxMessages
    /\ m.kind \in Sends
    /\ nread' = nread + 1
    /\ cur' = m
    /\ UNCHANGED <<engineVars, verdict, serverVars, sharedVars, wireVars,
                   sent, refused, delivered, audit, shown>>

\* A tools/call: screenCall begins, and a pinned tool nobody has seen the
\* definition of yet waits for the probe.
ReadCall(s, t, a) ==
    /\ ReadMessage([kind |-> "call", id |-> nread + 1, scope |-> s, tool |-> t, arg |-> a])
    /\ cpc' = IF NeedsPinCheck(This, t) THEN "probe" ELSE "decide"
    /\ cleared' = IF Current(t) THEN cleared \cup {nread + 1} ELSE cleared

ReadListScreened_Mutant ==
    /\ ReadMessage([kind |-> "list", id |-> nread + 1])
    /\ cpc' = "decide"
    /\ UNCHANGED cleared

ReadList ==
    /\ ReadMessage([kind |-> "list", id |-> nread + 1])
    /\ cpc' = "note"
    /\ UNCHANGED cleared

ReadOther ==
    /\ ReadMessage([kind |-> "other", id |-> nread + 1])
    /\ cpc' = "forward"
    /\ UNCHANGED cleared

\* The client closed its end.
ReadEOF ==
    /\ Running /\ cpc = "read" /\ "client" \in Faults
    /\ cpc' = "stopped"
    /\ UNCHANGED <<engineVars, nread, cur, verdict, serverVars, sharedVars,
                   wireVars, historyVars>>

\* A step of the client pump that only goes to another point.
ClientGoes(from, to) ==
    /\ Running /\ cpc = from
    /\ cpc' = to

\* probeOnce: the first call that gets here asks for the tool list.  If the
\* server cannot be written to, nobody will answer, and no one should wait.
\* The request is written before the timer starts: no timeout ends the write.
SendProbe ==
    /\ ClientGoes("probe", "wait")
    /\ probed \/ "server" \notin stalled
    /\ probed' = TRUE
    /\ atServer' = IF ~probed /\ serverUp THEN atServer \cup {ProbeMessage} ELSE atServer
    /\ pinsReady' = (pinsReady \/ (~probed /\ ~serverUp))
    /\ UNCHANGED <<engineVars, nread, cur, verdict, serverVars, pending, lists,
                   replies, serverUp, stdinOpen, clientUp, stalled, main, historyVars>>

PinsChecked ==
    /\ ClientGoes("wait", "decide")
    /\ pinsReady
    /\ UNCHANGED <<engineVars, nread, cur, verdict, serverVars, sharedVars,
                   wireVars, historyVars>>

PinsNeverTimeOut_Mutant == FALSE

\* pinCheckTimeout: the timer may win even when the answer is there.
PinsTimedOut ==
    /\ ClientGoes("wait", "decide")
    /\ UNCHANGED <<engineVars, nread, cur, verdict, serverVars, sharedVars,
                   wireVars, historyVars>>

JudgeCall ==
    LET d == Decide(cur.scope, This, cur.tool, cur.arg)
    IN  /\ ClientGoes("decide", IF Blocked(d) THEN "log denial" ELSE "record")
        /\ verdict' = d
        /\ refused' = IF Blocked(d) THEN refused \cup {cur} ELSE refused
        /\ UNCHANGED <<engineVars, nread, cur, serverVars, sharedVars, wireVars,
                       sent, delivered, audit, shown, cleared>>

DenyUnlogged_Mutant ==
    /\ ClientGoes("log denial", "deny")
    /\ UNCHANGED <<engineVars, nread, cur, verdict, serverVars, sharedVars, wireVars,
                   historyVars>>

LogDenial ==
    /\ ClientGoes("log denial", "deny")
    /\ audit' = audit \cup {[kind |-> "denied", id |-> cur.id]}
    /\ UNCHANGED <<engineVars, nread, cur, verdict, serverVars, sharedVars, wireVars,
                   sent, refused, delivered, shown, cleared>>

\* The denial goes to the client with the evidence in it; if the client cannot
\* be written to, the pump stops.
WriteDenial ==
    /\ ClientGoes("deny", IF clientUp THEN "read" ELSE "stopped")
    /\ "client" \notin stalled
    /\ delivered' = IF clientUp
                    THEN delivered \cup {[form |-> "denial", id |-> cur.id,
                                          because |-> verdict.because]}
                    ELSE delivered
    /\ cur' = NoMessage /\ verdict' = Allowed
    /\ UNCHANGED <<engineVars, nread, serverVars, sharedVars, wireVars,
                   sent, refused, audit, shown, cleared>>

RecordOnResult_Mutant ==
    /\ ClientGoes("record", "log")
    /\ UNCHANGED <<engineVars, nread, cur, verdict, serverVars, sharedVars, wireVars,
                   historyVars>>

\* The scope is stained before the call leaves.
RecordCall ==
    /\ ClientGoes("record", "log")
    /\ Record(cur.scope, This, cur.tool)
    /\ UNCHANGED <<nread, cur, verdict, serverVars, sharedVars, wireVars, historyVars>>

\* A call that observe mode lets through is logged as denied.
LogCall ==
    /\ ClientGoes("log", "remember")
    /\ audit' = audit \cup {[kind |-> IF verdict.deny THEN "denied" ELSE "call",
                             id |-> cur.id]}
    /\ UNCHANGED <<engineVars, nread, cur, verdict, serverVars, sharedVars, wireVars,
                   sent, refused, delivered, shown, cleared>>

ForgetCall_Mutant ==
    /\ ClientGoes("remember", "forward")
    /\ UNCHANGED <<engineVars, nread, cur, verdict, serverVars, sharedVars,
                   wireVars, historyVars>>

Remember ==
    /\ ClientGoes("remember", "forward")
    /\ pending' = pending \cup {cur.id}
    /\ UNCHANGED <<engineVars, nread, cur, verdict, serverVars, lists, probed,
                   pinsReady, wireVars, historyVars>>

ForgetList_Mutant ==
    /\ ClientGoes("note", "forward")
    /\ UNCHANGED <<engineVars, nread, cur, verdict, serverVars, sharedVars,
                   wireVars, historyVars>>

\* p.lists is set before the request leaves.
NoteList ==
    /\ ClientGoes("note", "forward")
    /\ lists' = lists \cup {cur.id}
    /\ UNCHANGED <<engineVars, nread, cur, verdict, serverVars, pending, probed,
                   pinsReady, wireVars, historyVars>>

\* server.Write: a dead server stops the pump, one that does not read holds it.
Forward ==
    /\ ClientGoes("forward", IF serverUp THEN "read" ELSE "stopped")
    /\ "server" \notin stalled
    /\ atServer' = IF serverUp THEN atServer \cup {cur} ELSE atServer
    /\ sent' = IF serverUp /\ cur.kind = "call"
               THEN Append(sent, cur) ELSE sent
    /\ cur' = NoMessage /\ verdict' = Allowed
    /\ UNCHANGED <<engineVars, nread, serverVars, sharedVars,
                   replies, serverUp, stdinOpen, clientUp, stalled, main,
                   refused, delivered, audit, shown, cleared>>

-----------------------------------------------------------------------------
(***************************************************************************)
(* The server pump: pumpFromServer, observeResponse, screenToolList.       *)
(***************************************************************************)
IsListing(r) == r.form = "tools"

\* The part of the reply the client may see.
Screened(r) ==
    IF IsListing(r) THEN [r EXCEPT !.listing = Kept(This, r.listing)] ELSE r

\* Is the client pump working on a call of this tool?
Screening(t) ==
    /\ cpc \notin {"read", "stopped"}
    /\ cur.kind = "call" /\ cur.tool = t

\* screenToolList: every tool is checked against its pin; a tool the listing
\* leaves out keeps the state it had.
ScreenToolList(L) ==
    /\ CheckPins(This, L)
    /\ UNCHANGED <<calls, seen>>
    /\ shown' = [t \in Tool |-> IF t \in DOMAIN L THEN L[t] ELSE shown[t]]
    /\ cleared' = IF \E t \in DOMAIN L : Screening(t) /\ Matches(This, t, L[t])
                  THEN cleared \cup {cur.id} ELSE cleared

ScreenReply(r) ==
    IF IsListing(r) THEN ScreenToolList(r.listing)
    ELSE UNCHANGED <<engineVars, shown, cleared>>

TakeReply(to) ==
    /\ Running /\ spc = "read" /\ replies # <<>>
    /\ replies' = Tail(replies)
    /\ spc' = to
    /\ UNCHANGED <<clientVars, probed, pinsReady, atServer, serverUp, stdinOpen,
                   clientUp, stalled, main, sent, refused, delivered>>

ForwardProbeReply_Mutant ==
    /\ replies # <<>> /\ Head(replies).id = ProbeId
    /\ TakeReply("deliver")
    /\ rsp' = Head(replies)
    /\ ScreenReply(Head(replies))
    /\ UNCHANGED <<pending, lists, audit>>

\* toolwall's own request was answered: check the definitions, keep the answer.
TakeProbeReply ==
    /\ replies # <<>> /\ Head(replies).id = ProbeId
    /\ TakeReply("ready")
    /\ UNCHANGED rsp
    /\ ScreenReply(Head(replies))
    /\ UNCHANGED <<pending, lists, audit>>

ClosePinsReady ==
    /\ Running /\ spc = "ready"
    /\ pinsReady' = TRUE
    /\ spc' = "read"
    /\ UNCHANGED <<engineVars, clientVars, rsp, pending, lists, probed, wireVars,
                   historyVars>>

\* observeResponse: an answered call leaves a record, an answered list is
\* screened.  A call is looked for first.
ObserveReply ==
    LET r      == Head(replies)
        isCall == r.id \in pending
        isList == r.id \in lists
    IN  /\ replies # <<>> /\ r.id # ProbeId
        /\ TakeReply("deliver")
        /\ pending' = pending \ {r.id}
        /\ lists' = lists \ {r.id}
        /\ audit' = IF isCall /\ r.form \notin {"error", "input_required"}
                    THEN audit \cup {[kind |-> "result", id |-> r.id]}
                    ELSE audit
        /\ IF ~isCall /\ isList
             THEN ScreenReply(r) /\ rsp' = Screened(r)
             ELSE UNCHANGED <<engineVars, shown, cleared>> /\ rsp' = r

Deliver ==
    /\ Running /\ spc = "deliver"
    /\ "client" \notin stalled
    /\ spc' = IF clientUp THEN "read" ELSE "stopped"
    /\ delivered' = IF clientUp THEN delivered \cup {rsp} ELSE delivered
    /\ rsp' = NoMessage
    /\ UNCHANGED <<engineVars, clientVars, sharedVars, wireVars,
                   sent, refused, audit, shown, cleared>>

\* The end of the stream comes after everything the server wrote.
ServerEOF ==
    /\ Running /\ spc = "read" /\ replies = <<>> /\ ~serverUp
    /\ spc' = "stopped"
    /\ UNCHANGED <<engineVars, clientVars, rsp, sharedVars, wireVars, historyVars>>

-----------------------------------------------------------------------------
(***************************************************************************)
(* Run, once both pumps have been started.                                 *)
(***************************************************************************)
RunGoes(from, to) ==
    /\ main \in from
    /\ main' = to
    /\ UNCHANGED <<engineVars, clientVars, serverVars, sharedVars, atServer,
                   replies, serverUp, clientUp, stalled, historyVars>>

NoGrace_Mutant ==
    /\ cpc = "stopped"
    /\ RunGoes({"running"}, "ended")
    /\ stdinOpen' = FALSE

\* The client hung up: close the server's stdin, keep forwarding for a while.
ClientGone ==
    /\ cpc = "stopped"
    /\ RunGoes({"running"}, "grace")
    /\ stdinOpen' = FALSE

ServerGone ==
    /\ spc = "stopped"
    /\ RunGoes({"running", "grace"}, "ended")
    /\ UNCHANGED stdinOpen

WaitForServer_Mutant == FALSE

\* shutdownGrace ran out.
GraceOver ==
    /\ RunGoes({"grace"}, "expired")
    /\ UNCHANGED stdinOpen

-----------------------------------------------------------------------------
(***************************************************************************)
(* The peers, external to this code.                                       *)
(***************************************************************************)
Results(m) ==
    {[form |-> "error", id |-> m.id]}
      \cup CASE m.kind = "call"  -> {[form |-> f, id |-> m.id] : f \in {"result", "input_required"}}
             [] m.kind = "list"  -> {[form |-> "tools", id |-> m.id, listing |-> L] : L \in Listing}
             [] m.kind = "other" -> {[form |-> "result", id |-> m.id]}

Answer(m) ==
    /\ Running /\ serverUp /\ m \in atServer
    /\ atServer' = atServer \ {m}
    /\ \E r \in Results(m) : replies' = Append(replies, r)
    /\ UNCHANGED <<engineVars, clientVars, serverVars, sharedVars, serverUp, stdinOpen,
                   clientUp, stalled, main, historyVars>>

\* The server exits: by itself, or killed when the context is cancelled.  A
\* write it was holding fails.
ServerExits ==
    /\ Running /\ serverUp /\ "server" \in Faults
    /\ serverUp' = FALSE
    /\ stalled' = stalled \ {"server"}
    /\ UNCHANGED <<engineVars, clientVars, serverVars, sharedVars, atServer, replies,
                   stdinOpen, clientUp, main, historyVars>>

\* The client stops reading: what toolwall writes to it fails from now on.
ClientLeaves ==
    /\ Running /\ clientUp /\ "client" \in Faults
    /\ clientUp' = FALSE
    /\ stalled' = stalled \ {"client"}
    /\ UNCHANGED <<engineVars, clientVars, serverVars, sharedVars, atServer, replies,
                   serverUp, stdinOpen, main, historyVars>>

\* A peer stops reading, and its pipe has no room for the next message.
StopsReading(p) ==
    /\ Running /\ "stall" \in Faults
    /\ p \notin stalled /\ (IF p = "server" THEN serverUp ELSE clientUp)
    /\ stalled' = stalled \cup {p}
    /\ UNCHANGED <<engineVars, clientVars, serverVars, sharedVars, atServer, replies,
                   serverUp, stdinOpen, clientUp, main, historyVars>>

ReadsOn(p) ==
    /\ Running /\ p \in stalled
    /\ stalled' = stalled \ {p}
    /\ UNCHANGED <<engineVars, clientVars, serverVars, sharedVars, atServer, replies,
                   serverUp, stdinOpen, clientUp, main, historyVars>>

-----------------------------------------------------------------------------
ClientReads ==
    \/ \E s \in Scope, t \in Tool, a \in Arg : ReadCall(s, t, a)
    \/ ReadList
    \/ ReadOther
    \/ ReadEOF

ClientPump ==
    \/ SendProbe
    \/ PinsChecked
    \/ JudgeCall
    \/ LogDenial
    \/ WriteDenial
    \/ RecordCall
    \/ LogCall
    \/ Remember
    \/ NoteList
    \/ Forward

ServerPump ==
    \/ TakeProbeReply
    \/ ClosePinsReady
    \/ ObserveReply
    \/ Deliver
    \/ ServerEOF

RunWaits == ClientGone \/ ServerGone \/ GraceOver

Peers ==
    \/ \E m \in atServer : Answer(m)
    \/ ServerExits
    \/ ClientLeaves
    \/ \E p \in {"server", "client"} : StopsReading(p) \/ ReadsOn(p)

\* Run has returned, or nobody has anything left to do within the bounds.
Terminated ==
    /\ \/ ~Running
       \/ cpc = "read" /\ nread = MaxMessages /\ "client" \notin Faults
    /\ UNCHANGED vars

Next ==
    \/ ClientReads
    \/ ClientPump
    \/ PinsTimedOut
    \/ ServerPump
    \/ RunWaits
    \/ Peers
    \/ Terminated

Spec == Init /\ [][Next]_vars

\* Goroutines that can run do run, and timers fire.  Nothing makes a peer send,
\* answer, read or exit: a write to a peer that does not read may last for ever.
Fairness ==
    /\ WF_vars(ClientPump)
    /\ WF_vars(PinsTimedOut)
    /\ WF_vars(ServerPump)
    /\ WF_vars(ClientGone)
    /\ WF_vars(ServerGone)
    /\ WF_vars(GraceOver)

FairSpec == Spec /\ Fairness
=============================================================================

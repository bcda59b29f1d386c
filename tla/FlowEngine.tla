----------------------------- MODULE FlowEngine -----------------------------
(***************************************************************************)
(* internal/flow: what each scope has read, what is known of each pinned   *)
(* tool, and the verdict on a call.  The engine is a library: it has state *)
(* and operations, and no control of its own.  Proxy and Gateway, which    *)
(* call it, extend this module and decide when each operation runs.        *)
(* A definition whose name ends in _Mutant is a wrong version of the one   *)
(* after it, and is used nowhere in the specification.                     *)
(*                                                                         *)
(* Engine.scope creates a scope on first sight and never forgets one, so a *)
(* scope that was not created yet is the same as an empty one, and the map *)
(* of scopes is total here.  A pin without an entry is "unchecked".        *)
(***************************************************************************)
EXTENDS Policy

CONSTANTS
    Scope,          \* scope ids
    NoEvidence,     \* a label the scope has not seen
    Offline         \* TRUE only for the simulation behind `explain`

ASSUME EngineAssumption ==
    /\ Offline \in BOOLEAN
    /\ NoEvidence \notin [source : Tool \cup Uri, call : Nat]

VARIABLES
    pins,           \* pins[k]: what the last definition seen of k was
    calls,          \* calls[s]: the calls and resource reads of scope s
    seen            \* seen[s][l]: the call that brought label l into s

engineVars == <<pins, calls, seen>>

Evidence == [source : Tool \cup Uri, call : Nat]

EngineTypeOK ==
    /\ pins \in [Key -> {"unchecked", "ok", "mismatch"}]
    /\ calls \in [Scope -> Nat]
    /\ seen \in [Scope -> [Label -> Evidence \cup {NoEvidence}]]

EngineInit ==
    /\ pins = [k \in Key |-> "unchecked"]
    /\ calls = [s \in Scope |-> 0]
    /\ seen = [s \in Scope |-> [l \in Label |-> NoEvidence]]

-----------------------------------------------------------------------------
(***************************************************************************)
(* Pins.                                                                   *)
(***************************************************************************)
Pinned(server, tool) == Lookup(server, tool).digest # NoDigest

Matches(server, tool, def) ==
    Fingerprint[def] = Lookup(server, tool).digest

\* What CheckPin returns for one advertised definition.
PinAction(server, tool, def) ==
    IF Pinned(server, tool) /\ ~Matches(server, tool, def)
    THEN PinMismatch
    ELSE ActionAllow

\* The key without the server: servers with a tool of one name share its pin.
CheckPinsUnqualified_Mutant(server, listing) ==
    pins' = [k \in Key |->
               IF k[2] \in DOMAIN listing /\ Pinned(server, k[2])
               THEN IF Matches(server, k[2], listing[k[2]]) THEN "ok" ELSE "mismatch"
               ELSE pins[k]]

\* CheckPin on every tool of a listing, a function from the names a server
\* advertises to their definitions.  A tool without a digest leaves no entry.
CheckPins(server, listing) ==
    pins' = [k \in Key |->
               IF k[1] = server /\ k[2] \in DOMAIN listing /\ Pinned(server, k[2])
               THEN IF Matches(server, k[2], listing[k[2]]) THEN "ok" ELSE "mismatch"
               ELSE pins[k]]

\* The part of a listing that survives CheckPin.
Kept(server, listing) ==
    [t \in {u \in DOMAIN listing : PinAction(server, u, listing[u]) # ActionDeny}
        |-> listing[t]]

PinsGate(server, tool) == Pinned(server, tool) /\ PinMismatch = ActionDeny

NeedsPinCheck(server, tool) ==
    PinsGate(server, tool) /\ pins[<<server, tool>>] = "unchecked"

\* Does what is known of a pinned tool clear a call of it?
ClearsUnchecked_Mutant(pin) == pin # "mismatch"

Clears(pin) == pin = "ok"

-----------------------------------------------------------------------------
(***************************************************************************)
(* Verdicts.                                                               *)
(***************************************************************************)
Enforced == Mode = ModeEnforce

\* The labels the scope carries.
Carried(s) == {l \in Label : seen[s][l] # NoEvidence}

\* Any label of `after`, where the rule asks for all of them.
BrokenByAny_Mutant(s, labels) ==
    {i \in DOMAIN Rules : /\ Rules[i].sink \cap labels # {}
                          /\ Rules[i].after \cap Carried(s) # {}}

\* The rules, by position, that forbid a tool with these labels in scope s.
Broken(s, labels) ==
    {i \in DOMAIN Rules : /\ Rules[i].sink \cap labels # {}
                          /\ Rules[i].after \subseteq Carried(s)}

First(S) == CHOOSE i \in S : \A j \in S : i <= j

\* The engine's own rules, and those of the policy.
RuleName ==
    {"", "unknown-tool", "blocked-tool", "pin-unverified", "pin-mismatch", "argument"}
        \cup {Rules[i].name : i \in DOMAIN Rules}

Decision == [deny : BOOLEAN, rule : RuleName, because : SUBSET (Evidence \cup {NoEvidence})]

Denied(rule, because) == [deny |-> TRUE, rule |-> rule, because |-> because]

Allowed == [deny |-> FALSE, rule |-> "", because |-> {}]

\* The evidence a denial cites, one item for each label of the rule's `after`.
Because(s, i) == {seen[s][l] : l \in Rules[i].after}

Decide(s, server, tool, arg) ==
    LET tp     == Lookup(server, tool)
        broken == Broken(s, tp.labels)
        pin    == pins[<<server, tool>>]
    IN  IF ~Known(server, tool) /\ UnknownTools = ActionDeny
          THEN Denied("unknown-tool", {})
        ELSE IF tp.deny
          THEN Denied("blocked-tool", {})
        ELSE IF ~Offline /\ PinsGate(server, tool) /\ ~Clears(pin)
          THEN Denied(IF pin = "unchecked" THEN "pin-unverified" ELSE "pin-mismatch", {})
        ELSE IF BreaksArgs(tp, arg)
          THEN Denied("argument", {})
        ELSE IF broken # {}
          THEN Denied(Rules[First(broken)].name, Because(s, First(broken)))
        ELSE Allowed

\* Decision.Blocked
Blocked(decision) == decision.deny /\ Enforced

-----------------------------------------------------------------------------
(***************************************************************************)
(* Stains.  The call with number calls[s] + 1 brings every label but       *)
(* LabelSink that the scope does not carry yet.                            *)
(***************************************************************************)
Stains(labels) == labels \ {LabelSink}

StainMiscounts_Mutant(s, source, labels) ==
    /\ calls' = [calls EXCEPT ![s] = @ + 1]
    /\ seen' = [seen EXCEPT ![s] =
                  [l \in Label |->
                     IF l \in Stains(labels) /\ @[l] = NoEvidence
                     THEN [source |-> source, call |-> calls[s]]
                     ELSE @[l]]]
    /\ UNCHANGED pins

Stain(s, source, labels) ==
    /\ calls' = [calls EXCEPT ![s] = @ + 1]
    /\ seen' = [seen EXCEPT ![s] =
                  [l \in Label |->
                     IF l \in Stains(labels) /\ @[l] = NoEvidence
                     THEN [source |-> source, call |-> calls[s] + 1]
                     ELSE @[l]]]
    /\ UNCHANGED pins

Record(s, server, tool) == Stain(s, tool, Lookup(server, tool).labels)

RecordResource(s, uri) == Stain(s, uri, ResourceLabels(uri))
=============================================================================

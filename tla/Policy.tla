------------------------------- MODULE Policy -------------------------------
(***************************************************************************)
(* The policy file, after internal/policy has loaded it.  A policy never   *)
(* changes while toolwall runs, so its contents are constants, and what    *)
(* normalize and checkLabels reject at load time is assumed away here.     *)
(*                                                                         *)
(* Names are abstract.  A key of the `tools` map is the pair of a server   *)
(* and a tool; a bare key has NoServer for its server, which is also the   *)
(* server of a proxy started without a server id.  A tool's argument rules *)
(* are represented by the argument values they reject, a resource rule by  *)
(* the URIs it matches, a digest by an element of Digest.                  *)
(***************************************************************************)
EXTENDS Naturals, Sequences

CONSTANTS
    Server,         \* the server ids a policy may name
    NoServer,       \* the empty server id
    Tool,           \* tool names, without the server
    Uri,            \* resource URIs
    Arg,            \* argument values of a call
    Label,          \* every label, LabelSink among them
    Digest,         \* fingerprints
    NoDigest,       \* the digest of an entry that pins nothing
    Def,            \* tool definitions a server may advertise
    Fingerprint,    \* Fingerprint[d]: the digest of definition d
    Tools,          \* the `tools` map of the file: some keys to their entries
    Resources,      \* the `resources` list
    Mode, UnknownTools, PinMismatch,
    Rules           \* the `flow.deny` list, in the order of the file

ModeEnforce == "enforce"
ModeObserve == "observe"

ActionAllow == "allow"
ActionDeny  == "deny"
ActionWarn  == "warn"

LabelSensitive == "sensitive"
LabelUntrusted == "untrusted"
LabelSink      == "sink"

Key == (Server \cup {NoServer}) \X Tool

ToolPolicy == [labels      : SUBSET Label,
               digest      : Digest \cup {NoDigest},
               deny        : BOOLEAN,
               refusedArgs : SUBSET Arg]

Rule == [name : STRING, sink : SUBSET Label, after : SUBSET Label]

ResourceRule == [match : SUBSET Uri, labels : SUBSET Label]

-----------------------------------------------------------------------------
(***************************************************************************)
(* What a policy that Parse accepted satisfies.                            *)
(***************************************************************************)

\* checkLabels: an entry carries no label that neither the three built-in
\* labels nor any rule mentions.
UsedLabels ==
    {LabelSensitive, LabelUntrusted, LabelSink}
        \cup UNION {Rules[i].sink \cup Rules[i].after : i \in DOMAIN Rules}

ASSUME PolicyNames ==
    /\ NoServer \notin Server
    /\ NoDigest \notin Digest
    /\ UsedLabels \subseteq Label
    /\ Fingerprint \in [Def -> Digest]

ASSUME PolicyNormalized ==
    /\ Mode \in {ModeEnforce, ModeObserve}
    /\ UnknownTools \in {ActionAllow, ActionDeny, ActionWarn}
    /\ PinMismatch \in {ActionAllow, ActionDeny, ActionWarn}
    /\ Rules \in Seq(Rule)
    /\ Rules # <<>>      \* DefaultRules stand in for an empty list
    /\ \A i \in DOMAIN Rules : Rules[i].sink # {} /\ Rules[i].after # {}

ASSUME PolicyEntries ==
    /\ DOMAIN Tools \subseteq Key
    /\ \A k \in DOMAIN Tools : Tools[k] \in ToolPolicy
    /\ Resources \subseteq ResourceRule

ASSUME PolicyLabels ==
    /\ \A k \in DOMAIN Tools : Tools[k].labels \subseteq UsedLabels
    /\ \A r \in Resources : r.labels \subseteq UsedLabels

-----------------------------------------------------------------------------
\* The two flows a policy without rules of its own forbids.
DefaultRules ==
    << [name |-> "exfiltration",
        sink |-> {LabelSink}, after |-> {LabelSensitive}],
       [name |-> "injection-exfiltration",
        sink |-> {LabelSink}, after |-> {LabelUntrusted}] >>

\* The zero value Lookup returns beside `false`.
NoPolicy == [labels |-> {}, digest |-> NoDigest, deny |-> FALSE,
             refusedArgs |-> {}]

Qualified(server, tool) == server # NoServer /\ <<server, tool>> \in DOMAIN Tools

Known(server, tool) ==
    Qualified(server, tool) \/ <<NoServer, tool>> \in DOMAIN Tools

\* The qualified entry shadows the bare one.
Lookup(server, tool) ==
    IF Qualified(server, tool) THEN Tools[<<server, tool>>]
    ELSE IF Known(server, tool) THEN Tools[<<NoServer, tool>>]
    ELSE NoPolicy

\* The labels of every rule that matches the URI, together.
ResourceLabels(uri) ==
    UNION {r.labels : r \in {q \in Resources : uri \in q.match}}

\* Does a call with this argument value break the tool's argument rules?
BreaksArgs(tp, arg) == arg \in tp.refusedArgs
=============================================================================

-------------------------- MODULE FlowEngine_proofs --------------------------
(***************************************************************************)
(* Facts about the engine's operations, for any policy: what the proofs    *)
(* about Proxy and Gateway use of it.                                      *)
(***************************************************************************)
EXTENDS FlowEngine, FiniteSetTheorems, TLAPS

AnyServer == Server \cup {NoServer}

(***************************************************************************)
(* Lookup returns an entry of the file or the empty one.                   *)
(***************************************************************************)
LEMMA LookupType ==
  ASSUME NEW server, NEW tool
  PROVE  /\ Lookup(server, tool) \in ToolPolicy
         /\ Lookup(server, tool).labels \in SUBSET Label
<1>1. NoPolicy \in ToolPolicy
  BY DEF NoPolicy, ToolPolicy
<1>2. CASE Qualified(server, tool)
  BY <1>2, PolicyEntries DEF Lookup, Qualified, ToolPolicy
<1>3. CASE ~Qualified(server, tool) /\ Known(server, tool)
  BY <1>3, PolicyEntries DEF Lookup, Known, ToolPolicy
<1>4. CASE ~Qualified(server, tool) /\ ~Known(server, tool)
  BY <1>1, <1>4 DEF Lookup, ToolPolicy
<1>. QED
  BY <1>2, <1>3, <1>4

LEMMA ResourceLabelsType ==
  ASSUME NEW uri
  PROVE  ResourceLabels(uri) \in SUBSET Label
BY PolicyEntries DEF ResourceLabels, ResourceRule

(***************************************************************************)
(* The engine starts with nothing read and nothing checked.                *)
(***************************************************************************)
LEMMA EngineInitFacts ==
  ASSUME EngineInit
  PROVE  /\ EngineTypeOK
         /\ \A s \in Scope : Carried(s) = {}
<1>1. EngineTypeOK
  BY DEF EngineInit, EngineTypeOK
<1>. QED
  BY <1>1 DEF EngineInit, Carried

(***************************************************************************)
(* CheckPin sets the pins of one server's tools and touches no scope.      *)
(***************************************************************************)
LEMMA CheckPinsFacts ==
  ASSUME EngineTypeOK, NEW server \in AnyServer, NEW L,
         CheckPins(server, L), UNCHANGED <<calls, seen>>
  PROVE  /\ EngineTypeOK'
         /\ \A s : Carried(s)' = Carried(s)
         /\ \A t \in Tool :
              pins'[<<server, t>>] =
                IF t \in DOMAIN L /\ Pinned(server, t)
                THEN IF Matches(server, t, L[t]) THEN "ok" ELSE "mismatch"
                ELSE pins[<<server, t>>]
<1>1. pins' \in [Key -> {"unchecked", "ok", "mismatch"}]
  BY DEF CheckPins, EngineTypeOK
<1>2. \A t \in Tool : <<server, t>> \in Key
  BY DEF Key, AnyServer
<1>3. \A t \in Tool :
        pins'[<<server, t>>] =
          IF t \in DOMAIN L /\ Pinned(server, t)
          THEN IF Matches(server, t, L[t]) THEN "ok" ELSE "mismatch"
          ELSE pins[<<server, t>>]
  BY <1>2 DEF CheckPins
<1>. QED
  BY <1>1, <1>3 DEF EngineTypeOK, Carried

(***************************************************************************)
(* A stain adds the labels to the scope it is for and to no other, and     *)
(* leaves what was there as it was.                                        *)
(***************************************************************************)
LEMMA StainFacts ==
  ASSUME EngineTypeOK, NEW s \in Scope, NEW source \in Tool \cup Uri,
         NEW labels \in SUBSET Label, Stain(s, source, labels)
  PROVE  /\ EngineTypeOK'
         /\ Carried(s)' = Carried(s) \cup Stains(labels)
         /\ \A z \in Scope \ {s} : Carried(z)' = Carried(z)
         /\ \A z \in Scope, l \in Label :
              seen[z][l] # NoEvidence => seen'[z][l] = seen[z][l]
<1>. DEFINE new == [source |-> source, call |-> calls[s] + 1]
<1>1. new \in Evidence /\ calls' \in [Scope -> Nat]
  BY DEF Stain, EngineTypeOK, Evidence
<1>2. new # NoEvidence
  BY <1>1, EngineAssumption DEF Evidence
<1>3. seen'[s] = [l \in Label |-> IF l \in Stains(labels) /\ seen[s][l] = NoEvidence
                                  THEN new ELSE seen[s][l]]
  BY DEF Stain, EngineTypeOK
<1>4. \A z \in Scope \ {s} : seen'[z] = seen[z]
  BY DEF Stain, EngineTypeOK
<1>5. seen' \in [Scope -> [Label -> Evidence \cup {NoEvidence}]]
  <2>1. [l \in Label |-> IF l \in Stains(labels) /\ seen[s][l] = NoEvidence
                         THEN new ELSE seen[s][l]]
          \in [Label -> Evidence \cup {NoEvidence}]
    BY <1>1 DEF EngineTypeOK
  <2>. QED
    BY <2>1 DEF Stain, EngineTypeOK
<1>6. EngineTypeOK'
  BY <1>1, <1>5 DEF Stain, EngineTypeOK
<1>7. Carried(s)' = Carried(s) \cup Stains(labels)
  BY <1>2, <1>3 DEF Carried, Stains
<1>8. \A z \in Scope \ {s} : Carried(z)' = Carried(z)
  BY <1>4 DEF Carried
<1>9. \A z \in Scope, l \in Label :
        seen[z][l] # NoEvidence => seen'[z][l] = seen[z][l]
  BY <1>3, <1>4
<1>. QED
  BY <1>6, <1>7, <1>8, <1>9

(***************************************************************************)
(* A stain is one more call of its scope, and the evidence for a label     *)
(* that is new to the scope names that call.                               *)
(***************************************************************************)
LEMMA StainEvidence ==
  ASSUME EngineTypeOK, NEW s \in Scope, NEW source, NEW labels, Stain(s, source, labels)
  PROVE  /\ calls'[s] = calls[s] + 1
         /\ \A z \in Scope \ {s} : calls'[z] = calls[z] /\ seen'[z] = seen[z]
         /\ \A l \in Label :
              seen'[s][l] = IF l \in Stains(labels) /\ seen[s][l] = NoEvidence
                            THEN [source |-> source, call |-> calls[s] + 1]
                            ELSE seen[s][l]
<1>1. seen'[s] = [l \in Label |-> IF l \in Stains(labels) /\ seen[s][l] = NoEvidence
                                  THEN [source |-> source, call |-> calls[s] + 1]
                                  ELSE seen[s][l]]
  BY DEF Stain, EngineTypeOK
<1>2. calls'[s] = calls[s] + 1
  BY DEF Stain, EngineTypeOK
<1>3. \A z \in Scope \ {s} : calls'[z] = calls[z] /\ seen'[z] = seen[z]
  BY DEF Stain, EngineTypeOK
<1>. QED
  BY <1>1, <1>2, <1>3

(***************************************************************************)
(* First of a set of positions is its least member.  The initial segments  *)
(* below its members, ordered by strict inclusion, have a minimal one.     *)
(***************************************************************************)
LEMMA FirstIsLeast ==
  ASSUME NEW S \in SUBSET Nat, S # {}
  PROVE  First(S) \in S /\ \A j \in S : First(S) <= j
<1>. DEFINE R == StrictSubsetOrdering(Nat)
            T == {0 .. n : n \in S}
<1>1. T \subseteq FiniteSubsetsOf(Nat)
  <2>. SUFFICES ASSUME NEW n \in S PROVE 0 .. n \in FiniteSubsetsOf(Nat)
    OBVIOUS
  <2>1. n \in Int /\ 0 \in Int /\ 0 .. n \subseteq Nat
    OBVIOUS
  <2>2. IsFiniteSet(0 .. n)
    BY <2>1, FS_Interval
  <2>. QED
    BY <2>1, <2>2 DEF FiniteSubsetsOf
<1>2. IsWellFoundedOn(R, FiniteSubsetsOf(Nat))
  BY FS_StrictSubsetOrderingWellFounded
<1>3. T # {}
  OBVIOUS
<1>4. PICK x \in T : \A y \in T : ~ (<<y, x>> \in R)
  <2>. HIDE DEF R, T
  <2>. QED
    BY <1>1, <1>2, <1>3, WFMin
<1>5. PICK m \in S : x = 0 .. m
  OBVIOUS
<1>6. \A j \in S : m <= j
  <2>. SUFFICES ASSUME NEW j \in S, ~(m <= j) PROVE FALSE
    OBVIOUS
  <2>1. m \in Nat /\ j \in Nat /\ j < m
    OBVIOUS
  <2>2. 0 .. j \subseteq 0 .. m /\ 0 .. j # 0 .. m
    <3>1. m \in 0 .. m /\ m \notin 0 .. j
      BY <2>1
    <3>. QED
      BY <2>1, <3>1
  <2>3. <<0 .. j, 0 .. m>> \in R
    BY <2>1, <2>2 DEF StrictSubsetOrdering
  <2>. QED
    BY <1>4, <1>5, <2>3
<1>7. \E i \in S : \A j \in S : i <= j
  BY <1>6
<1>. QED
  BY <1>7 DEF First

(***************************************************************************)
(* In enforce mode a call that is not blocked breaks no rule, and if its   *)
(* tool is pinned the pin holds.                                           *)
(***************************************************************************)
LEMMA DecideFacts ==
  ASSUME ~Offline, Enforced, NEW s, NEW server, NEW tool, NEW arg,
         ~Blocked(Decide(s, server, tool, arg))
  PROVE  /\ Broken(s, Lookup(server, tool).labels) = {}
         /\ PinsGate(server, tool) => pins[<<server, tool>>] = "ok"
BY DEF Decide, Blocked, Denied, Allowed, Clears

(***************************************************************************)
(* A call is denied if it breaks a rule, and only for a rule it breaks or  *)
(* for what the policy says of the tool, its pin or its arguments.         *)
(***************************************************************************)
LEMMA DecideCause ==
  ASSUME NEW s, NEW server, NEW tool, NEW arg
  PROVE  /\ Broken(s, Lookup(server, tool).labels) # {} => Decide(s, server, tool, arg).deny
         /\ Decide(s, server, tool, arg).deny =>
              \/ ~Known(server, tool) /\ UnknownTools = ActionDeny
              \/ Lookup(server, tool).deny
              \/ PinsGate(server, tool)
              \/ BreaksArgs(Lookup(server, tool), arg)
              \/ Broken(s, Lookup(server, tool).labels) # {}
BY DEF Decide, Denied, Allowed

(***************************************************************************)
(* A verdict is a record whose `deny` says what the two cases say.         *)
(***************************************************************************)
LEMMA DecideType ==
  ASSUME NEW s, NEW server, NEW tool, NEW arg
  PROVE  Decide(s, server, tool, arg).deny \in BOOLEAN
BY DEF Decide, Denied, Allowed

(***************************************************************************)
(* What it cites comes from the scope, and its rule is one of the policy's *)
(* or one of the engine's own.                                             *)
(***************************************************************************)
LEMMA AllowedType == Allowed \in Decision
BY DEF Allowed, Decision, RuleName

LEMMA DecisionType ==
  ASSUME EngineTypeOK, NEW s \in Scope, NEW server, NEW tool, NEW arg
  PROVE  Decide(s, server, tool, arg) \in Decision
<1>. DEFINE broken == Broken(s, Lookup(server, tool).labels)
<1>1. \A name \in RuleName : Denied(name, {}) \in Decision
  BY DEF Denied, Decision
<1>2. ASSUME broken # {}
      PROVE  Denied(Rules[First(broken)].name, Because(s, First(broken))) \in Decision
  <2>1. DOMAIN Rules \subseteq Nat /\ \A i \in DOMAIN Rules : Rules[i] \in Rule
    BY PolicyNormalized
  <2>2. broken \subseteq DOMAIN Rules
    BY DEF Broken
  <2>3. First(broken) \in DOMAIN Rules
    BY <1>2, <2>1, <2>2, FirstIsLeast
  <2>4. Rules[First(broken)].name \in RuleName /\ Rules[First(broken)].after \subseteq Label
    BY <2>1, <2>3 DEF Rule, RuleName
  <2>5. Because(s, First(broken)) \subseteq Evidence \cup {NoEvidence}
    BY <2>4 DEF Because, EngineTypeOK
  <2>. QED
    BY <2>4, <2>5 DEF Denied, Decision
<1>. QED
  BY <1>1, <1>2, AllowedType DEF Decide, RuleName

=============================================================================

---------------------------- MODULE FlowWall_proofs ----------------------------
(***************************************************************************)
(* What FlowWall promises, for any rules and any traffic: the traffic as a *)
(* whole leaks nothing, and no refusal is without a cause.  Proxy and      *)
(* Gateway implement FlowWall, and so inherit both.                        *)
(***************************************************************************)
EXTENDS FlowWall, TLAPS

wall == <<released, refused>>

IsTraffic == \E S : released \in Seq(S)

\* A step releases one event, or refuses one, or does neither.
LEMMA WallMoves ==
  ASSUME [Next]_wall
  PROVE  \/ UNCHANGED wall
         \/ \E e : Release(e)
         \/ \E e : Refuse(e)
BY DEF Next, wall

LEMMA TrafficGrows ==
  ASSUME IsTraffic, NEW e, released' = Append(released, e)
  PROVE  /\ IsTraffic'
         /\ Len(released) \in Nat /\ DOMAIN released = 1 .. Len(released)
         /\ DOMAIN released' = 1 .. Len(released) + 1
         /\ released'[Len(released) + 1] = e
         /\ \A i \in 1 .. Len(released) : released'[i] = released[i]
<1>1. PICK S : released \in Seq(S)
  BY DEF IsTraffic
<1>2. released \in Seq(S \cup {e})
  <2>1. released \in [1 .. Len(released) -> S] /\ Len(released) \in Nat
    BY <1>1
  <2>2. released \in [1 .. Len(released) -> S \cup {e}]
    BY <2>1
  <2>. QED
    BY <1>1, <2>1, <2>2
<1>3. released' \in Seq(S \cup {e})
  BY <1>2
<1>4. IsTraffic'
  BY <1>3 DEF IsTraffic
<1>. QED
  BY <1>1, <1>4

\* What a prefix of the traffic brought into a scope is not changed by what
\* follows, and what the whole brought is what it carries.
LEMMA BroughtStays ==
  ASSUME IsTraffic, NEW e, released' = Append(released, e),
         NEW n \in 0 .. Len(released), NEW s
  PROVE  BroughtBy(released', n, s) = BroughtBy(released, n, s)
<1>1. \A i \in 1 .. n : released'[i] = released[i]
  BY TrafficGrows
<1>. QED
  BY <1>1 DEF BroughtBy

LEMMA CarriedIsBrought ==
  ASSUME IsTraffic, NEW s
  PROVE  CarriedIn(s) = BroughtBy(released, Len(released), s)
<1>1. DOMAIN released = 1 .. Len(released)
  BY DEF IsTraffic
<1>. QED
  BY <1>1 DEF CarriedIn, BroughtBy

(***************************************************************************)
(* A scope never carries less than it did, so what was forbidden remains   *)
(* so.                                                                     *)
(***************************************************************************)
LEMMA ForbiddenStays ==
  ASSUME IsTraffic, [Next]_wall, NEW e, Forbidden(e)
  PROVE  Forbidden(e)'
<1>1. CASE UNCHANGED released
  BY <1>1 DEF Forbidden, CarriedIn
<1>2. ASSUME NEW x, Release(x)
      PROVE  Forbidden(e)'
  <2>1. \A i \in DOMAIN released : i \in DOMAIN released' /\ released'[i] = released[i]
    BY <1>2, TrafficGrows DEF Release
  <2>2. CarriedIn(e.scope) \subseteq CarriedIn(e.scope)'
    BY <2>1 DEF CarriedIn
  <2>. QED
    BY <2>2 DEF Forbidden
<1>. QED
  BY <1>1, <1>2, WallMoves DEF Refuse, wall

LEMMA LeaksStep ==
  ASSUME IsTraffic, NothingLeaks, [Next]_wall
  PROVE  IsTraffic' /\ NothingLeaks'
<1>1. CASE UNCHANGED released
  BY <1>1 DEF IsTraffic, NothingLeaks, BroughtBy
<1>2. ASSUME NEW e, Release(e)
      PROVE  IsTraffic' /\ NothingLeaks'
  <2>. DEFINE N == Len(released)
  <2>1. /\ IsTraffic' /\ N \in Nat /\ DOMAIN released = 1 .. N /\ DOMAIN released' = 1 .. N + 1
        /\ released'[N + 1] = e /\ \A i \in 1 .. N : released'[i] = released[i]
    BY <1>2, TrafficGrows DEF Release
  <2>. SUFFICES ASSUME Enforced, NEW n \in 1 .. N + 1, released'[n].exit,
                       NEW i \in DOMAIN Rules,
                       Rules[i].sink \cap released'[n].labels # {},
                       Rules[i].after \subseteq BroughtBy(released', n - 1, released'[n].scope)
                PROVE  FALSE
    BY <2>1 DEF NothingLeaks
  <2>2. n - 1 \in 0 .. N
    BY <2>1
  <2>3. \A s : BroughtBy(released', n - 1, s) = BroughtBy(released, n - 1, s)
    BY <1>2, <2>2, BroughtStays DEF Release
  <2>4. CASE n = N + 1
    <3>1. e.exit /\ Rules[i].sink \cap e.labels # {} /\ n - 1 = N /\ released'[n] = e
      BY <2>1, <2>4
    <3>2. CarriedIn(e.scope) = BroughtBy(released, n - 1, e.scope)
      BY <3>1, CarriedIsBrought
    <3>3. ~ Rules[i].after \subseteq CarriedIn(e.scope)
      BY <1>2, <3>1 DEF Release, Forbidden
    <3>. QED
      BY <2>3, <3>1, <3>2, <3>3
  <2>5. CASE n # N + 1
    <3>1. n \in DOMAIN released /\ released'[n] = released[n]
      BY <2>1, <2>5
    <3>. QED
      BY <2>3, <3>1 DEF NothingLeaks
  <2>. QED
    BY <2>4, <2>5
<1>. QED
  BY <1>1, <1>2, WallMoves DEF Refuse, wall

LEMMA RefusedStep ==
  ASSUME IsTraffic, NothingRefusedInVain, [Next]_wall
  PROVE  NothingRefusedInVain'
<1>1. \A e : Forbidden(e) => Forbidden(e)'
  BY ForbiddenStays
<1>2. CASE UNCHANGED refused
  BY <1>1, <1>2 DEF NothingRefusedInVain
<1>3. ASSUME NEW e, Refuse(e)
      PROVE  NothingRefusedInVain'
  BY <1>1, <1>3 DEF NothingRefusedInVain, Refuse
<1>. QED
  BY <1>2, <1>3, WallMoves DEF Release, wall

(***************************************************************************)
(* Whatever implements FlowWall lets nothing out that a rule forbids after *)
(* what went before, and refuses nothing without a cause that can be seen  *)
(* in the policy or in what it let out.                                    *)
(***************************************************************************)
THEOREM WallHolds == Spec => [](NothingLeaks /\ NothingRefusedInVain)
<1>1. Init => IsTraffic /\ NothingLeaks /\ NothingRefusedInVain
  <2>1. released = <<>> => released \in Seq({})
    OBVIOUS
  <2>. QED
    BY <2>1 DEF Init, IsTraffic, NothingLeaks, NothingRefusedInVain
<1>2. IsTraffic /\ NothingLeaks /\ NothingRefusedInVain /\ [Next]_wall
        => (IsTraffic /\ NothingLeaks /\ NothingRefusedInVain)'
  BY LeaksStep, RefusedStep
<1>. QED
  BY <1>1, <1>2, PTL DEF Spec, wall

=============================================================================

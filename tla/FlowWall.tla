------------------------------ MODULE FlowWall ------------------------------
(***************************************************************************)
(* What toolwall promises of the traffic that passes it, whatever the wall *)
(* keeps to decide: `released` is the traffic the servers got, in order,   *)
(* and `refused` what the client was told it may not send.                 *)
(*                                                                         *)
(* In enforce mode nothing is released that a rule forbids after what was  *)
(* released before it in its scope, and nothing is refused without cause:  *)
(* a call that no other part of the policy restricts is refused only when  *)
(* a rule forbids it after what really was released.  Labels enter with    *)
(* every event; only an exit (a tool call) is judged, a resource read is   *)
(* not.                                                                    *)
(***************************************************************************)
EXTENDS Sequences, Naturals

CONSTANTS LabelSink, Rules, Enforced

VARIABLES released, refused

CarriedIn(s) ==
    (UNION {released[i].labels : i \in {j \in DOMAIN released : released[j].scope = s}})
        \ {LabelSink}

Forbidden(e) ==
    \E i \in DOMAIN Rules : /\ Rules[i].sink \cap e.labels # {}
                            /\ Rules[i].after \subseteq CarriedIn(e.scope)

Init == released = <<>> /\ refused = {}

Release(e) ==
    /\ released' = Append(released, e)
    /\ UNCHANGED refused
    /\ Enforced /\ e.exit => ~Forbidden(e)

Refuse(e) ==
    /\ e \notin refused
    /\ refused' = refused \cup {e}
    /\ UNCHANGED released
    /\ Enforced
    /\ e.restricted \/ Forbidden(e)

\* The event of a step is what the step added.
Next ==
    \/ Len(released') > Len(released) /\ Release(released'[Len(released')])
    \/ \E e \in refused' : Refuse(e)

Spec == Init /\ [][Next]_<<released, refused>>

-----------------------------------------------------------------------------
(***************************************************************************)
(* What follows from it for the traffic as a whole.                        *)
(***************************************************************************)

\* The labels that the first n events of the traffic t brought into scope s.
BroughtBy(t, n, s) ==
    (UNION {t[i].labels : i \in {j \in 1 .. n : t[j].scope = s}}) \ {LabelSink}

\* In enforce mode no exit was released that a rule forbids after the events
\* released before it in its scope.
NothingLeaks ==
    Enforced =>
      \A n \in DOMAIN released : released[n].exit =>
        ~ \E i \in DOMAIN Rules :
            /\ Rules[i].sink \cap released[n].labels # {}
            /\ Rules[i].after \subseteq BroughtBy(released, n - 1, released[n].scope)

\* Whatever was refused was refused in enforce mode, and there still is a cause
\* for it in the policy or in what was released: no later traffic undoes it.
NothingRefusedInVain == \A e \in refused : Enforced /\ (e.restricted \/ Forbidden(e))
=============================================================================

------------------------------- MODULE Explain -------------------------------
(***************************************************************************)
(* cmd/toolwall, explain.go: `toolwall explain` judges a sequence of calls *)
(* without a server, by the engine in its offline form, in one scope.      *)
(* It is a function of the policy and the calls, and is written as one.    *)
(* The engine's operations are those of FlowEngine, for a scope that is    *)
(* given; parseSteps has split each argument of the command into the       *)
(* server, the tool and the call's arguments.                              *)
(***************************************************************************)
EXTENDS Policy

CONSTANT NoEvidence

ExplainScope == "explain"

\* A scope: what FlowEngine's calls and seen hold of it.
Fresh == [calls |-> 0, seen |-> [l \in Label |-> NoEvidence]]

\* flow.New(cfg).Offline(): no definition is ever seen, and none is asked for.
Engine(st) == INSTANCE FlowEngine WITH
    Offline <- TRUE,
    Scope   <- {ExplainScope},
    pins    <- [k \in Key |-> "unchecked"],
    calls   <- [s \in {ExplainScope} |-> st.calls],
    seen    <- [s \in {ExplainScope} |-> st.seen]

Verdict(st, step) == Engine(st)!Decide(ExplainScope, step.server, step.tool, step.arg)

IsBlocked(st, step) == Engine(st)!Blocked(Verdict(st, step))

\* The labels a step brings into the scope: what Record returns, if it runs.
Brought(st, step) ==
    IF IsBlocked(st, step) THEN {}
    ELSE {l \in Engine(st)!Stains(Lookup(step.server, step.tool).labels) :
             st.seen[l] = NoEvidence}

Recorded(st, step) ==
    [calls |-> st.calls + 1,
     seen  |-> [l \in Label |-> IF l \in Brought(st, step)
                                THEN [source |-> step.tool, call |-> st.calls + 1]
                                ELSE st.seen[l]]]

AfterAny_Mutant(st, step) ==
    [calls |-> st.calls + 1, seen |-> Recorded(st, step).seen]

\* A blocked call never reaches the server, so it never stains the scope.
After(st, step) == IF IsBlocked(st, step) THEN st ELSE Recorded(st, step)

\* The scope after the first k steps.
Scopes(steps) ==
    LET S[k \in 0 .. Len(steps)] == IF k = 0 THEN Fresh ELSE After(S[k - 1], steps[k])
    IN  S

\* The result of each step: its decision, and the labels it brought.
Simulate(steps) ==
    [k \in 1 .. Len(steps) |-> [decision |-> Verdict(Scopes(steps)[k - 1], steps[k]),
                                labels   |-> Brought(Scopes(steps)[k - 1], steps[k])]]
=============================================================================

----------------------------- MODULE MCPolicyFile -----------------------------
(***************************************************************************)
(* Instances of PolicyFile for TLC.                                        *)
(***************************************************************************)
EXTENDS PolicyFileProperties, TLC

\* Server "a" with tool "b.c" and server "a.b" with tool "c" share a key.
MCKeyOf ==
    [st \in (Server \cup {NoServer}) \X Tool |->
        CASE st[1] = NoServer -> st[2]
          [] st \in {<<"a", "b.c">>, <<"a.b", "c">>} -> "a.b.c"
          [] st = <<"a", "c">> -> "a.c"
          [] st = <<"a.b", "b.c">> -> "a.b.b.c"]
MCKeys == {MCKeyOf[st] : st \in (Server \cup {NoServer}) \X Tool}

Pinned(d) == [digest |-> d, reviewed |-> TRUE]
BarePin == [servers |-> {"a"}, tools |-> [k \in {"c"} |-> Pinned("#1")]]
Shared  == [servers |-> {"a", "a.b"}, tools |-> [k \in {"a.b.c", "a.c"} |-> Pinned("#1")]]
OneDraft == {BarePin}
MCDrafts == {Absent, Broken, BarePin, Shared}

Tools(T, d) == [t \in T |-> d]
MCExposed ==
    [s \in Server |-> {Tools({"c"}, "#1"), Tools({"c"}, "#2")}
                      \cup IF s = "a" THEN {Tools({"c", "b.c"}, "#1")} ELSE {}]

Alike == Permutations(Command)
=============================================================================

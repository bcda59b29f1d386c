----------------------------- MODULE MCGateway -----------------------------
(***************************************************************************)
(* An instance of Gateway for TLC: the two servers of the README, "hr"     *)
(* with private data and "mail" with a sink.  Both have a tool "read"; the *)
(* one of "hr" is pinned.  Both may list the resource "file".              *)
(***************************************************************************)
EXTENDS GatewayProperties

Entries ==
    [k \in { <<"hr", "read">>, <<"NoServer", "read">>, <<"mail", "send">> } |->
       [labels      |-> CASE k = <<"hr", "read">> -> {"sensitive"}
                          [] k = <<"NoServer", "read">> -> {}
                          [] k = <<"mail", "send">> -> {"sink"},
        digest      |-> IF k[2] = "read" THEN "#read" ELSE NoDigest,
        deny        |-> FALSE,
        refusedArgs |-> {}]]

ResourceRules == { [match |-> {"file"}, labels |-> {"untrusted", "sink"}] }

Fingerprints == [d \in {"good", "evil"} |-> IF d = "good" THEN "#read" ELSE "#evil"]

ByName == <<"hr", "mail">>

MailPrefix == [s \in Server |-> IF s = "mail" THEN {"file"} ELSE {}]

Read(d) == [t \in {"read"} |-> d]

ToolLists == [s \in Server |-> { Read("good"), Read("evil") }]

UriLists == [s \in Server |-> { {}, {"file"} }]
=============================================================================

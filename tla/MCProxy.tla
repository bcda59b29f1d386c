------------------------------ MODULE MCProxy ------------------------------
(***************************************************************************)
(* Instances of Proxy for TLC.  The policy of the flow runs has a rule of  *)
(* two labels, a source of each, a sink, and a tool that is source and     *)
(* sink at once; the policy of the pin runs pins two tools, one under its  *)
(* qualified and one under its bare name.                                  *)
(***************************************************************************)
EXTENDS ProxyProperties

\* Flow: tools "read", "fetch" and "send" of server "hr".
FlowTools == { <<"hr", "read">>, <<"NoServer", "fetch">>, <<"hr", "send">> }

FlowEntries ==
    [k \in FlowTools |->
       [labels      |-> CASE k[2] = "read"  -> {"sensitive"}
                          [] k[2] = "fetch" -> {"untrusted", "sink"}
                          [] k[2] = "send"  -> {"sink"},
        digest      |-> NoDigest,
        deny        |-> FALSE,
        refusedArgs |-> {}]]

FlowRules ==
    << [name |-> "both", sink |-> {"sink"}, after |-> {"sensitive", "untrusted"}] >>

\* Pins: "read" is pinned under its own name, "send" under the server's.
PinEntries ==
    [k \in { <<"hr", "send">>, <<"NoServer", "read">> } |->
       [labels      |-> IF k[2] = "read" THEN {"sensitive"} ELSE {"sink"},
        digest      |-> IF k[2] = "read" THEN "#read" ELSE "#send",
        deny        |-> FALSE,
        refusedArgs |-> IF k[2] = "send" THEN {"bad"} ELSE {}]]

\* The same definition may arrive in two spellings: one digest for both.
PinFingerprint ==
    [d \in {"read1", "read2", "send1", "evil"} |->
       CASE d \in {"read1", "read2"} -> "#read"
         [] d = "send1" -> "#send"
         [] d = "evil"  -> "#evil"]

Only(t, d) == [u \in {t} |-> d]

\* Reviewed lists, whole or the first page of one, and lists with a tool changed.
PinListings ==
    { [t \in {"read", "send"} |-> IF t = "read" THEN "read2" ELSE "send1"],
      [t \in {"read", "send"} |-> IF t = "read" THEN "evil" ELSE "send1"],
      [t \in {"read", "send"} |-> IF t = "read" THEN "read1" ELSE "evil"],
      Only("read", "read1") }

NoListings == {<<>>}

NoFingerprint == <<>>
\* Progress: a pinned source, and a sink without a pin.
TwoEntries == [k \in { <<"hr", "read">>, <<"hr", "send">> } |->
               [labels |-> IF k[2] = "read" THEN {"sensitive"} ELSE {"sink"},
                digest |-> IF k[2] = "read" THEN "#read" ELSE NoDigest,
                deny |-> FALSE, refusedArgs |-> {}]]

OneListing == { Only("read", "read1"), Only("read", "evil") }
=============================================================================

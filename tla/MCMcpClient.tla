----------------------------- MODULE MCMcpClient -----------------------------
(***************************************************************************)
(* A small instance of McpClient: two pages, of which the last one names   *)
(* itself as the next, or three, of which the last two name each other; a  *)
(* server that may offer our revision, two others, one or none; and pipes  *)
(* and a channel so short that they do fill up.                            *)
(***************************************************************************)
EXTENDS McpClientProperties

MCOffers == {{}, {2}, {3, 9}, {5, 9}}
MCCursors == {"", "c2"}
MCNext == [c \in MCCursors |-> "c2"]

RoundOffers == {{}, {5, 9}}
RoundCursors == {"", "c2", "c3"}
RoundNext == [c \in RoundCursors |-> IF c = "c2" THEN "c3" ELSE "c2"]
=============================================================================

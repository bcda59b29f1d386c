------------------------- MODULE PolicyFileProperties -------------------------
(***************************************************************************)
(* What init and verify promise about the policy file.                     *)
(***************************************************************************)
EXTENDS PolicyFile

\* Every variable keeps its type; a command that is not running holds nothing,
\* and one that writes has asked all its servers.
TypeOK ==
    /\ file \in Config \cup {Absent, Broken}
    /\ defs \in [Server -> Inventory]
    /\ pc \in [Command -> {"idle", "ask", "write"}]
    /\ cfg \in [Command -> Config]
    /\ todo \in [Command -> SUBSET Server]
    /\ \A p \in Command :
          /\ pc[p] = "idle" <=> job[p] = NoJob
          /\ pc[p] = "write" => todo[p] = {}
          /\ DOMAIN seen[p] \subseteq Server
          /\ \A s \in DOMAIN seen[p] : seen[p][s] \in Inventory
    /\ runs \in 0 .. MaxRuns /\ edits \in 0 .. MaxEdits /\ changes \in 0 .. MaxChanges

\* An init that found the file as it had read it has lost nothing of it: every
\* entry is still there with what its reviewer made of it, and with its
\* digest, unless --repin was given and the tool has changed
\* (init.go:60-79, against loads and edits that came in between).
InitKeepsReviewed ==
    lastInit # NoReport /\ lastInit.base = lastInit.before =>
        \A c \in Load(lastInit.before) :
            /\ c.servers \subseteq file.servers
            /\ \A k \in DOMAIN c.tools :
                  /\ k \in DOMAIN file.tools
                  /\ file.tools[k].reviewed = c.tools[k].reviewed
                  /\ file.tools[k].digest # c.tools[k].digest => lastInit.repin

\* A strict verify of what init has just seen reports at most what init said it
\* left alone: nothing at all after --repin (init.go:69-78, verify.go:53-68).
InitAgreesWithVerify ==
    lastInit # NoReport =>
        LET left == Violations(file, lastInit.server, lastInit.inv, TRUE)
        IN  /\ lastInit.repin => left = {}
            /\ \A c \in Load(lastInit.base) : left \subseteq Drifted(c, lastInit.server, lastInit.inv)
            /\ lastInit.base = Absent => left = {}

\* A strict verify that ends without a violation has cleared the wall: for
\* every tool of every server it asked, the entry the wall goes by, found its
\* own way, pins this definition or none (verify.go:52-68, policy.go:283-291).
CleanVerifyClearsWall ==
    lastVerify # NoReport /\ lastVerify.clean /\ lastVerify.strict =>
        \A s \in DOMAIN lastVerify.seen : \A t \in DOMAIN lastVerify.seen[s] :
            /\ Listed(lastVerify.cfg, s, t)
            /\ Lookup(lastVerify.cfg, s, t).digest \in {NoDigest, lastVerify.seen[s][t]}

\* A file that cannot be read is not made up for: only the operator, or a
\* command that has read the file before it broke, puts another in its place
\* (loadOrCreate, init.go:106-111).
BrokenFileKept ==
    [][file = Broken /\ file' # Broken =>
          \/ edits' # edits
          \/ \E p \in Command : pc[p] = "write" /\ pc'[p] = "idle" /\ base[p] # Broken]_vars

\* Without --repin, a tool that was pinned is still pinned to the definition
\* that was reviewed, as the wall looks it up (init.go:67-68: "Never silently
\* re-pin: a changed definition is the exact event the digest exists to
\* catch, so it takes a deliberate --repin to accept").
NeverSilentlyRepins ==
    lastInit # NoReport /\ lastInit.base = lastInit.before /\ ~lastInit.repin =>
        \A c \in Load(lastInit.before) : \A s \in Server, t \in Tool :
            Listed(c, s, t) /\ Lookup(c, s, t).digest # NoDigest =>
                Lookup(file, s, t).digest = Lookup(c, s, t).digest
=============================================================================

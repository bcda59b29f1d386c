------------------------------ MODULE PolicyFile ------------------------------
(***************************************************************************)
(* The life of the policy file: toolwall init, init --repin and verify run *)
(* side by side, while the operator edits the file and the servers change  *)
(* what they expose (cmd/toolwall/init.go, verify.go, inventory.go).       *)
(*                                                                         *)
(* A file is absent, broken (empty, cut or mistyped: Load fails), or a     *)
(* configuration: the servers it names, and its entries by key.  Of an     *)
(* entry only the digest matters here, and whether the operator has been   *)
(* over the rest.  Mode, rules and resources are handed on as they are.    *)
(*                                                                         *)
(* A command reads the file once, asks its servers, and (init) writes the  *)
(* file back whole: os.WriteFile empties the file first, and nothing is    *)
(* locked.  A command that exits with an error, or is killed, before it    *)
(* writes has done nothing.                                                *)
(***************************************************************************)
EXTENDS Naturals

CONSTANTS
    Command,        \* the commands that may be running at one time
    Server, Tool,
    NoServer,       \* the server of a bare key; verify without --server
    Key, KeyOf,     \* KeyOf[<<s, t>>]: the spelling of a key
    Digest, NoDigest,
    Absent, Broken, \* no file; a file that Load rejects
    Drafts,         \* files the operator may put in place
    Exposed,        \* Exposed[s]: the inventories server s may have
    NoJob, NoReport,
    MaxRuns, MaxEdits, MaxChanges   \* bounds

ToolPolicy == [digest : Digest \cup {NoDigest}, reviewed : BOOLEAN]

Config == [servers : SUBSET Server, tools : UNION {[K -> ToolPolicy] : K \in SUBSET Key}]

\* What a server exposes: its tools, by the fingerprints of their definitions.
Inventory == UNION {[T -> Digest] : T \in SUBSET Tool}

\* A command line: init --server, perhaps with --repin, or verify.
Job == [name : {"init"}, server : Server, repin : BOOLEAN] \cup [name : {"verify"}]

\* Spellings of two servers may meet: server "a" with tool "b.c", and server
\* "a.b" with tool "c".
ASSUME PolicyFileAssumption ==
    /\ NoServer \notin Server /\ NoDigest \notin Digest /\ NoJob \notin Job
    /\ KeyOf \in [(Server \cup {NoServer}) \X Tool -> Key]
    /\ \A s \in Server \cup {NoServer} : \A t, u \in Tool :
          KeyOf[<<s, t>>] = KeyOf[<<s, u>>] => t = u
    /\ \A s \in Server : Exposed[s] \subseteq Inventory
    /\ Drafts \subseteq Config \cup {Absent, Broken}
    /\ {Absent, Broken} \cap Config = {} /\ Absent # Broken
    /\ MaxRuns \in Nat /\ MaxEdits \in Nat /\ MaxChanges \in Nat

VARIABLES
    file,
    defs,       \* the inventory of each server, as it is now
    pc,         \* a command: "idle", "ask", "write"
    job,        \* its command line
    cfg,        \* the policy it has loaded
    todo,       \* the servers it has yet to ask
    seen        \* what the others exposed, for those it has asked

\* Bounds and history: no command reads these.
VARIABLES
    runs, edits, changes,
    base,       \* the file as a command read it
    before,     \* the file as a command found it when it opened it to write
    lastInit,   \* the init whose file the last step put in place
    lastVerify  \* the verify that the last step brought to an end

commandVars == <<pc, job, cfg, todo, seen, base, before, runs>>
worldVars   == <<defs, edits, changes>>
vars == <<file, lastInit, lastVerify, commandVars, worldVars>>

-----------------------------------------------------------------------------
(***************************************************************************)
(* What the commands compute.                                              *)
(***************************************************************************)
Empty == [servers |-> {}, tools |-> <<>>]

LoadOrCreateAlways_Mutant(f) == IF f \in {Absent, Broken} THEN {Empty} ELSE {f}

\* loadOrCreate: only a missing file is made up for.
LoadOrCreate(f) == IF f = Absent THEN {Empty} ELSE {f} \ {Broken}

Load(f) == {f} \ {Absent, Broken}

\* Config.Lookup, as the wall uses it: the qualified entry shadows the bare.
Listed(c, s, t) == {KeyOf[<<s, t>>], KeyOf[<<NoServer, t>>]} \cap DOMAIN c.tools # {}

Lookup(c, s, t) ==
    IF KeyOf[<<s, t>>] \in DOMAIN c.tools THEN c.tools[KeyOf[<<s, t>>]]
    ELSE c.tools[KeyOf[<<NoServer, t>>]]

\* init and verify know the qualified key only.
New(c, s, inv) == {t \in DOMAIN inv : KeyOf[<<s, t>>] \notin DOMAIN c.tools}

\* Not as it was pinned, or not pinned (init counts both).
Changed(c, s, inv) ==
    {t \in DOMAIN inv \ New(c, s, inv) : c.tools[KeyOf[<<s, t>>]].digest # inv[t]}

Drifted(c, s, inv) ==
    {t \in Changed(c, s, inv) : c.tools[KeyOf[<<s, t>>]].digest # NoDigest}

ViolationsLax_Mutant(c, s, inv, strict) == Drifted(c, s, inv)

\* What makes verify exit with 1.
Violations(c, s, inv, strict) ==
    Drifted(c, s, inv) \cup IF strict THEN New(c, s, inv) ELSE {}

\* The changed tools init takes the new digest of.
Accepted(c, s, inv, repin) == IF repin THEN Changed(c, s, inv) ELSE {}

Entry(c, s, inv, repin, t) ==
    IF t \in New(c, s, inv) THEN [digest |-> inv[t], reviewed |-> FALSE]
    ELSE IF t \in Accepted(c, s, inv, repin)
         THEN [c.tools[KeyOf[<<s, t>>]] EXCEPT !.digest = inv[t]]
    ELSE c.tools[KeyOf[<<s, t>>]]

\* A copy of the entry is changed, and not put back into the map.
MergeIntoCopy_Mutant(c, s, inv, repin) ==
    [servers |-> c.servers \cup {s},
     tools |-> [k \in DOMAIN c.tools \cup {KeyOf[<<s, t>>] : t \in DOMAIN inv} |->
                  IF k \in DOMAIN c.tools THEN c.tools[k]
                  ELSE Entry(c, s, inv, repin, CHOOSE t \in DOMAIN inv : KeyOf[<<s, t>>] = k)]]

\* Started from what the server exposes, not from what the file has.
MergeForgets_Mutant(c, s, inv, repin) ==
    [servers |-> c.servers \cup {s},
     tools |-> [k \in {KeyOf[<<s, t>>] : t \in DOMAIN inv} |->
                  Entry(c, s, inv, repin, CHOOSE t \in DOMAIN inv : KeyOf[<<s, t>>] = k)]]

\* The policy with the server's tools merged in, as init writes it.
Merge(c, s, inv, repin) ==
    LET Mine == {KeyOf[<<s, t>>] : t \in DOMAIN inv}
    IN  [servers |-> c.servers \cup {s},
         tools |-> [k \in DOMAIN c.tools \cup Mine |->
                      IF k \in Mine
                      THEN Entry(c, s, inv, repin, CHOOSE t \in DOMAIN inv : KeyOf[<<s, t>>] = k)
                      ELSE c.tools[k]]]

-----------------------------------------------------------------------------
Init ==
    /\ file \in Drafts
    /\ defs \in {d \in [Server -> UNION {Exposed[s] : s \in Server}] :
                    \A s \in Server : d[s] \in Exposed[s]}
    /\ pc = [p \in Command |-> "idle"] /\ job = [p \in Command |-> NoJob]
    /\ cfg = [p \in Command |-> Empty] /\ todo = [p \in Command |-> {}]
    /\ seen = [p \in Command |-> <<>>]
    /\ runs = 0 /\ edits = 0 /\ changes = 0
    /\ base = [p \in Command |-> Absent] /\ before = [p \in Command |-> Absent]
    /\ lastInit = NoReport /\ lastVerify = NoReport

NoneEnds == lastInit' = NoReport /\ lastVerify' = NoReport

Starts(p, c, j, servers) ==
    /\ pc[p] = "idle" /\ runs < MaxRuns /\ runs' = runs + 1
    /\ servers # {}
    /\ pc' = [pc EXCEPT ![p] = "ask"] /\ job' = [job EXCEPT ![p] = j]
    /\ cfg' = [cfg EXCEPT ![p] = c] /\ todo' = [todo EXCEPT ![p] = servers]
    /\ seen' = [seen EXCEPT ![p] = <<>>]
    /\ base' = [base EXCEPT ![p] = file]
    /\ UNCHANGED <<before, file, worldVars>> /\ NoneEnds

\* The way to the server is on the command line or in the policy (resolveSpec).
StartInit(p, s, named, repin) == \E c \in LoadOrCreate(file) :
    /\ named \/ s \in c.servers
    /\ Starts(p, c, [name |-> "init", server |-> s, repin |-> repin], {s})

StartVerify(p, only) == \E c \in Load(file) :
    Starts(p, c, [name |-> "verify"],
           {s \in c.servers : only \in {NoServer, s}})

Ends(p) ==
    /\ pc' = [pc EXCEPT ![p] = "idle"] /\ job' = [job EXCEPT ![p] = NoJob]
    /\ cfg' = [cfg EXCEPT ![p] = Empty] /\ todo' = [todo EXCEPT ![p] = {}]
    /\ seen' = [seen EXCEPT ![p] = <<>>]
    /\ base' = [base EXCEPT ![p] = Absent] /\ before' = [before EXCEPT ![p] = Absent]
    /\ UNCHANGED runs

\* take: one server is dialled, listed and left.
TakeInventory(p, s) ==
    /\ pc[p] = "ask" /\ s \in todo[p]
    /\ todo' = [todo EXCEPT ![p] = @ \ {s}]
    /\ seen' = [seen EXCEPT ![p] = [r \in DOMAIN @ \cup {s} |-> IF r = s THEN defs[s] ELSE @[r]]]
    /\ UNCHANGED <<pc, job, cfg, base, before, runs, file, worldVars>> /\ NoneEnds

\* The error of take is lost, and init goes on to write.
GoOnToWrite_Mutant(p) ==
    /\ pc[p] = "ask" /\ job[p].name = "init"
    /\ pc' = [pc EXCEPT ![p] = "write"] /\ before' = [before EXCEPT ![p] = file]
    /\ file' = Broken
    /\ UNCHANGED <<job, cfg, todo, seen, base, runs, worldVars>> /\ NoneEnds

\* A server cannot be dialled or listed: exit 2.  The end of a command that is
\* killed before it writes is the same.
InventoryFails(p) ==
    /\ pc[p] = "ask" /\ Ends(p)
    /\ UNCHANGED <<file, worldVars>> /\ NoneEnds

\* Whether --strict and --dry-run are given plays no part before the end.
VerifyEnds(p, strict) ==
    /\ pc[p] = "ask" /\ todo[p] = {} /\ job[p].name = "verify"
    /\ lastVerify' = [cfg |-> cfg[p], seen |-> seen[p], strict |-> strict,
                      clean |-> \A s \in DOMAIN seen[p] :
                                  Violations(cfg[p], s, seen[p][s], strict) = {}]
    /\ Ends(p)
    /\ lastInit' = NoReport
    /\ UNCHANGED <<file, worldVars>>

DryRunEnds(p) ==
    /\ pc[p] = "ask" /\ todo[p] = {} /\ job[p].name = "init"
    /\ Ends(p)
    /\ UNCHANGED <<file, worldVars>> /\ NoneEnds

-----------------------------------------------------------------------------
(***************************************************************************)
(* os.WriteFile.                                                           *)
(***************************************************************************)
Output(p) == LET s == job[p].server IN Merge(cfg[p], s, seen[p][s], job[p].repin)

OpenFile(p) ==
    /\ pc[p] = "ask" /\ todo[p] = {} /\ job[p].name = "init"
    /\ pc' = [pc EXCEPT ![p] = "write"]
    /\ before' = [before EXCEPT ![p] = file]
    /\ file' = Broken
    /\ UNCHANGED <<job, cfg, todo, seen, base, runs, worldVars>> /\ NoneEnds

\* Over a longer text of another command, that one's tail remains.
Overlaid(c, other) ==
    {Broken, c} \cup
    {[c EXCEPT !.tools = [k \in DOMAIN c.tools \cup K |->
                            IF k \in DOMAIN c.tools THEN c.tools[k] ELSE other.tools[k]]] :
        K \in SUBSET DOMAIN other.tools}

WriteFile(p) ==
    /\ pc[p] = "write"
    /\ IF file = Broken
       THEN /\ file' = Output(p)
            /\ lastInit' = [server |-> job[p].server, inv |-> seen[p][job[p].server],
                            repin |-> job[p].repin, base |-> base[p], before |-> before[p]]
       ELSE file' \in Overlaid(Output(p), file) /\ lastInit' = NoReport
    /\ Ends(p) /\ lastVerify' = NoReport
    /\ UNCHANGED worldVars

\* What may be left of a text: a prefix that still parses, or not.
Cut(c) ==
    {Broken} \cup {[servers |-> S, tools |-> <<>>] : S \in SUBSET c.servers}
    \cup {[c EXCEPT !.tools = [k \in K |-> @[k]]] : K \in SUBSET DOMAIN c.tools}

\* The command is killed, or the disk is full.
WriteCut(p) ==
    /\ pc[p] = "write"
    /\ file' \in Cut(Output(p)) \cup {file}
    /\ Ends(p)
    /\ UNCHANGED worldVars /\ NoneEnds

-----------------------------------------------------------------------------
(***************************************************************************)
(* The operator and the servers (external).  An edit takes no time, and    *)
(* does not fall between the opening and the writing of a command.         *)
(***************************************************************************)
Edits ==
    /\ edits < MaxEdits /\ edits' = edits + 1
    /\ \A p \in Command : pc[p] # "write"
    /\ UNCHANGED <<commandVars, defs, changes>> /\ NoneEnds

\* Another file altogether, or none.
ReplaceFile == Edits /\ file' \in Drafts \ {file}

\* An entry is reviewed, or its pin is taken off.
ReviewEntry == \E c \in Load(file) : \E k \in DOMAIN c.tools :
    /\ Edits
    /\ file' \in {[c EXCEPT !.tools[k].reviewed = TRUE], [c EXCEPT !.tools[k].digest = NoDigest]}

ServerChanges(s) ==
    /\ changes < MaxChanges /\ changes' = changes + 1
    /\ \E inv \in Exposed[s] \ {defs[s]} : defs' = [defs EXCEPT ![s] = inv]
    /\ UNCHANGED <<file, commandVars, edits>> /\ NoneEnds

-----------------------------------------------------------------------------
InitCommand(p) ==
    \/ \E s \in Server, named, repin \in BOOLEAN : StartInit(p, s, named, repin)
    \/ OpenFile(p) \/ WriteFile(p) \/ WriteCut(p) \/ DryRunEnds(p)

VerifyCommand(p) ==
    \/ \E only \in Server \cup {NoServer} : StartVerify(p, only)
    \/ \E strict \in BOOLEAN : VerifyEnds(p, strict)

Next ==
    \/ \E p \in Command :
          \/ InitCommand(p) \/ VerifyCommand(p)
          \/ InventoryFails(p) \/ \E s \in Server : TakeInventory(p, s)
    \/ ReplaceFile \/ ReviewEntry
    \/ \E s \in Server : ServerChanges(s)

Spec == Init /\ [][Next]_vars
=============================================================================
